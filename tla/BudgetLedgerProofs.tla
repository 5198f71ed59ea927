-------------------------- MODULE BudgetLedgerProofs --------------------------
(***************************************************************************)
(* Proofs about BudgetLedger, for any attempts, batches, scopes, limits,   *)
(* faults and crashes.                                                     *)
(*                                                                         *)
(* Records, the last snapshot and the store change at different moments.   *)
(* The invariant says what each of the three may hold of an attempt while  *)
(* the operation that changes it is under way, was refused, lost its       *)
(* answer, or died with its process.                                       *)
(***************************************************************************)
EXTENDS BudgetLedger, FiniteSetTheorems, SequenceTheorems, TLAPS

States == {"reserved", "unknown", "settled", "released"}

\* A record as an operation leaves it.
IsRecord(e) ==
  /\ e \in [in : Offers \cup Adopted, state : States, actual : Quantities, unpriced : BOOLEAN]
  /\ e.state = "settled" => e.actual.tokens # None /\ e.actual.usd # None
  /\ e.state # "released" /\ UnpricedUsd(e) => e.in.est.usd = None

\* The records of a ledger, live and folded: an attempt is in one of the two.
Gone(F) == {f.e.in.id : f \in F}
FoldFits(f) ==
  /\ IsRecord(f.e) /\ f.e.state # "reserved"
  /\ \E i \in DOMAIN f.e.in.chain : i > Len(f.keep)
Books(E, F) ==
  /\ \A r \in DOMAIN E : IsRecord(E[r]) /\ E[r].in.id = r
  /\ \A f \in F : FoldFits(f) /\ f.e.in.id \notin DOMAIN E

IsNew(in) == in \in Offers \cup Adopted /\ in.id \notin DOMAIN entries \cup Gone(folded)

Over(e) == e.state = "released" \/ SettledInStore(e)

\* The record e is no further back than a.
Covers(a, e) ==
  /\ Progress(a.state) <= Progress(e.state)
  /\ \A d \in Dims : a.actual[d] > 0 => e.actual[d] = a.actual[d]
Has(E, F, r) ==
  \/ r \in DOMAIN E /\ Covers(acked[r], E[r])
  \/ \E f \in F : f.e.in.id = r /\ Covers(acked[r], f.e)

\* The attempts of a batch the store was asked about and admitted.
Made(n) == {op.fresh[i].id : i \in 1..n}
\* Those whose holds an undoing was to give back so far.
Returned(n) == {op.fresh[i].id : i \in n..op.made}
Placed ==
  IF op.kind = "batch" THEN Made(op.done) ELSE IF op.kind = "undo" THEN Made(op.made) ELSE {}

\* What the running operation relies on.
ReserveFits == op.kind = "reserve" /\ IsNew(op.in)
CloseFits ==
  /\ op.kind = "close"
  /\ op = [kind |-> "close", next |-> op.next, tries |-> op.tries]
  /\ op.next.in.id \in DOMAIN entries
  /\ IsRecord(op.next) /\ op.next.in = entries[op.next.in.id].in
  /\ Covers(entries[op.next.in.id], op.next) /\ Over(op.next)
StepFits == op.fresh \in Seq(Offers) /\ \A i \in DOMAIN op.fresh : IsNew(op.fresh[i])
BatchFits ==
  /\ op.kind = "batch"
  /\ op = [kind |-> "batch", fresh |-> op.fresh, ids |-> op.ids, done |-> op.done,
            strict |-> op.strict]
  /\ StepFits /\ op.done \in 0 .. Len(op.fresh) - 1
  /\ op.ids \subseteq DOMAIN entries \cup Made(Len(op.fresh))
  /\ \A r \in Made(op.done) : IsHeld(r) \/ r \in swept \cup unsure.open
UndoFits ==
  /\ op.kind = "undo"
  /\ op = [kind |-> "undo", fresh |-> op.fresh, made |-> op.made, left |-> op.left,
            tries |-> op.tries, kept |-> op.kept]
  /\ StepFits
  /\ op.made \in 1 .. Len(op.fresh) /\ op.left \in 1 .. op.made
  /\ op.kept \subseteq unsure.close
  /\ \A r \in Returned(op.left + 1) : r \in op.kept \/ ~IsHeld(r)
OpFits ==
  \/ op = NoOp
  \/ op.kind = "save" /\ op.answers \subseteq DOMAIN entries
  \/ ReserveFits \/ CloseFits \/ BatchFits \/ UndoFits

Written(d) == d = [entries |-> d.entries, aggs |-> d.aggs, folded |-> d.folded]

\* Between operations the snapshot is what the ledger has, unless its write failed.
Steady ==
  /\ Written(disk)
  /\ poisoned \in BOOLEAN /\ (poisoned => op = NoOp)
  /\ op.kind # "save" /\ ~poisoned => disk = Snapshot
  /\ Gone(folded) \subseteq DOMAIN disk.entries \cup Gone(disk.folded)
  /\ ~Admission => DOMAIN holds = {} /\ op.kind \in {"none", "save"}

Charges == [tokens : Int, usd : Int]
Holds == [est : Charges, actual : Charges, state : {"reserved", "denied", "settled", "released"}]
HoldsFit == \A r \in DOMAIN holds : holds[r] \in Holds

UnsureFits == DOMAIN unsure = {"open", "close"}

\* What the ledger cannot know of a hold.
Doubt == unsure.open \cup unsure.close \cup swept
Shut(r) == ~IsHeld(r) \/ r \in unsure.open
ClosedOK(E) == \A r \in DOMAIN E : Over(E[r]) =>
                 ~IsHeld(r) \/ (r \in unsure.open /\ E[r].state = "released")
LiveOK(E, R) == \A r \in R : Admission /\ ~Over(E[r]) => IsHeld(r) \/ r \in Doubt
FoldedOK(F) == \A f \in F : f.e.state \in {"settled", "released"} => Shut(f.e.in.id)

\* A hold of an attempt nobody recorded: its answer was lost, its batch is
\* under way, or a sweep closed it.
Explained(r) ==
  \/ r \in unsure.open
  \/ r \in Placed /\ (op.kind = "undo" \/ IsHeld(r))
  \/ r \in swept /\ ~IsHeld(r)
Strays ==
  \A r \in DOMAIN holds :
    r \notin DOMAIN entries \cup Gone(folded) /\ holds[r].state # "denied" => Explained(r)

Durable ==
  \A r \in DOMAIN acked :
    acked[r].state \in States /\ Has(entries, folded, r) /\ Has(disk.entries, disk.folded, r)

LedgerInv ==
  /\ Books(entries, folded) /\ Books(disk.entries, disk.folded)
  /\ OpFits /\ Steady /\ Durable /\ HoldsFit /\ UnsureFits
  /\ ClosedOK(entries) /\ ClosedOK(disk.entries) /\ FoldedOK(folded) /\ FoldedOK(disk.folded)
  /\ LiveOK(entries, DOMAIN entries) /\ LiveOK(disk.entries, DOMAIN disk.entries \ DOMAIN entries)
  /\ Strays
-----------------------------------------------------------------------------
(* Records. *)

LEMMA CoversSelf == ASSUME NEW e, e.state \in States PROVE Covers(e, e)
BY DEF Covers, Progress, States

LEMMA CoversOn ==
  ASSUME NEW a, NEW e, NEW f, a.state \in States, e.state \in States, f.state \in States,
         Covers(a, e), Covers(e, f)
  PROVE  Covers(a, f)
BY DEF Covers, Progress, States

LEMMA ReservedIs ==
  ASSUME LedgerAssumption, NEW in \in Offers \cup Adopted
  PROVE  /\ IsRecord(Reserved(in)) /\ Reserved(in).in = in /\ Reserved(in).state = "reserved"
         /\ ~Over(Reserved(in))
<1>1. Unknown \in Quantities BY DEF Unknown, Quantities
<1>2. in.unpriced \in BOOLEAN /\ (in.unpriced => in.est.usd = None) BY DEF LedgerAssumption
<1>3. Unknown.tokens = None BY DEF Unknown
<1> QED BY <1>1, <1>2, <1>3 DEF Reserved, IsRecord, States, Over, SettledInStore, UnpricedUsd

LEMMA ReleasedIs ==
  ASSUME NEW e, IsRecord(e)
  PROVE  /\ IsRecord(Released(e)) /\ Released(e).in = e.in /\ Released(e).state = "released"
         /\ Over(Released(e))
         /\ (\A d \in Dims : OrZero(e.actual[d]) = 0) => Covers(e, Released(e))
<1> DEFINE r == Released(e)
<1> DEFINE All == [in : Offers \cup Adopted, state : States, actual : Quantities, unpriced : BOOLEAN]
<1>2. Unknown \in Quantities BY DEF Unknown, Quantities
<1>1. "released" \in States BY DEF States
<1>7. r \in All /\ r.in = e.in /\ r.state = "released" /\ r.actual = Unknown
  <2> HIDE DEF States
  <2> QED BY <1>1, <1>2 DEF Released, IsRecord
<1>3. r.in = e.in /\ r.state = "released" /\ r.actual = Unknown BY <1>7
<1> HIDE DEF r
<1>4. IsRecord(r) BY <1>3, <1>7 DEF IsRecord
<1>5. Over(r) BY <1>3 DEF Over
<1>6. ASSUME \A d \in Dims : OrZero(e.actual[d]) = 0 PROVE Covers(e, r)
  <2>1. \A d \in Dims : ~(e.actual[d] > 0) BY <1>6 DEF OrZero, None
  <2>2. e.state \in States BY DEF IsRecord
  <2> QED BY <1>3, <2>1, <2>2 DEF Covers, Progress, States
<1> QED BY <1>3, <1>4, <1>5, <1>6 DEF r

LEMMA QuantityIs ==
  ASSUME NEW q \in Quantities
  PROVE  \A d \in Dims : q[d] \in Nat \cup {None}
BY DEF Quantities, Dims

LEMMA SettledIs ==
  ASSUME NEW e, IsRecord(e), NEW q \in Quantities, SettlementFits(e, q), NEW u \in BOOLEAN,
         u /\ e.actual.usd = None /\ q.usd = None => e.in.est.usd = None
  PROVE  LET s == [Settled(e, q) EXCEPT !.unpriced = u]
         IN /\ IsRecord(s) /\ s.in = e.in /\ Covers(e, s) /\ s.state # "released"
            /\ \A d \in Dims : e.actual[d] # None => s.actual[d] = e.actual[d]
<1> DEFINE actual == [d \in Dims |-> IF e.actual[d] # None THEN e.actual[d] ELSE q[d]]
<1> DEFINE state == IF None \in {actual[d] : d \in Dims} THEN "unknown" ELSE "settled"
<1> DEFINE t == Settled(e, q)
<1> DEFINE s == [t EXCEPT !.unpriced = u]
<1>1. \A d \in Dims : e.actual[d] \in Nat \cup {None} /\ q[d] \in Nat \cup {None}
  BY QuantityIs DEF IsRecord
<1>2. \A d \in Dims : actual[d] = IF e.actual[d] # None THEN e.actual[d] ELSE q[d]
  OBVIOUS
<1>3. actual \in Quantities
  <2>1. actual = [tokens |-> actual.tokens, usd |-> actual.usd] BY DEF Dims
  <2>2. actual.tokens \in Nat \cup {None} /\ actual.usd \in Nat \cup {None}
    BY <1>1, <1>2 DEF Dims
  <2> HIDE DEF actual
  <2> QED BY <2>1, <2>2 DEF Quantities
<1> DEFINE All == [in : Offers \cup Adopted, state : States, actual : Quantities, unpriced : BOOLEAN]
<1>11. state \in States BY DEF States
<1>4. t = [e EXCEPT !.actual = actual, !.state = state] BY DEF Settled
<1> HIDE DEF t, actual
<1>5. t \in All /\ t.in = e.in /\ t.state = state /\ t.actual = actual
  <2> HIDE DEF state
  <2> QED BY <1>3, <1>4, <1>11 DEF IsRecord
<1>12. s \in All /\ s.in = t.in /\ s.state = t.state /\ s.actual = t.actual
  BY <1>5
<1> HIDE DEF s
<1>6. s.in = e.in /\ s.state = state /\ s.actual = actual BY <1>5, <1>12
<1>7. state = "settled" => actual.tokens # None /\ actual.usd # None BY DEF Dims
<1>8. state \in {"unknown", "settled"} OBVIOUS
<1>14. UnpricedUsd(s) => s.in.est.usd = None
  <2>1. t.unpriced = e.unpriced BY <1>4, <1>5
  <2>2. s.unpriced = u BY <1>5 DEF s
  <2>3. actual.usd = None => e.actual.usd = None /\ q.usd = None BY <1>2 DEF Dims
  <2> QED BY <1>6, <2>2, <2>3 DEF UnpricedUsd
<1>9. IsRecord(s)
  <2> HIDE DEF state
  <2> QED BY <1>6, <1>7, <1>12, <1>14 DEF IsRecord
<1>10. Covers(e, s)
  <2>1. \A d \in Dims : e.actual[d] > 0 => s.actual[d] = e.actual[d]
    BY <1>2, <1>6 DEF None
  <2>2. e.state \in States /\ e.state # "released" BY DEF IsRecord, SettlementFits
  <2>3. e.state = "settled" => state = "settled"
    BY <1>2 DEF IsRecord, Dims
  <2> HIDE DEF state
  <2> QED BY <1>6, <1>8, <2>1, <2>2, <2>3 DEF Covers, Progress, States
<1>13. s.state # "released" /\ \A d \in Dims : e.actual[d] # None => s.actual[d] = e.actual[d]
  BY <1>2, <1>6, <1>8
<1> HIDE DEF state
<1> QED BY <1>6, <1>9, <1>10, <1>13 DEF s, t
-----------------------------------------------------------------------------
(* The store's operations. *)

\* The hold r is not open any more; no other hold changed.
Shuts(r) ==
  /\ HoldsFit' /\ DOMAIN holds' = DOMAIN holds
  /\ \A q \in DOMAIN holds : q # r => holds'[q] = holds[q]
  /\ r \in DOMAIN holds =>
       holds'[r].state # "reserved" /\ (holds'[r].state = "denied" => holds[r].state = "denied")

\* The store knows the request of the attempt r; no other changed.
Opens(r) ==
  /\ HoldsFit' /\ DOMAIN holds' = DOMAIN holds \cup {r}
  /\ \A q \in DOMAIN holds : holds'[q] = holds[q]
  /\ r \notin DOMAIN holds => holds'[r].state \in {"reserved", "denied"}

LEMMA OpensIs ==
  ASSUME LedgerAssumption, HoldsFit, NEW in \in Offers \cup Adopted, StoreReserving(in)
  PROVE  /\ Opens(in.id)
         /\ StoreOutcome(in) = "admitted" <=>
              /\ holds'[in.id].state # "denied"
              /\ in.id \in DOMAIN holds => holds[in.id].est = StoreEst(in)
<1> DEFINE new == [est |-> StoreEst(in), actual |-> [tokens |-> 0, usd |-> 0],
                   state |-> IF StoreFits(StoreEst(in)) THEN "reserved" ELSE "denied"]
<1>1. StoreEst(in) \in Charges
  <2>1. in.est \in Quantities BY DEF LedgerAssumption
  <2>2. OrZero(in.est.tokens) \in Int /\ OrZero(in.est.usd) \in Int
    BY <2>1 DEF Quantities, OrZero, None
  <2> QED BY <2>2 DEF StoreEst, Charges
<1>2. [tokens |-> 0, usd |-> 0] \in Charges BY DEF Charges
<1>3. new \in Holds
  <2> HIDE DEF HoldsFit
  <2>1. \A x \in Charges, y \in Charges, st \in {"reserved", "denied", "settled", "released"} :
          [est |-> x, actual |-> y, state |-> st] \in Holds
    BY DEF Holds
  <2> QED BY <1>1, <1>2, <2>1
<1>4. new.state = IF StoreFits(StoreEst(in)) THEN "reserved" ELSE "denied" OBVIOUS
<1>5. holds' = IF in.id \in DOMAIN holds THEN holds ELSE With(holds, in.id, new)
  BY DEF StoreReserving
<1> HIDE DEF new
<1>6. CASE in.id \in DOMAIN holds
  BY <1>5, <1>6 DEF Opens, HoldsFit, StoreOutcome
<1>7. CASE in.id \notin DOMAIN holds
  <2>1. holds' = [x \in DOMAIN holds \cup {in.id} |-> IF x = in.id THEN new ELSE holds[x]]
    BY <1>5, <1>7 DEF With
  <2>2. DOMAIN holds' = DOMAIN holds \cup {in.id} /\ holds'[in.id] = new
        /\ \A q \in DOMAIN holds : holds'[q] = holds[q]
    BY <1>7, <2>1
  <2>3. HoldsFit' BY <1>3, <2>2 DEF HoldsFit
  <2> QED BY <1>4, <1>7, <2>2, <2>3 DEF Opens, StoreOutcome
<1> QED BY <1>6, <1>7

LEMMA EditedHold ==
  ASSUME HoldsFit, NEW r \in DOMAIN holds, holds[r].state # "denied", NEW q \in Charges,
         NEW st \in {"settled", "released"},
         \/ holds' = [holds EXCEPT ![r].state = st, ![r].actual = q]
         \/ holds' = [holds EXCEPT ![r].state = st]
  PROVE  Shuts(r)
<1>1. holds[r] \in Holds BY DEF HoldsFit
<1> DEFINE h == [holds[r] EXCEPT !.state = st]
           k == [holds[r] EXCEPT !.state = st, !.actual = q]
<1>2. h \in Holds /\ h.state = st BY <1>1 DEF Holds
<1>3. k \in Holds /\ k.state = st BY <1>1 DEF Holds
<1>4. DOMAIN holds' = DOMAIN holds /\ holds'[r] \in {h, k}
      /\ \A p \in DOMAIN holds : p # r => holds'[p] = holds[p]
  OBVIOUS
<1> HIDE DEF h, k
<1>5. HoldsFit' BY <1>2, <1>3, <1>4 DEF HoldsFit
<1> QED BY <1>2, <1>3, <1>4, <1>5 DEF Shuts

LEMMA UnchangedShuts ==
  ASSUME HoldsFit, NEW r, UNCHANGED holds, ~IsHeld(r)
  PROVE  Shuts(r)
BY DEF Shuts, HoldsFit, IsHeld

LEMMA SettlingShuts ==
  ASSUME HoldsFit, NEW r, NEW q \in Charges, StoreSettling(r, q)
  PROVE  Shuts(r)
<1>1. CASE IsHeld(r)
  <2>1. holds' = [holds EXCEPT ![r].state = "settled", ![r].actual = q]
    BY <1>1 DEF StoreSettling, IsHeld
  <2> QED BY <1>1, <2>1, EditedHold DEF IsHeld
<1>2. CASE ~IsHeld(r)
  <2>1. UNCHANGED holds BY <1>2 DEF StoreSettling, IsHeld
  <2> QED BY <1>2, <2>1, UnchangedShuts
<1> QED BY <1>1, <1>2

LEMMA ReleasingShuts ==
  ASSUME HoldsFit, NEW r, StoreReleasing(r)
  PROVE  Shuts(r)
<1>1. CASE UNCHANGED holds /\ ~IsHeld(r) BY <1>1, UnchangedShuts
<1>2. CASE holds' = [holds EXCEPT ![r].state = "released"]
           /\ r \in DOMAIN holds /\ holds[r].state # "denied"
  <2>1. [tokens |-> 0, usd |-> 0] \in Charges BY DEF Charges
  <2> QED BY <1>2, <2>1, EditedHold
<1> QED BY <1>1, <1>2 DEF StoreReleasing, IsHeld

LEMMA ClosingShuts ==
  ASSUME HoldsFit, NEW e, IsRecord(e), Closing(e)
  PROVE  Shuts(e.in.id)
<1>1. e.actual \in Quantities BY DEF IsRecord
<1>2. InStoreAmounts(e) \in Charges
  <2>1. e.actual.tokens \in Int /\ OrZero(e.actual.usd) \in Int
    BY <1>1 DEF Quantities, OrZero, None
  <2> QED BY <2>1 DEF InStoreAmounts, Charges
<1> QED BY <1>2, SettlingShuts, ReleasingShuts DEF Closing

\* No hold that was not open is opened, but that of r.
LEMMA Shutters ==
  ASSUME NEW r, Shuts(r) \/ Opens(r), NEW q, q # r
  PROVE  IsHeld(q)' <=> IsHeld(q)
BY DEF Shuts, Opens, IsHeld
-----------------------------------------------------------------------------
(* What every step of one sort keeps. *)

\* No hold is opened that records, live or folded, speak of.
Older == \A q \in DOMAIN entries \cup Gone(folded) : IsHeld(q)' => IsHeld(q)
Grows ==
  UnsureFits' /\ unsure.open \subseteq unsure'.open /\ unsure.close \subseteq unsure'.close

\* A step that goes on with an operation, or gives it up.
Goes ==
  /\ op.kind # "save" /\ ~poisoned /\ op'.kind # "save"
  /\ UNCHANGED <<local, disk, poisoned, acked, swept>> /\ Grows /\ Older
  /\ Admission /\ HoldsFit' /\ OpFits' /\ Strays' /\ LiveOK(entries, DOMAIN entries)'

LEMMA GoesOn == ASSUME LedgerInv, Goes PROVE LedgerInv'
<1>1. disk = Snapshot /\ disk.entries = entries /\ disk.folded = folded
  BY DEF LedgerInv, Goes, Steady, Snapshot
<1>2. entries' = entries /\ folded' = folded /\ disk' = disk /\ Snapshot' = Snapshot
      /\ acked' = acked /\ swept' = swept /\ poisoned' = FALSE
  BY DEF Goes, local, Snapshot, LedgerInv, Steady
<1>3. Books(entries, folded)' /\ Books(disk.entries, disk.folded)'
  BY <1>2 DEF LedgerInv, Books
<1>4. Steady'
  <2>1. Written(disk)' BY <1>2 DEF LedgerInv, Steady, Written
  <2> QED BY <1>1, <1>2, <2>1 DEF Steady, Goes, Gone
<1>5. Durable'
  BY <1>2 DEF LedgerInv, Durable, Has
<1>6. \A q \in DOMAIN entries \cup Gone(folded) : IsHeld(q)' => IsHeld(q)
  BY DEF Goes, Older
<1>7. unsure.open \subseteq unsure'.open BY DEF Goes, Grows
<1>8. ClosedOK(entries)' /\ ClosedOK(disk.entries)'
  BY <1>1, <1>2, <1>6, <1>7 DEF LedgerInv, ClosedOK
<1>9. FoldedOK(folded)' /\ FoldedOK(disk.folded)'
  BY <1>1, <1>2, <1>6, <1>7 DEF LedgerInv, FoldedOK, Shut, Gone
<1>10. LiveOK(disk.entries, DOMAIN disk.entries \ DOMAIN entries)'
  BY <1>1, <1>2 DEF LiveOK
<1>11. UnsureFits' BY DEF Goes, Grows
<1> QED BY <1>3, <1>4, <1>5, <1>8, <1>9, <1>10, <1>11 DEF LedgerInv, Goes

\* A step that changes records and goes on to write the snapshot.
RecordsMove(E) ==
  /\ DOMAIN entries \subseteq DOMAIN E
  /\ \A r \in DOMAIN E :
       /\ IsRecord(E[r]) /\ E[r].in.id = r
       /\ IF r \in DOMAIN entries THEN Covers(entries[r], E[r]) ELSE r \notin Gone(folded)
Writes(E) ==
  /\ op.kind # "save" /\ ~poisoned
  /\ entries' = E /\ UNCHANGED <<aggs, folded, disk, poisoned, acked, swept>>
  /\ Grows /\ Older /\ RecordsMove(E)
  /\ op'.kind = "save" /\ op'.answers \subseteq DOMAIN E
  /\ (Admission \/ UNCHANGED holds) /\ HoldsFit' /\ Strays'
  /\ ClosedOK(entries)' /\ LiveOK(entries, DOMAIN entries)'

LEMMA WritesOn == ASSUME LedgerInv, NEW E, Writes(E) PROVE LedgerInv'
<1>1. disk = Snapshot /\ disk.entries = entries /\ disk.folded = folded
  BY DEF LedgerInv, Writes, Steady, Snapshot
<1>2. entries' = E /\ folded' = folded /\ disk' = disk
      /\ acked' = acked /\ swept' = swept /\ poisoned' = FALSE
  BY DEF Writes, LedgerInv, Steady
<1>0. RecordsMove(E) BY DEF Writes
<1>3. Books(entries, folded)' /\ Books(disk.entries, disk.folded)'
  <2>1. Books(disk.entries, disk.folded)' BY <1>2 DEF LedgerInv, Books
  <2>2. \A r \in DOMAIN E : IsRecord(E[r]) /\ E[r].in.id = r
    BY <1>0 DEF RecordsMove
  <2>3. \A f \in folded : FoldFits(f) /\ f.e.in.id \notin DOMAIN E
    BY <1>0 DEF RecordsMove, LedgerInv, Books, Gone
  <2> QED BY <1>2, <2>1, <2>2, <2>3 DEF Books
<1>4. Steady'
  <2>1. op'.kind = "save" /\ op' # NoOp BY DEF Writes, NoOp
  <2>2. ~Admission => DOMAIN holds' = {}
    BY DEF Writes, LedgerInv, Steady
  <2>3. Written(disk)' BY <1>2 DEF LedgerInv, Steady, Written
  <2> QED BY <1>1, <1>2, <2>1, <2>2, <2>3 DEF Steady, LedgerInv, Gone
<1>5. Durable'
  <2> SUFFICES ASSUME NEW r \in DOMAIN acked
               PROVE  /\ acked[r].state \in States
                      /\ Has(E, folded, r) /\ Has(disk.entries, disk.folded, r)
    BY <1>2 DEF Durable, Has
  <2>1. acked[r].state \in States /\ Has(entries, folded, r) /\ Has(disk.entries, disk.folded, r)
    BY DEF LedgerInv, Durable
  <2>2. CASE r \in DOMAIN entries /\ Covers(acked[r], entries[r])
    <3>1. r \in DOMAIN E /\ IsRecord(E[r]) /\ Covers(entries[r], E[r])
      BY <1>0, <2>2 DEF RecordsMove
    <3>2. IsRecord(entries[r]) BY <2>2 DEF LedgerInv, Books
    <3>3. entries[r].state \in States /\ E[r].state \in States BY <3>1, <3>2 DEF IsRecord
    <3>4. Covers(acked[r], E[r]) BY <2>1, <2>2, <3>1, <3>3, CoversOn
    <3> QED BY <2>1, <3>1, <3>4 DEF Has
  <2>3. CASE \E f \in folded : f.e.in.id = r /\ Covers(acked[r], f.e)
    BY <2>1, <2>3 DEF Has
  <2> QED BY <2>1, <2>2, <2>3 DEF Has
<1>6. \A q \in DOMAIN entries \cup Gone(folded) : IsHeld(q)' => IsHeld(q)
  BY DEF Writes, Older
<1>7. unsure.open \subseteq unsure'.open BY DEF Writes, Grows
<1>8. ClosedOK(disk.entries)'
  BY <1>1, <1>2, <1>6, <1>7 DEF LedgerInv, ClosedOK
<1>9. FoldedOK(folded)' /\ FoldedOK(disk.folded)'
  BY <1>1, <1>2, <1>6, <1>7 DEF LedgerInv, FoldedOK, Shut, Gone
<1>10. LiveOK(disk.entries, DOMAIN disk.entries \ DOMAIN entries)'
  BY <1>0, <1>1, <1>2 DEF LiveOK, RecordsMove
<1>11. OpFits' BY <1>2 DEF Writes, OpFits
<1>12. UnsureFits' BY DEF Writes, Grows
<1> QED BY <1>3, <1>4, <1>5, <1>8, <1>9, <1>10, <1>11, <1>12 DEF LedgerInv, Writes
-----------------------------------------------------------------------------
(* Attempts one at a time. *)

LEMMA IdleIs ==
  ASSUME LedgerInv, Idle
  PROVE  /\ op.kind = "none" /\ ~poisoned /\ Placed = {} /\ disk = Snapshot
         /\ ~Admission => DOMAIN holds = {}
BY DEF LedgerInv, Idle, NoOp, Placed, Steady

\* The host never reserves again in a scope it compacted.
LEMMA NotFinished ==
  ASSUME LedgerAssumption, LedgerInv, NEW in \in Offers \cup Adopted, ~Finished(in.chain)
  PROVE  in.id \notin Gone(folded)
<1> SUFFICES ASSUME NEW f \in folded, f.e.in.id = in.id PROVE FALSE BY DEF Gone
<1>1. IsRecord(f.e) /\ \E i \in DOMAIN f.e.in.chain : i > Len(f.keep)
  BY DEF LedgerInv, Books, FoldFits
<1>2. PICK i \in DOMAIN f.e.in.chain : i > Len(f.keep) BY <1>1
<1>3. f.e.in \in Offers \cup Adopted BY <1>1 DEF IsRecord
<1>4. ChainIds(f.e.in.chain) = ChainIds(in.chain) BY <1>3 DEF LedgerAssumption
<1>5. i \in DOMAIN in.chain /\ in.chain[i].id = f.e.in.chain[i].id
  <2> DEFINE c == f.e.in.chain
             k == in.chain
  <2>1. DOMAIN ChainIds(c) = DOMAIN c /\ DOMAIN ChainIds(k) = DOMAIN k BY DEF ChainIds
  <2>2. i \in DOMAIN c /\ i \in DOMAIN k BY <1>2, <1>4, <2>1
  <2>3. ChainIds(c)[i] = c[i].id /\ ChainIds(k)[i] = k[i].id BY <2>2 DEF ChainIds
  <2> QED BY <1>4, <2>2, <2>3
<1>6. InScope(in.chain, f.e.in.chain[i].id) BY <1>5 DEF InScope
<1> QED BY <1>2, <1>6 DEF Finished

\* Without a call to the store: no record is called closed that was not, unless
\* its hold is.
LEMMA Sets ==
  ASSUME LedgerInv, Idle, NEW E, NEW A, Saving(E, A), A \subseteq DOMAIN E, RecordsMove(E),
         UNCHANGED <<unsaved, holds, unsure>>, ClosedOK(E),
         Admission => \A r \in DOMAIN E :
                        ~Over(E[r]) => r \in DOMAIN entries /\ ~Over(entries[r])
  PROVE  LedgerInv'
<1>1. op.kind = "none" /\ ~poisoned /\ Placed = {} BY IdleIs
<1>2. entries' = E /\ UNCHANGED <<aggs, folded, disk, poisoned, acked, swept, holds, unsure>>
      /\ op' = [kind |-> "save", answers |-> A]
  BY DEF Saving, unsaved
<1>3. op'.kind = "save" /\ op'.answers \subseteq DOMAIN E BY <1>2
<1>4. Grows /\ Older BY <1>2 DEF Grows, Older, IsHeld, LedgerInv, UnsureFits
<1>5. HoldsFit' BY <1>2 DEF LedgerInv, HoldsFit
<1>6. Strays'
  <2>1. \A r \in DOMAIN holds : Explained(r) => Explained(r)'
    BY <1>1, <1>2 DEF Explained, IsHeld
  <2>2. DOMAIN entries \subseteq DOMAIN entries' /\ holds' = holds /\ folded' = folded
    BY <1>2 DEF RecordsMove
  <2> QED BY <2>1, <2>2 DEF LedgerInv, Strays
<1>7. ClosedOK(entries)' BY <1>2 DEF ClosedOK, IsHeld
<1>8. LiveOK(entries, DOMAIN entries)' BY <1>2 DEF LedgerInv, LiveOK, IsHeld, Doubt
<1>9. Writes(E) BY <1>1, <1>2, <1>3, <1>4, <1>5, <1>6, <1>7, <1>8 DEF Writes
<1> QED BY <1>9, WritesOn

\* An operation that begins has changed nothing.
LEMMA Begins ==
  ASSUME LedgerInv, Idle, Admission, UNCHANGED <<local, unsaved, holds, unsure>>,
         op'.kind # "save", OpFits', Placed' = {}
  PROVE  LedgerInv'
<1>1. op.kind = "none" /\ ~poisoned /\ Placed = {} BY IdleIs
<1>2. UNCHANGED <<entries, aggs, folded, disk, poisoned, acked, swept, holds, unsure>>
  BY DEF local, unsaved
<1>3. Grows /\ Older BY <1>2 DEF Grows, Older, IsHeld, LedgerInv, UnsureFits
<1>4. HoldsFit' BY <1>2 DEF LedgerInv, HoldsFit
<1>5. Strays'
  <2>1. \A r \in DOMAIN holds : Explained(r) => Explained(r)'
    BY <1>1, <1>2 DEF Explained, IsHeld
  <2> QED BY <1>2, <2>1 DEF LedgerInv, Strays
<1>6. LiveOK(entries, DOMAIN entries)' BY <1>2 DEF LedgerInv, LiveOK, IsHeld, Doubt
<1>7. Goes BY <1>1, <1>2, <1>3, <1>4, <1>5, <1>6 DEF Goes, local
<1> QED BY <1>7, GoesOn

LEMMA Resaved ==
  ASSUME LedgerInv, Idle, NEW A \in SUBSET DOMAIN entries, Saving(entries, A),
         UNCHANGED <<unsaved, holds, unsure>>
  PROVE  LedgerInv'
<1>1. \A r \in DOMAIN entries : IsRecord(entries[r]) /\ entries[r].in.id = r
  BY DEF LedgerInv, Books
<1>2. \A r \in DOMAIN entries : Covers(entries[r], entries[r])
  BY <1>1, CoversSelf DEF IsRecord
<1>3. RecordsMove(entries) BY <1>1, <1>2 DEF RecordsMove
<1>4. ClosedOK(entries) BY DEF LedgerInv
<1> QED BY <1>3, <1>4, Sets

\* A new record beside the others.
LEMMA AddedMove ==
  ASSUME LedgerAssumption, LedgerInv, NEW in, IsNew(in)
  PROVE  LET E == With(entries, in.id, Reserved(in))
         IN /\ RecordsMove(E) /\ E[in.id] = Reserved(in) /\ DOMAIN E = DOMAIN entries \cup {in.id}
            /\ \A r \in DOMAIN entries : E[r] = entries[r]
<1> DEFINE E == With(entries, in.id, Reserved(in))
<1>1. in \in Offers \cup Adopted /\ in.id \notin DOMAIN entries /\ in.id \notin Gone(folded)
  BY DEF IsNew
<1>2. E[in.id] = Reserved(in) /\ DOMAIN E = DOMAIN entries \cup {in.id}
      /\ \A r \in DOMAIN entries : E[r] = entries[r]
  BY <1>1 DEF With
<1> HIDE DEF E
<1>3. \A r \in DOMAIN entries : IsRecord(entries[r]) /\ entries[r].in.id = r
  BY DEF LedgerInv, Books
<1>4. \A r \in DOMAIN entries : Covers(entries[r], entries[r])
  BY <1>3, CoversSelf DEF IsRecord
<1>5. IsRecord(Reserved(in)) /\ Reserved(in).in = in BY <1>1, ReservedIs
<1>6. RecordsMove(E) BY <1>1, <1>2, <1>3, <1>4, <1>5 DEF RecordsMove
<1> QED BY <1>2, <1>6 DEF E

LEMMA AdmitKeeps ==
  ASSUME LedgerAssumption, LedgerInv, NEW in \in Offers \cup Adopted, Reserve(in) \/ Adopt(in)
  PROVE  LedgerInv'
<1>1. Idle /\ UNCHANGED <<unsaved, holds, unsure>> BY DEF Reserve, Adopt
<1>2. CASE in.id \in DOMAIN entries /\ Saving(entries, {in.id})
  BY <1>1, <1>2, Resaved
<1>3. CASE /\ in.id \notin DOMAIN entries /\ ~Finished(in.chain)
           /\ Admission /\ op' = [kind |-> "reserve", in |-> in] /\ UNCHANGED local
  <2>1. IsNew(in) BY <1>3, NotFinished DEF IsNew
  <2>2. op'.kind = "reserve" /\ op'.in = in BY <1>3
  <2>3. IsNew(in)' BY <1>3, <2>1 DEF IsNew, local
  <2>4. ReserveFits' BY <2>2, <2>3 DEF ReserveFits, IsNew
  <2>5. OpFits' /\ Placed' = {} BY <2>2, <2>4 DEF OpFits, Placed
  <2> QED BY <1>1, <1>3, <2>2, <2>5, Begins
<1>4. CASE /\ in.id \notin DOMAIN entries /\ ~Finished(in.chain)
           /\ ~Admission /\ Saving(With(entries, in.id, Reserved(in)), {in.id})
  <2> DEFINE E == With(entries, in.id, Reserved(in))
  <2>1. IsNew(in) BY <1>4, NotFinished DEF IsNew
  <2>2. RecordsMove(E) /\ DOMAIN E = DOMAIN entries \cup {in.id} BY <2>1, AddedMove
  <2> HIDE DEF E
  <2>3. DOMAIN holds = {} BY <1>1, <1>4, IdleIs
  <2>4. ClosedOK(E) BY <2>3 DEF ClosedOK, IsHeld
  <2>5. {in.id} \subseteq DOMAIN E BY <2>2
  <2>6. Saving(E, {in.id}) BY <1>4 DEF E
  <2> QED BY <1>1, <1>4, <2>2, <2>4, <2>5, <2>6, Sets
<1> QED BY <1>2, <1>3, <1>4 DEF Reserve, Adopt
-----------------------------------------------------------------------------
\* What runs, fits the records.
LEMMA Running ==
  ASSUME LedgerInv, op.kind \in {"reserve", "close", "batch", "undo"}
  PROVE  /\ op.kind = "reserve" => ReserveFits
         /\ op.kind = "close" => CloseFits
         /\ op.kind = "batch" => BatchFits
         /\ op.kind = "undo" => UndoFits
         /\ ~poisoned /\ Admission /\ op.kind # "save"
<1>1. OpFits /\ Steady BY DEF LedgerInv
<1>2. op # NoOp BY DEF NoOp
<1>3. ~poisoned /\ Admission BY <1>1, <1>2 DEF Steady
<1> QED BY <1>1, <1>2, <1>3 DEF OpFits, ReserveFits, CloseFits, BatchFits, UndoFits

LEMMA NoOpIs == op' = NoOp => op'.kind = "none" /\ OpFits' /\ Placed' = {}
BY DEF NoOp, OpFits, Placed

\* A hold the ledger knows of was not touched.
LEMMA NewOlder ==
  ASSUME LedgerInv, NEW in, IsNew(in), Opens(in.id) \/ UNCHANGED holds \/ Shuts(in.id)
  PROVE  Older /\ \A q \in DOMAIN entries \cup Gone(folded) : IsHeld(q)' <=> IsHeld(q)
<1> SUFFICES ASSUME NEW q \in DOMAIN entries \cup Gone(folded) PROVE IsHeld(q)' <=> IsHeld(q)
  BY DEF Older
<1>1. q # in.id BY DEF IsNew
<1> QED BY <1>1, Shutters DEF IsHeld

\* So what is known of recorded attempts stays true.
LEMMA StillKnown ==
  ASSUME LedgerInv, UNCHANGED <<entries, swept>>, Grows,
         \A q \in DOMAIN entries : IsHeld(q)' <=> IsHeld(q)
  PROVE  LiveOK(entries, DOMAIN entries)'
BY DEF LedgerInv, LiveOK, Doubt, Grows

LEMMA StoreReserveKeeps ==
  ASSUME LedgerAssumption, LedgerInv, StoreReserve
  PROVE  LedgerInv'
<1> DEFINE in == op.in
<1> DEFINE E == With(entries, in.id, Reserved(in))
<1>1. ReserveFits /\ ~poisoned /\ Admission /\ op.kind # "save" BY Running DEF StoreReserve
<1>2. IsNew(in) /\ in \in Offers \cup Adopted BY <1>1 DEF ReserveFits, IsNew
<1>3. StoreReserving(in) /\ UNCHANGED <<disk, poisoned, acked, swept, unsure>>
  BY DEF StoreReserve, unsaved
<1>4. Opens(in.id) /\ (StoreOutcome(in) = "admitted" => holds'[in.id].state # "denied")
  BY <1>2, <1>3, OpensIs DEF LedgerInv
<1>5. Older /\ \A q \in DOMAIN entries \cup Gone(folded) : IsHeld(q)' <=> IsHeld(q)
  BY <1>2, <1>4, NewOlder
<1>6. Grows /\ HoldsFit' BY <1>3, <1>4 DEF Grows, Opens, LedgerInv, UnsureFits
<1>7. Placed = {} BY <1>1 DEF ReserveFits, Placed
<1>8. \A r \in DOMAIN holds' : r # in.id =>
        r \in DOMAIN holds /\ holds'[r] = holds[r] /\ (Explained(r) => Explained(r)')
  BY <1>3, <1>4, <1>7 DEF Opens, Explained, IsHeld
<1> HIDE DEF in
<1>9. CASE StoreOutcome(in) = "admitted" /\ Saving(E, {in.id})
  <2>1. RecordsMove(E) /\ E[in.id] = Reserved(in) /\ DOMAIN E = DOMAIN entries \cup {in.id}
        /\ \A r \in DOMAIN entries : E[r] = entries[r]
    BY <1>2, AddedMove
  <2> HIDE DEF E
  <2>2. entries' = E /\ UNCHANGED <<aggs, folded>> /\ op' = [kind |-> "save", answers |-> {in.id}]
    BY <1>9 DEF Saving
  <2>3. op'.kind = "save" /\ op'.answers \subseteq DOMAIN E BY <2>1, <2>2
  <2>4. ~Over(E[in.id])
    <3>1. ~Over(Reserved(in)) BY <1>2, ReservedIs
    <3> QED BY <2>1, <3>1
  <2>5. ClosedOK(entries)'
    <3> SUFFICES ASSUME NEW r \in DOMAIN E, Over(E[r])
                 PROVE  ~IsHeld(r)' \/ (r \in unsure'.open /\ E[r].state = "released")
      BY <2>2 DEF ClosedOK
    <3>1. r \in DOMAIN entries /\ E[r] = entries[r] BY <2>1, <2>4
    <3> QED BY <1>3, <1>5, <3>1 DEF LedgerInv, ClosedOK
  <2>6. Strays'
    <3> SUFFICES ASSUME NEW r \in DOMAIN holds', r \notin DOMAIN E \cup Gone(folded),
                        holds'[r].state # "denied"
                 PROVE  Explained(r)'
      BY <2>2 DEF Strays
    <3>1. r # in.id /\ r \notin DOMAIN entries BY <2>1
    <3> QED BY <1>8, <3>1 DEF LedgerInv, Strays
  <2>7. LiveOK(entries, DOMAIN entries)'
    <3> SUFFICES ASSUME NEW r \in DOMAIN E, ~Over(E[r]) PROVE IsHeld(r)' \/ r \in Doubt'
      BY <2>2 DEF LiveOK
    <3>1. CASE r \in DOMAIN entries
      BY <1>1, <1>3, <1>5, <2>1, <3>1 DEF LedgerInv, LiveOK, Doubt
    <3>2. CASE r = in.id
      <4>1. holds'[r].state # "denied" BY <1>4, <1>9, <3>2
      <4>2. CASE r \notin DOMAIN holds
        BY <1>4, <3>2, <4>1, <4>2 DEF Opens, IsHeld
      <4>3. CASE r \in DOMAIN holds
        <5>1. holds'[r] = holds[r] /\ r \in DOMAIN holds' BY <1>4, <4>3 DEF Opens
        <5>2. r \notin DOMAIN entries \cup Gone(folded) BY <1>2, <3>2 DEF IsNew
        <5>3. Explained(r) BY <4>1, <4>3, <5>1, <5>2 DEF LedgerInv, Strays
        <5> QED BY <1>3, <1>7, <5>3 DEF Explained, Doubt
      <4> QED BY <4>2, <4>3
    <3> QED BY <2>1, <3>1, <3>2
  <2>8. Writes(E) BY <1>1, <1>3, <1>5, <1>6, <2>1, <2>2, <2>3, <2>5, <2>6, <2>7 DEF Writes
  <2> QED BY <2>8, WritesOn
<1>10. CASE StoreOutcome(in) # "admitted" /\ op' = NoOp /\ UNCHANGED local
  <2>1. op'.kind # "save" /\ OpFits' /\ UNCHANGED <<entries, folded>>
    BY <1>10, NoOpIs DEF local
  <2>2. LiveOK(entries, DOMAIN entries)' BY <1>3, <1>5, <1>6, <2>1, StillKnown
  <2>3. Strays'
    <3> SUFFICES ASSUME NEW r \in DOMAIN holds', r \notin DOMAIN entries \cup Gone(folded),
                        holds'[r].state # "denied"
                 PROVE  Explained(r)'
      BY <2>1 DEF Strays
    <3>1. CASE r # in.id BY <1>8, <3>1 DEF LedgerInv, Strays
    <3>2. CASE r = in.id
      <4>1. in.id \in DOMAIN holds /\ holds[in.id].est # StoreEst(in)
        BY <1>2, <1>3, <1>10, <3>2, OpensIs DEF LedgerInv
      <4>2. r \in DOMAIN holds /\ holds'[r] = holds[r] BY <1>4, <3>2, <4>1 DEF Opens
      <4>3. Explained(r) BY <4>2 DEF LedgerInv, Strays
      <4> QED BY <1>3, <1>7, <4>2, <4>3 DEF Explained, IsHeld
    <3> QED BY <3>1, <3>2
  <2>4. Goes BY <1>1, <1>3, <1>5, <1>6, <1>10, <2>1, <2>2, <2>3 DEF Goes
  <2> QED BY <2>4, GoesOn
<1> QED BY <1>9, <1>10 DEF StoreReserve, in

LEMMA StoreReserveFailsKeeps ==
  ASSUME LedgerAssumption, LedgerInv, NEW effect \in BOOLEAN, StoreReserveFails(effect)
  PROVE  LedgerInv'
<1> DEFINE in == op.in
<1>1. ReserveFits /\ ~poisoned /\ Admission /\ op.kind # "save" BY Running DEF StoreReserveFails
<1>2. IsNew(in) /\ in \in Offers \cup Adopted BY <1>1 DEF ReserveFits, IsNew
<1>3. unsure' = [unsure EXCEPT !.open = @ \cup {in.id}] /\ op' = NoOp
      /\ UNCHANGED <<local, disk, poisoned, acked, swept>>
  BY DEF StoreReserveFails, unsaved
<1>4. Opens(in.id) \/ UNCHANGED holds
  BY <1>2, OpensIs DEF LedgerInv, StoreReserveFails
<1>5. Older /\ \A q \in DOMAIN entries \cup Gone(folded) : IsHeld(q)' <=> IsHeld(q)
  BY <1>2, <1>4, NewOlder
<1>6. unsure'.open = unsure.open \cup {in.id} /\ unsure'.close = unsure.close /\ UnsureFits'
  BY <1>3 DEF LedgerInv, UnsureFits
<1>7. Grows /\ HoldsFit' BY <1>4, <1>6 DEF Grows, Opens, LedgerInv, HoldsFit, UnsureFits
<1>8. Placed = {} BY <1>1 DEF ReserveFits, Placed
<1>9. op'.kind # "save" /\ OpFits' /\ UNCHANGED <<entries, folded>>
  BY <1>3, NoOpIs DEF local
<1>10. LiveOK(entries, DOMAIN entries)' BY <1>3, <1>5, <1>7, <1>9, StillKnown
<1>11. Strays'
  <2> SUFFICES ASSUME NEW r \in DOMAIN holds', r \notin DOMAIN entries \cup Gone(folded),
                      holds'[r].state # "denied"
               PROVE  Explained(r)'
    BY <1>9 DEF Strays
  <2>1. CASE r = in.id BY <1>6, <2>1 DEF Explained
  <2>2. CASE r # in.id
    <3>1. r \in DOMAIN holds /\ holds'[r] = holds[r] BY <1>4, <2>2 DEF Opens
    <3>2. Explained(r) BY <3>1 DEF LedgerInv, Strays
    <3> QED BY <1>3, <1>6, <1>8, <3>1, <3>2 DEF Explained, IsHeld
  <2> QED BY <2>1, <2>2
<1>12. Goes BY <1>1, <1>3, <1>5, <1>7, <1>9, <1>10, <1>11 DEF Goes
<1> QED BY <1>12, GoesOn
-----------------------------------------------------------------------------
(* Settling and releasing. *)

\* One record moved on.
LEMMA MovedOn ==
  ASSUME LedgerInv, NEW r \in DOMAIN entries, NEW next, IsRecord(next), next.in = entries[r].in,
         Covers(entries[r], next)
  PROVE  LET E == [entries EXCEPT ![r] = next]
         IN /\ RecordsMove(E) /\ E[r] = next /\ DOMAIN E = DOMAIN entries
            /\ \A q \in DOMAIN entries : q # r => E[q] = entries[q]
<1> DEFINE E == [entries EXCEPT ![r] = next]
<1>1. E[r] = next /\ DOMAIN E = DOMAIN entries
      /\ \A q \in DOMAIN entries : q # r => E[q] = entries[q]
  OBVIOUS
<1> HIDE DEF E
<1>2. \A q \in DOMAIN entries : IsRecord(entries[q]) /\ entries[q].in.id = q
  BY DEF LedgerInv, Books
<1>3. \A q \in DOMAIN entries : Covers(entries[q], entries[q])
  BY <1>2, CoversSelf DEF IsRecord
<1>4. next.in.id = r BY <1>2
<1>5. RecordsMove(E) BY <1>1, <1>2, <1>3, <1>4 DEF RecordsMove
<1> QED BY <1>1, <1>5 DEF E

\* A record that is settled further is settled in the store if it was.
LEMMA SettledOn ==
  ASSUME NEW e, NEW next, IsRecord(e), IsRecord(next), next.in = e.in, Covers(e, next),
         next.state # "released", SettledInStore(e),
         \A d \in Dims : e.actual[d] # None => next.actual[d] = e.actual[d]
  PROVE  SettledInStore(next)
<1>1. e.state \in States /\ next.state \in States BY DEF IsRecord
<1>2. CASE e.state = "settled"
  BY <1>1, <1>2 DEF Covers, Progress, States, SettledInStore
<1>3. CASE e.in.est.usd = None /\ e.actual.tokens # None
  BY <1>3 DEF SettledInStore, Dims
<1> QED BY <1>2, <1>3 DEF SettledInStore

LEMMA SettlingKeeps ==
  ASSUME LedgerInv, Idle, NEW r \in DOMAIN entries, NEW next, IsRecord(next),
         next.in = entries[r].in, Covers(entries[r], next), entries[r].state # "released",
         next.state # "released",
         \A d \in Dims : entries[r].actual[d] # None => next.actual[d] = entries[r].actual[d],
         Settling(r, next), UNCHANGED <<unsaved, holds, unsure>>
  PROVE  LedgerInv'
<1>1. IsRecord(entries[r]) /\ entries[r].in.id = r BY DEF LedgerInv, Books
<1>2. CASE /\ Admission /\ SettledInStore(next) /\ UNCHANGED local
           /\ op' = [kind |-> "close", next |-> next, tries |-> 1]
  <2>1. op'.kind = "close" /\ op'.next = next /\ op'.tries = 1 /\ op'.next.in.id = r
    BY <1>1, <1>2
  <2>2. Over(next) BY <1>2 DEF Over
  <2>3. CloseFits' BY <1>2, <2>1, <2>2 DEF CloseFits, local
  <2>4. OpFits' /\ Placed' = {} BY <2>1, <2>3 DEF OpFits, Placed
  <2> QED BY <1>2, <2>1, <2>4, Begins
<1>3. CASE /\ ~(Admission /\ SettledInStore(next) /\ ~SettledInStore(entries[r]))
           /\ Saving([entries EXCEPT ![r] = next], {r})
  <2> DEFINE E == [entries EXCEPT ![r] = next]
  <2>1. RecordsMove(E) /\ E[r] = next /\ DOMAIN E = DOMAIN entries
        /\ \A q \in DOMAIN entries : q # r => E[q] = entries[q]
    BY MovedOn
  <2> HIDE DEF E
  <2>2. SettledInStore(entries[r]) => SettledInStore(next) BY <1>1, SettledOn
  <2>3. ClosedOK(E)
    <3> SUFFICES ASSUME NEW q \in DOMAIN entries, Over(E[q])
                 PROVE  ~IsHeld(q) \/ (q \in unsure.open /\ E[q].state = "released")
      BY <2>1 DEF ClosedOK
    <3>1. CASE q # r BY <2>1, <3>1 DEF LedgerInv, ClosedOK
    <3>2. CASE q = r /\ Admission
      <4>1. SettledInStore(next) BY <2>1, <3>2 DEF Over
      <4>2. SettledInStore(entries[r]) BY <1>3, <3>2, <4>1
      <4> QED BY <3>2, <4>2 DEF LedgerInv, ClosedOK, Over
    <3>3. CASE ~Admission BY <3>3, IdleIs DEF IsHeld
    <3> QED BY <3>1, <3>2, <3>3
  <2>4. \A q \in DOMAIN E : ~Over(E[q]) => q \in DOMAIN entries /\ ~Over(entries[q])
    <3> SUFFICES ASSUME NEW q \in DOMAIN entries, ~Over(E[q]) PROVE ~Over(entries[q])
      BY <2>1
    <3>1. CASE q = r BY <2>1, <2>2, <3>1 DEF Over
    <3>2. CASE q # r BY <2>1, <3>2
    <3> QED BY <3>1, <3>2
  <2>5. Saving(E, {r}) /\ {r} \subseteq DOMAIN E BY <1>3, <2>1 DEF E
  <2> QED BY <2>1, <2>3, <2>4, <2>5, Sets
<1> QED BY <1>2, <1>3 DEF Settling

LEMMA SettleKeeps ==
  ASSUME LedgerAssumption, LedgerInv, NEW r \in Ids, NEW amounts \in Settlements,
         Settle(r, amounts)
  PROVE  LedgerInv'
<1> DEFINE e == entries[r]
<1> DEFINE next == Settled(e, amounts)
<1>1. r \in DOMAIN entries /\ Idle /\ SettlementFits(e, amounts) /\ Settling(r, next)
      /\ UNCHANGED <<unsaved, holds, unsure>>
  BY DEF Settle
<1>2. IsRecord(e) BY <1>1 DEF LedgerInv, Books
<1>3. amounts \in Quantities BY DEF LedgerAssumption
<1>4. e.unpriced \in BOOLEAN BY <1>2 DEF IsRecord
<1>5. [next EXCEPT !.unpriced = e.unpriced] = next BY <1>2 DEF Settled, IsRecord
<1>6. e.state # "released" BY <1>1 DEF SettlementFits
<1>8. e.unpriced /\ e.actual.usd = None => e.in.est.usd = None
  BY <1>2, <1>6 DEF IsRecord, UnpricedUsd
<1> HIDE DEF e
<1>7. /\ IsRecord(next) /\ next.in = e.in /\ Covers(e, next) /\ next.state # "released"
      /\ \A d \in Dims : e.actual[d] # None => next.actual[d] = e.actual[d]
  <2> DEFINE s == [next EXCEPT !.unpriced = e.unpriced]
  <2>1. /\ IsRecord(s) /\ s.in = e.in /\ Covers(e, s) /\ s.state # "released"
        /\ \A d \in Dims : e.actual[d] # None => s.actual[d] = e.actual[d]
    BY <1>1, <1>2, <1>3, <1>4, <1>8, SettledIs
  <2> HIDE DEF next
  <2> QED BY <1>5, <2>1
<1> HIDE DEF next
<1> QED BY <1>1, <1>6, <1>7, SettlingKeeps DEF e

LEMMA SettleUsageKeeps ==
  ASSUME LedgerAssumption, LedgerInv, NEW r \in Ids, NEW tokens \in Usages, NEW price \in Prices,
         SettleUsage(r, tokens, price)
  PROVE  LedgerInv'
<1> DEFINE e == entries[r]
           asked == e.actual.usd = None
           usd == CASE ~asked -> e.actual.usd
                    [] asked /\ price = NoPrice -> e.in.est.usd
                    [] asked /\ price = Outage  -> None
                    [] OTHER -> price
           unpriced == CASE asked /\ price = NoPrice -> TRUE
                         [] asked /\ price >= 0      -> FALSE
                         [] OTHER                    -> e.unpriced
           q == [tokens |-> tokens, usd |-> usd]
           next == [Settled(e, q) EXCEPT !.unpriced = unpriced]
<1>1. r \in DOMAIN entries /\ Idle /\ SettlementFits(e, [tokens |-> tokens, usd |-> None])
      /\ Settling(r, next) /\ UNCHANGED <<unsaved, holds, unsure>>
  BY DEF SettleUsage
<1>2. IsRecord(e) BY <1>1 DEF LedgerInv, Books
<1>3. e.actual \in Quantities /\ e.in \in Offers \cup Adopted /\ e.unpriced \in BOOLEAN
  BY <1>2 DEF IsRecord
<1>4. e.in.est \in Quantities BY <1>3 DEF LedgerAssumption
<1>5. price \in Nat \cup {NoPrice, Outage} /\ tokens \in Nat BY DEF LedgerAssumption
<1>6. usd \in Nat \cup {None}
  <2>1. e.actual.usd \in Nat \cup {None} /\ e.in.est.usd \in Nat \cup {None}
    BY <1>3, <1>4 DEF Quantities
  <2> HIDE DEF e
  <2> QED BY <1>5, <2>1 DEF NoPrice, Outage, None
<1>7. q \in Quantities
  <2> HIDE DEF usd
  <2> QED BY <1>5, <1>6 DEF Quantities
<1>8. unpriced \in BOOLEAN
  <2> HIDE DEF e
  <2>1. e.unpriced \in BOOLEAN BY <1>3
  <2> QED BY <1>5, <2>1 DEF NoPrice, Outage
<1>9. usd # e.actual.usd => e.actual.usd = None
  <2> HIDE DEF e
  <2> QED OBVIOUS
<1>10. SettlementFits(e, q)
  <2> DEFINE q0 == [tokens |-> tokens, usd |-> None]
  <2>1. q.tokens = tokens /\ q.usd = usd /\ q0.tokens = tokens OBVIOUS
  <2>3. e.state # "released" BY <1>1 DEF SettlementFits
  <2>5. None \in {e.actual["tokens"], q0["tokens"]} \/ e.actual["tokens"] = q0["tokens"]
    BY <1>1 DEF SettlementFits, Dims
  <2>6. None \in {e.actual["tokens"], q["tokens"]} \/ e.actual["tokens"] = q["tokens"]
    BY <2>1, <2>5
  <2>7. None \in {e.actual["usd"], q["usd"]} \/ e.actual["usd"] = q["usd"]
    BY <1>9, <2>1
  <2> HIDE DEF e, q, q0
  <2> QED BY <2>3, <2>6, <2>7 DEF SettlementFits, Dims
<1>11. e.state # "released" BY <1>1 DEF SettlementFits
<1>13. unpriced /\ e.actual.usd = None /\ q.usd = None => e.in.est.usd = None
  <2>1. q.usd = usd OBVIOUS
  <2>2. e.unpriced /\ e.actual.usd = None => e.in.est.usd = None
    BY <1>2, <1>11 DEF IsRecord, UnpricedUsd
  <2> HIDE DEF e, q
  <2> QED BY <1>5, <2>1, <2>2 DEF NoPrice, Outage, None
<1> HIDE DEF e, q, unpriced
<1>12. /\ IsRecord(next) /\ next.in = e.in /\ Covers(e, next) /\ next.state # "released"
       /\ \A d \in Dims : e.actual[d] # None => next.actual[d] = e.actual[d]
  BY <1>2, <1>7, <1>8, <1>10, <1>13, SettledIs
<1> HIDE DEF next
<1> QED BY <1>1, <1>11, <1>12, SettlingKeeps DEF e

LEMMA MarkUnknownKeeps ==
  ASSUME LedgerInv, NEW r \in Ids, MarkUnknown(r)
  PROVE  LedgerInv'
<1> DEFINE e == entries[r]
           st == IF e.state = "reserved" THEN "unknown" ELSE e.state
           next == [e EXCEPT !.state = st]
           E == [entries EXCEPT ![r] = next]
<1>1. r \in DOMAIN entries /\ Idle /\ UNCHANGED <<unsaved, holds, unsure>> BY DEF MarkUnknown
<1>2. Saving(E, {r}) BY <1>1 DEF MarkUnknown
<1>3. IsRecord(e) BY <1>1 DEF LedgerInv, Books
<1> HIDE DEF e
<1>4. next.in = e.in /\ next.state = st /\ next.actual = e.actual /\ IsRecord(next)
  <2>1. st \in States /\ (st = "settled" => e.state = "settled") BY <1>3 DEF States, IsRecord
  <2>2. st # "released" => e.state # "released" OBVIOUS
  <2> HIDE DEF st
  <2> QED BY <1>3, <2>1, <2>2 DEF IsRecord, UnpricedUsd
<1>5. Covers(e, next)
  <2>1. e.state \in States BY <1>3 DEF IsRecord
  <2> HIDE DEF next
  <2> QED BY <1>4, <2>1 DEF Covers, Progress, States
<1>6. Over(next) <=> Over(e)
  <2> HIDE DEF next
  <2> QED BY <1>4 DEF Over, SettledInStore
<1>7. next.state = "released" <=> e.state = "released" BY <1>4
<1> HIDE DEF next, st
<1>8. RecordsMove(E) /\ E[r] = next /\ DOMAIN E = DOMAIN entries
      /\ \A q \in DOMAIN entries : q # r => E[q] = entries[q]
  BY <1>1, <1>4, <1>5, MovedOn DEF e
<1> HIDE DEF E
<1>9. ClosedOK(E) BY <1>6, <1>7, <1>8 DEF LedgerInv, ClosedOK, e
<1>10. \A q \in DOMAIN E : ~Over(E[q]) => q \in DOMAIN entries /\ ~Over(entries[q])
  BY <1>6, <1>8 DEF e
<1> QED BY <1>1, <1>2, <1>8, <1>9, <1>10, Sets

LEMMA ReleaseKeeps ==
  ASSUME LedgerInv, NEW r \in Ids, Release(r)
  PROVE  LedgerInv'
<1> DEFINE e == entries[r]
           next == Released(e)
           E == [entries EXCEPT ![r] = next]
<1>1. r \in DOMAIN entries /\ Idle /\ UNCHANGED <<unsaved, holds, unsure>>
      /\ \A d \in Dims : OrZero(e.actual[d]) = 0
  BY DEF Release
<1>2. IsRecord(e) /\ e.in.id = r BY <1>1 DEF LedgerInv, Books
<1>3. /\ IsRecord(next) /\ next.in = e.in /\ next.state = "released" /\ Over(next)
      /\ Covers(e, next)
  <2> HIDE DEF e
  <2> QED BY <1>1, <1>2, ReleasedIs
<1>4. CASE /\ Admission /\ e.state # "released" /\ UNCHANGED local
           /\ op' = [kind |-> "close", next |-> next, tries |-> 1]
  <2> HIDE DEF next
  <2>1. op'.kind = "close" /\ op'.next = next /\ op'.tries = 1 /\ op'.next.in.id = r
    BY <1>2, <1>3, <1>4
  <2>2. CloseFits' BY <1>1, <1>3, <1>4, <2>1 DEF CloseFits, local
  <2>3. OpFits' /\ Placed' = {} BY <2>1, <2>2 DEF OpFits, Placed
  <2> QED BY <1>1, <1>4, <2>1, <2>3, Begins
<1>5. CASE ~(Admission /\ e.state # "released") /\ Saving(E, {r})
  <2> HIDE DEF next
  <2>1. RecordsMove(E) /\ E[r] = next /\ DOMAIN E = DOMAIN entries
        /\ \A q \in DOMAIN entries : q # r => E[q] = entries[q]
    BY <1>1, <1>3, MovedOn
  <2> HIDE DEF E
  <2>2. ClosedOK(E)
    <3> SUFFICES ASSUME NEW q \in DOMAIN entries, Over(E[q])
                 PROVE  ~IsHeld(q) \/ (q \in unsure.open /\ E[q].state = "released")
      BY <2>1 DEF ClosedOK
    <3>1. CASE q # r BY <2>1, <3>1 DEF LedgerInv, ClosedOK
    <3>2. CASE q = r /\ e.state = "released"
      BY <1>3, <2>1, <3>2 DEF LedgerInv, ClosedOK, Over
    <3>3. CASE ~Admission BY <1>1, <3>3, IdleIs DEF IsHeld
    <3> QED BY <1>5, <3>1, <3>2, <3>3
  <2>3. \A q \in DOMAIN E : ~Over(E[q]) => q \in DOMAIN entries /\ ~Over(entries[q])
    BY <1>3, <2>1
  <2>4. {r} \subseteq DOMAIN E BY <1>1, <2>1
  <2> QED BY <1>1, <1>5, <2>1, <2>2, <2>3, <2>4, Sets
<1> QED BY <1>4, <1>5 DEF Release

LEMMA StoreCloseKeeps ==
  ASSUME LedgerInv, StoreClose
  PROVE  LedgerInv'
<1>0. PICK r : r = op.next.in.id OBVIOUS
<1> DEFINE next == op.next
           E == [entries EXCEPT ![r] = next]
<1>1. CloseFits /\ ~poisoned /\ Admission /\ op.kind # "save" BY Running DEF StoreClose
<1>2. r \in DOMAIN entries /\ IsRecord(next) /\ next.in = entries[r].in
      /\ Covers(entries[r], next) /\ Over(next) /\ Placed = {}
  BY <1>0, <1>1 DEF CloseFits, Placed
<1>3. Saving(E, {r}) /\ UNCHANGED <<disk, poisoned, acked, swept, unsure>>
  BY <1>0 DEF StoreClose, unsaved
<1>4. Shuts(r) BY <1>0, <1>2, ClosingShuts DEF StoreClose, LedgerInv
<1>5. RecordsMove(E) /\ E[r] = next /\ DOMAIN E = DOMAIN entries
      /\ \A q \in DOMAIN entries : q # r => E[q] = entries[q]
  BY <1>2, MovedOn
<1> HIDE DEF E, next
<1>6. entries' = E /\ UNCHANGED <<aggs, folded>> /\ op' = [kind |-> "save", answers |-> {r}]
  BY <1>3 DEF Saving
<1>7. op'.kind = "save" /\ op'.answers \subseteq DOMAIN E BY <1>2, <1>5, <1>6
<1>8. ~IsHeld(r)' /\ \A q : q # r => (IsHeld(q)' <=> IsHeld(q))
  BY <1>4, Shutters DEF Shuts, IsHeld
<1>9. Grows /\ Older /\ HoldsFit'
  BY <1>3, <1>4, <1>8 DEF Grows, Older, Shuts, LedgerInv, UnsureFits
<1>10. Strays'
  <2> SUFFICES ASSUME NEW q \in DOMAIN holds', q \notin DOMAIN E \cup Gone(folded),
                      holds'[q].state # "denied"
               PROVE  Explained(q)'
    BY <1>6 DEF Strays
  <2>1. q # r /\ q \notin DOMAIN entries \cup Gone(folded) BY <1>2, <1>5
  <2>2. q \in DOMAIN holds /\ holds'[q] = holds[q] BY <1>4, <2>1 DEF Shuts
  <2>3. Explained(q) BY <2>1, <2>2 DEF LedgerInv, Strays
  <2> QED BY <1>2, <1>3, <1>8, <2>1, <2>3 DEF Explained
<1>11. ClosedOK(entries)'
  BY <1>3, <1>5, <1>6, <1>8 DEF LedgerInv, ClosedOK
<1>12. LiveOK(entries, DOMAIN entries)'
  BY <1>2, <1>3, <1>5, <1>6, <1>8 DEF LedgerInv, LiveOK, Doubt
<1>13. Writes(E) BY <1>1, <1>3, <1>5, <1>6, <1>7, <1>9, <1>10, <1>11, <1>12 DEF Writes
<1> QED BY <1>13, WritesOn

LEMMA StoreCloseFailsKeeps ==
  ASSUME LedgerInv, NEW effect \in BOOLEAN, StoreCloseFails(effect)
  PROVE  LedgerInv'
<1>0. PICK r : r = op.next.in.id OBVIOUS
<1> DEFINE next == op.next
<1>1. CloseFits /\ ~poisoned /\ Admission /\ op.kind # "save" BY Running DEF StoreCloseFails
<1>2. r \in DOMAIN entries /\ IsRecord(next) /\ Placed = {}
  BY <1>0, <1>1 DEF CloseFits, Placed
<1>3. UNCHANGED <<local, disk, poisoned, acked, swept>>
      /\ unsure' = [unsure EXCEPT !.close = @ \cup {r}]
  BY <1>0 DEF StoreCloseFails, unsaved
<1>4. Shuts(r) \/ UNCHANGED holds BY <1>0, <1>2, ClosingShuts DEF StoreCloseFails, LedgerInv
<1>5. unsure'.close = unsure.close \cup {r} /\ unsure'.open = unsure.open /\ UnsureFits'
  BY <1>3 DEF LedgerInv, UnsureFits
<1>6. OpFits' /\ op'.kind # "save" /\ Placed' = {}
  <2>1. CASE op' = NoOp BY <2>1, NoOpIs
  <2>2. CASE op' = [op EXCEPT !.tries = @ + 1]
    <3>1. op'.kind = "close" /\ op'.next = next
          /\ op' = [kind |-> "close", next |-> op'.next, tries |-> op'.tries]
      BY <1>1, <2>2 DEF CloseFits
    <3>2. CloseFits' BY <1>1, <1>3, <3>1 DEF CloseFits, local
    <3> QED BY <3>1, <3>2 DEF OpFits, Placed
  <2> QED BY <2>1, <2>2 DEF StoreCloseFails
<1> HIDE DEF next
<1>7. \A q : (IsHeld(q)' => IsHeld(q)) /\ (q # r => (IsHeld(q)' <=> IsHeld(q)))
  BY <1>4, Shutters DEF Shuts, IsHeld
<1>8. Grows /\ Older /\ HoldsFit'
  BY <1>4, <1>5, <1>7 DEF Grows, Older, Shuts, LedgerInv, HoldsFit
<1>9. Strays'
  <2> SUFFICES ASSUME NEW q \in DOMAIN holds', q \notin DOMAIN entries \cup Gone(folded),
                      holds'[q].state # "denied"
               PROVE  Explained(q)'
    BY <1>3 DEF Strays, local
  <2>1. q # r BY <1>2
  <2>2. q \in DOMAIN holds /\ holds'[q] = holds[q] BY <1>4, <2>1 DEF Shuts
  <2>3. Explained(q) BY <2>2 DEF LedgerInv, Strays
  <2> QED BY <1>2, <1>3, <1>5, <1>6, <1>7, <2>1, <2>3 DEF Explained
<1>10. LiveOK(entries, DOMAIN entries)'
  BY <1>3, <1>5, <1>7 DEF LedgerInv, LiveOK, Doubt, local
<1>11. Goes BY <1>1, <1>3, <1>6, <1>8, <1>9, <1>10 DEF Goes
<1> QED BY <1>11, GoesOn
-----------------------------------------------------------------------------
(* Several attempts in one step. *)

\* How many numbers of S come before i.
Rank(i, S) == Cardinality({j \in S : j < i})

\* In a finite set of numbers, every place is taken by one of them.
LEMMA Ranks ==
  ASSUME NEW S \in SUBSET Nat, IsFiniteSet(S)
  PROVE  /\ Cardinality(S) \in Nat
         /\ \A i \in S : Rank(i, S) \in 0..Cardinality(S)-1
         /\ \A i, j \in S : i < j => Rank(i, S) < Rank(j, S)
         /\ \A i, j \in S : Rank(i, S) = Rank(j, S) => i = j
         /\ \A k \in 0..Cardinality(S)-1 : \E i \in S : Rank(i, S) = k
<1> DEFINE below(i) == {j \in S : j < i}
<1> DEFINE n == Cardinality(S)
<1>1. n \in Nat BY FS_CardinalityType
<1>2. \A i \in S : IsFiniteSet(below(i)) /\ Rank(i, S) = Cardinality(below(i)) /\ Rank(i, S) \in Nat
  <2> SUFFICES ASSUME NEW i \in S
               PROVE  IsFiniteSet(below(i)) /\ Rank(i, S) = Cardinality(below(i)) /\ Rank(i, S) \in Nat
    OBVIOUS
  <2>1. below(i) \in SUBSET S OBVIOUS
  <2>2. IsFiniteSet(below(i)) BY <2>1, FS_Subset
  <2>3. Rank(i, S) = Cardinality(below(i)) BY DEF Rank
  <2> QED BY <2>2, <2>3, FS_CardinalityType
<1>3. ASSUME NEW i \in S, NEW T \in SUBSET S, IsFiniteSet(T), below(i) \subseteq T, i \in T
      PROVE  Rank(i, S) < Cardinality(T)
  <2>1. i \notin below(i) /\ below(i) \in SUBSET T BY <1>3
  <2>2. Cardinality(below(i)) <= Cardinality(T)
        /\ (Cardinality(T) = Cardinality(below(i)) => T = below(i))
    BY <1>3, <2>1, FS_Subset
  <2>3. Cardinality(T) \in Nat BY <1>3, FS_CardinalityType
  <2>4. T # below(i) BY <1>3, <2>1
  <2> HIDE DEF below
  <2> QED BY <1>2, <2>2, <2>3, <2>4
<1>4. \A i \in S : Rank(i, S) \in 0..n-1
  <2> SUFFICES ASSUME NEW i \in S PROVE Rank(i, S) \in 0..n-1 OBVIOUS
  <2>1. Rank(i, S) < n BY <1>3
  <2>2. Rank(i, S) \in Nat BY <1>2
  <2> HIDE DEF n
  <2> QED BY <1>1, <2>1, <2>2
<1>5. \A i, j \in S : i < j => Rank(i, S) < Rank(j, S)
  <2> SUFFICES ASSUME NEW i \in S, NEW j \in S, i < j PROVE Rank(i, S) < Rank(j, S)
    OBVIOUS
  <2>1. i \in Nat /\ j \in Nat OBVIOUS
  <2>2. below(i) \subseteq below(j)
    <3> SUFFICES ASSUME NEW k \in S, k < i PROVE k < j OBVIOUS
    <3>1. k \in Nat OBVIOUS
    <3> QED BY <2>1, <3>1
  <2>3. i \in below(j) /\ below(j) \in SUBSET S OBVIOUS
  <2> QED BY <1>2, <1>3, <2>2, <2>3
<1>6. \A i, j \in S : Rank(i, S) = Rank(j, S) => i = j
  <2> SUFFICES ASSUME NEW i \in S, NEW j \in S, Rank(i, S) = Rank(j, S) PROVE i = j
    OBVIOUS
  <2>1. i \in Nat /\ j \in Nat /\ Rank(i, S) \in Nat /\ Rank(j, S) \in Nat BY <1>2
  <2>2. ~(i < j) /\ ~(j < i) BY <1>5, <2>1
  <2> QED BY <2>1, <2>2
<1>7. \A k \in 0..n-1 : \E i \in S : Rank(i, S) = k
  <2> DEFINE f == [i \in S |-> Rank(i, S)]
  <2>1. f \in Injection(S, 0..n-1) BY <1>4, <1>6 DEF Injection, IsInjective
  <2>2. IsFiniteSet(0..n-1) /\ Cardinality(0..n-1) = n
    <3>1. 0 \in Int /\ n-1 \in Int BY <1>1
    <3>2. IsFiniteSet(0..n-1) /\ Cardinality(0..n-1) = IF 0 > n-1 THEN 0 ELSE n-1-0+1
      BY <3>1, FS_Interval
    <3> HIDE DEF n
    <3> QED BY <1>1, <3>2
  <2>3. f \in Surjection(S, 0..n-1) BY <2>1, <2>2, FS_Injection
  <2> QED BY <2>3 DEF Surjection
<1> QED BY <1>1, <1>4, <1>5, <1>6, <1>7

LEMMA GreatestIs ==
  ASSUME NEW N \in Nat, NEW S \in SUBSET (0..N), S # {}
  PROVE  Max(S) \in S
<1>1. S \in SUBSET Nat /\ IsFiniteSet(S)
  <2>1. IsFiniteSet(0..N)
    <3>1. 0 \in Int /\ N \in Int OBVIOUS
    <3> QED BY <3>1, FS_Interval
  <2>2. 0..N \subseteq Nat OBVIOUS
  <2> QED BY <2>1, <2>2, FS_Subset
<1>2. Cardinality(S) \in Nat /\ Cardinality(S) # 0 BY <1>1, FS_EmptySet, FS_CardinalityType
<1>3. Cardinality(S) - 1 \in 0..Cardinality(S)-1 BY <1>2
<1>4. PICK i \in S : Rank(i, S) = Cardinality(S) - 1 BY <1>1, <1>3, Ranks
<1>5. \A j \in S : i >= j
  <2> SUFFICES ASSUME NEW j \in S, ~(i >= j) PROVE FALSE OBVIOUS
  <2>1. i < j BY <1>1
  <2>2. Rank(i, S) < Rank(j, S) /\ Rank(j, S) \in 0..Cardinality(S)-1 BY <1>1, <2>1, Ranks
  <2> QED BY <1>2, <1>4, <2>2
<1> QED BY <1>5 DEF Max

\* The attempts with no record yet, in their order.
LEMMA FreshIs ==
  ASSUME LedgerAssumption, NEW batch \in Batches
  PROVE  LET fresh == Fresh(batch)
         IN /\ fresh \in Seq(Offers)
            /\ \A i \in DOMAIN fresh : fresh[i].id \notin DOMAIN entries
            /\ \A i, j \in DOMAIN fresh : fresh[i].id = fresh[j].id => i = j
            /\ \A i \in DOMAIN batch :
                 batch[i].id \in DOMAIN entries \cup {fresh[k].id : k \in 1..Len(fresh)}
<1> DEFINE new == {i \in DOMAIN batch : batch[i].id \notin DOMAIN entries}
           N == Cardinality(new)
           at(n) == CHOOSE i \in new : Rank(i, new) = n - 1
           fresh == [n \in 1..N |-> batch[at(n)]]
<1>1. batch \in Seq(Offers) BY DEF LedgerAssumption
<1>2. new \in SUBSET Nat /\ IsFiniteSet(new)
  <2>1. DOMAIN batch = 1..Len(batch) /\ Len(batch) \in Nat BY <1>1
  <2>2. IsFiniteSet(1..Len(batch)) BY <2>1, FS_Interval
  <2>3. new \in SUBSET (1..Len(batch)) BY <2>1
  <2>4. 1..Len(batch) \subseteq Nat BY <2>1
  <2> HIDE DEF new
  <2> QED BY <2>2, <2>3, <2>4, FS_Subset
<1>0. \A i \in new : i \in DOMAIN batch /\ batch[i].id \notin DOMAIN entries OBVIOUS
<1>8. \A i \in DOMAIN batch : batch[i].id \notin DOMAIN entries => i \in new OBVIOUS
<1>4. Fresh(batch) = fresh BY DEF Fresh, Rank
<1> HIDE DEF new
<1>3. /\ N \in Nat /\ \A i \in new : Rank(i, new) \in 0..N-1
      /\ \A i, j \in new : Rank(i, new) = Rank(j, new) => i = j
      /\ \A k \in 0..N-1 : \E i \in new : Rank(i, new) = k
  BY <1>2, Ranks
<1> HIDE DEF N
<1>5. \A n \in 1..N : at(n) \in new /\ Rank(at(n), new) = n - 1
  <2> SUFFICES ASSUME NEW n \in 1..N PROVE at(n) \in new /\ Rank(at(n), new) = n - 1
    OBVIOUS
  <2>1. n - 1 \in 0..N-1 BY <1>3
  <2>2. \E i \in new : Rank(i, new) = n - 1 BY <1>3, <2>1
  <2> QED BY <2>2
<1> HIDE DEF at
<1>6. fresh \in Seq(Offers) /\ DOMAIN fresh = 1..N /\ Len(fresh) = N
      /\ \A n \in 1..N : fresh[n] = batch[at(n)] /\ fresh[n].id \notin DOMAIN entries
  <2>1. \A n \in 1..N : batch[at(n)] \in Offers /\ batch[at(n)].id \notin DOMAIN entries
    BY <1>0, <1>1, <1>5
  <2> QED BY <1>3, <2>1
<1>7. ASSUME NEW i \in DOMAIN batch, batch[i].id \notin DOMAIN entries
      PROVE  \E k \in 1..N : fresh[k].id = batch[i].id
  <2>1. i \in new BY <1>7, <1>8
  <2> DEFINE k == Rank(i, new) + 1
  <2>2. k \in 1..N /\ k - 1 = Rank(i, new) BY <1>3, <2>1
  <2> HIDE DEF k
  <2>3. at(k) = i BY <1>3, <1>5, <2>1, <2>2
  <2> QED BY <1>6, <2>2, <2>3
<1>9. ASSUME NEW m \in 1..N, NEW n \in 1..N, fresh[m].id = fresh[n].id
      PROVE  m = n
  <2>1. at(m) \in DOMAIN batch /\ at(n) \in DOMAIN batch BY <1>0, <1>5
  <2>2. batch[at(m)].id = batch[at(n)].id BY <1>6, <1>9
  <2>3. \A i, j \in DOMAIN batch : batch[i].id = batch[j].id => i = j BY DEF LedgerAssumption
  <2>4. at(m) = at(n) BY <2>1, <2>2, <2>3
  <2>5. m - 1 = n - 1 BY <1>5, <2>4
  <2> QED BY <1>3, <2>5
<1> HIDE DEF fresh
<1> QED BY <1>4, <1>6, <1>7, <1>9

LEMMA InTurn ==
  ASSUME NEW fresh, Len(fresh) \in Nat
  PROVE  /\ AdmittedInTurn(fresh) \in 0..Len(fresh)
         /\ \A i \in 1..AdmittedInTurn(fresh) : Admits(fresh[i], After(fresh, i - 1))
<1> DEFINE S == {n \in 0..Len(fresh) : \A i \in 1..n : Admits(fresh[i], After(fresh, i - 1))}
<1>1. 0 \in S OBVIOUS
<1>2. S \in SUBSET (0..Len(fresh)) OBVIOUS
<1>4. AdmittedInTurn(fresh) = Max(S) BY DEF AdmittedInTurn
<1>5. \A n \in S : \A i \in 1..n : Admits(fresh[i], After(fresh, i - 1)) OBVIOUS
<1> HIDE DEF S
<1>3. Max(S) \in S BY <1>1, <1>2, GreatestIs
<1> QED BY <1>2, <1>3, <1>4, <1>5

\* Attempts that are new to the ledger.
Fits(fresh) == fresh \in Seq(Offers) /\ \A i \in DOMAIN fresh : IsNew(fresh[i])

LEMMA AfterMove ==
  ASSUME LedgerAssumption, LedgerInv, NEW fresh, Fits(fresh), NEW n \in 0..Len(fresh)
  PROVE  LET E == After(fresh, n)
         IN /\ RecordsMove(E) /\ DOMAIN E = DOMAIN entries \cup {fresh[i].id : i \in 1..n}
            /\ \A r \in DOMAIN entries : E[r] = entries[r]
            /\ \A r \in DOMAIN E \ DOMAIN entries :
                 IsRecord(E[r]) /\ E[r].in.id = r /\ ~Over(E[r])
<1> DEFINE E == After(fresh, n)
           first == {fresh[i] : i \in 1..n}
           pick(r) == CHOOSE in \in first : in.id = r
<1>1. E = [r \in DOMAIN entries \cup {fresh[i].id : i \in 1..n} |->
             IF r \in DOMAIN entries THEN entries[r] ELSE Reserved(pick(r))]
  BY DEF After
<1>2. 1..n \subseteq DOMAIN fresh
  <2>1. DOMAIN fresh = 1..Len(fresh) /\ Len(fresh) \in Nat BY DEF Fits
  <2> QED BY <2>1
<1>3. \A in \in first : IsNew(in) BY <1>2 DEF Fits
<1>4. \A r \in {fresh[i].id : i \in 1..n} : pick(r) \in first /\ pick(r).id = r
  <2> SUFFICES ASSUME NEW i \in 1..n
               PROVE  pick(fresh[i].id) \in first /\ pick(fresh[i].id).id = fresh[i].id
    OBVIOUS
  <2>1. fresh[i] \in first OBVIOUS
  <2> QED BY <2>1
<1> HIDE DEF pick, E, first
<1>5. DOMAIN E = DOMAIN entries \cup {fresh[i].id : i \in 1..n}
      /\ (\A r \in DOMAIN entries : E[r] = entries[r])
      /\ \A r \in DOMAIN E \ DOMAIN entries : E[r] = Reserved(pick(r))
  BY <1>1
<1>6. ASSUME NEW r \in DOMAIN E \ DOMAIN entries
      PROVE  IsRecord(E[r]) /\ E[r].in.id = r /\ ~Over(E[r]) /\ r \notin Gone(folded)
  <2>1. r \in {fresh[i].id : i \in 1..n} BY <1>5
  <2>2. pick(r).id = r /\ IsNew(pick(r)) BY <1>3, <1>4, <2>1
  <2>3. pick(r) \in Offers \cup Adopted /\ r \notin Gone(folded) BY <2>2 DEF IsNew
  <2>4. IsRecord(Reserved(pick(r))) /\ Reserved(pick(r)).in = pick(r) /\ ~Over(Reserved(pick(r)))
    BY <2>3, ReservedIs
  <2> QED BY <1>5, <2>2, <2>3, <2>4
<1>7. \A r \in DOMAIN entries : IsRecord(entries[r]) /\ entries[r].in.id = r
  BY DEF LedgerInv, Books
<1>8. \A r \in DOMAIN entries : Covers(entries[r], entries[r])
  BY <1>7, CoversSelf DEF IsRecord
<1>9. RecordsMove(E) BY <1>5, <1>6, <1>7, <1>8 DEF RecordsMove
<1> QED BY <1>5, <1>6, <1>9 DEF E

LEMMA WithdrawnMove ==
  ASSUME LedgerAssumption, LedgerInv, NEW fresh, Fits(fresh), NEW n \in 0..Len(fresh), NEW kept
  PROVE  LET E == Withdrawn(fresh, n, kept)
         IN /\ RecordsMove(E) /\ DOMAIN E = DOMAIN entries \cup {fresh[i].id : i \in 1..n}
            /\ \A r \in DOMAIN entries : E[r] = entries[r]
            /\ \A r \in DOMAIN E \ DOMAIN entries :
                 IF r \in kept THEN ~Over(E[r]) ELSE E[r].state = "released" /\ Over(E[r])
<1> DEFINE E == Withdrawn(fresh, n, kept)
           A == After(fresh, n)
           made == {fresh[i].id : i \in 1..n}
<1>1. E = [r \in DOMAIN entries \cup made |->
             IF \A i \in 1..n : fresh[i].id # r THEN entries[r]
             ELSE IF r \in kept THEN A[r] ELSE Released(A[r])]
  BY DEF Withdrawn
<1>2. /\ RecordsMove(A) /\ DOMAIN A = DOMAIN entries \cup made
      /\ \A r \in DOMAIN entries : A[r] = entries[r]
      /\ \A r \in DOMAIN A \ DOMAIN entries : IsRecord(A[r]) /\ A[r].in.id = r /\ ~Over(A[r])
  BY AfterMove
<1>3. \A r \in made : r \notin DOMAIN entries
  <2>1. DOMAIN fresh = 1..Len(fresh) /\ Len(fresh) \in Nat BY DEF Fits
  <2> QED BY <2>1 DEF Fits, IsNew
<1>4. \A r : (\A i \in 1..n : fresh[i].id # r) <=> r \notin made OBVIOUS
<1> HIDE DEF E, A, made
<1>5. DOMAIN E = DOMAIN entries \cup made
      /\ (\A r \in DOMAIN entries : E[r] = entries[r])
      /\ \A r \in made : E[r] = IF r \in kept THEN A[r] ELSE Released(A[r])
  BY <1>1, <1>3, <1>4
<1>6. ASSUME NEW r \in DOMAIN E \ DOMAIN entries
      PROVE  /\ IsRecord(E[r]) /\ E[r].in.id = r
             /\ IF r \in kept THEN ~Over(E[r]) ELSE E[r].state = "released" /\ Over(E[r])
  <2>1. r \in made /\ IsRecord(A[r]) /\ A[r].in.id = r /\ ~Over(A[r]) BY <1>2, <1>5
  <2>2. IsRecord(Released(A[r])) /\ Released(A[r]).in = A[r].in
        /\ Released(A[r]).state = "released" /\ Over(Released(A[r]))
    BY <2>1, ReleasedIs
  <2> QED BY <1>5, <2>1, <2>2
<1>7. RecordsMove(E) BY <1>2, <1>5, <1>6 DEF RecordsMove
<1> QED BY <1>5, <1>6, <1>7 DEF E, made
-----------------------------------------------------------------------------
\* Every hold of an attempt nobody recorded is explained, and none is needed
\* between operations.
LEMMA NotHeldHere ==
  ASSUME LedgerInv, Placed = {}, NEW r, r \notin DOMAIN entries \cup Gone(folded),
         r \notin unsure.open
  PROVE  ~IsHeld(r)
BY DEF LedgerInv, Strays, Explained, IsHeld

LEMMA FitsAgain == ASSUME NEW fresh, Fits(fresh), UNCHANGED local PROVE Fits(fresh)'
<1>1. entries' = entries /\ folded' = folded BY DEF local
<1>2. \A in : IsNew(in) => IsNew(in)' BY <1>1 DEF IsNew
<1> QED BY <1>2 DEF Fits

LEMMA ReserveManyKeeps ==
  ASSUME LedgerAssumption, LedgerInv, NEW batch \in Batches, ReserveMany(batch)
  PROVE  LedgerInv'
<1>0. PICK fresh : fresh = Fresh(batch) OBVIOUS
<1>00. PICK n : n = AdmittedInTurn(fresh) OBVIOUS
<1> DEFINE ids == {batch[i].id : i \in DOMAIN batch}
           made == {fresh[i].id : i \in 1..n}
           strict == {i \in DOMAIN fresh : Strict(fresh[i], After(fresh, i - 1))}
<1>1. Idle /\ UNCHANGED <<unsaved, holds, unsure>> BY DEF ReserveMany
<1>2. fresh \in Seq(Offers) /\ (\A i \in DOMAIN fresh : fresh[i].id \notin DOMAIN entries)
      /\ ids \subseteq DOMAIN entries \cup {fresh[k].id : k \in 1..Len(fresh)}
  <2> DEFINE all == DOMAIN entries \cup {fresh[k].id : k \in 1..Len(fresh)}
  <2>1. /\ fresh \in Seq(Offers) /\ \A i \in DOMAIN fresh : fresh[i].id \notin DOMAIN entries
        /\ \A i \in DOMAIN batch : batch[i].id \in all
    <3>1. batch \in Batches OBVIOUS
    <3>2. /\ Fresh(batch) \in Seq(Offers)
          /\ \A i \in DOMAIN Fresh(batch) : Fresh(batch)[i].id \notin DOMAIN entries
          /\ \A i \in DOMAIN batch :
               batch[i].id \in DOMAIN entries \cup {Fresh(batch)[k].id : k \in 1..Len(Fresh(batch))}
      BY <3>1, FreshIs
    <3> QED BY <1>0, <3>2
  <2> HIDE DEF all
  <2>2. ids \subseteq all BY <2>1
  <2> QED BY <2>1, <2>2 DEF all
<1>3. \A i \in DOMAIN fresh : ~Finished(fresh[i].chain) BY <1>0 DEF ReserveMany
<1>4. Fits(fresh)
  <2> SUFFICES ASSUME NEW i \in DOMAIN fresh PROVE IsNew(fresh[i]) BY <1>2 DEF Fits
  <2>1. fresh[i] \in Offers \cup Adopted /\ fresh[i].id \notin DOMAIN entries BY <1>2
  <2>2. fresh[i].id \notin Gone(folded) BY <1>3, <2>1, NotFinished
  <2> QED BY <2>1, <2>2 DEF IsNew
<1>5. Len(fresh) \in Nat /\ DOMAIN fresh = 1..Len(fresh) BY <1>2
<1>6. n \in 0..Len(fresh) BY <1>00, <1>5, InTurn
<1>7. \/ n < Len(fresh) /\ n > 0 /\ Withdraw(fresh, n, {})
      \/ /\ ~(n < Len(fresh)) /\ Admission /\ fresh # <<>>
         /\ op' = [kind |-> "batch", fresh |-> fresh, ids |-> ids, done |-> 0, strict |-> strict]
         /\ UNCHANGED local
      \/ ~(n < Len(fresh)) /\ ~(Admission /\ fresh # <<>>) /\ Saving(After(fresh, n), ids)
  BY <1>0, <1>00 DEF ReserveMany
<1>8. CASE n < Len(fresh) /\ n > 0 /\ Withdraw(fresh, n, {})
  <2> DEFINE E == Withdrawn(fresh, n, {})
  <2>1. Saving(E, {})
    <3>1. n # 0 BY <1>6, <1>8
    <3> QED BY <1>8, <3>1 DEF Withdraw
  <2>2. /\ RecordsMove(E) /\ DOMAIN E = DOMAIN entries \cup made
        /\ \A r \in DOMAIN entries : E[r] = entries[r]
        /\ \A r \in DOMAIN E \ DOMAIN entries : E[r].state = "released" /\ Over(E[r])
    <3>1. /\ RecordsMove(E) /\ DOMAIN E = DOMAIN entries \cup made
          /\ \A r \in DOMAIN entries : E[r] = entries[r]
          /\ \A r \in DOMAIN E \ DOMAIN entries :
               IF r \in {} THEN ~Over(E[r]) ELSE E[r].state = "released" /\ Over(E[r])
      BY <1>4, <1>6, WithdrawnMove, Zenon
    <3> HIDE DEF E, made
    <3> QED BY <3>1
  <2> HIDE DEF E
  <2>3. ClosedOK(E)
    <3> SUFFICES ASSUME NEW r \in DOMAIN E, Over(E[r])
                 PROVE  ~IsHeld(r) \/ (r \in unsure.open /\ E[r].state = "released")
      BY DEF ClosedOK
    <3>1. CASE r \in DOMAIN entries BY <2>2, <3>1 DEF LedgerInv, ClosedOK
    <3>2. CASE r \notin DOMAIN entries
      <4>1. r \notin Gone(folded) /\ E[r].state = "released" BY <2>2, <3>2 DEF RecordsMove
      <4>2. Placed = {} BY <1>1, IdleIs
      <4> QED BY <3>2, <4>1, <4>2, NotHeldHere
    <3> QED BY <3>1, <3>2
  <2>4. \A r \in DOMAIN E : ~Over(E[r]) => r \in DOMAIN entries /\ ~Over(entries[r])
    BY <2>2
  <2> QED BY <1>1, <2>1, <2>2, <2>3, <2>4, Sets
<1>9. CASE /\ Admission /\ fresh # <<>> /\ UNCHANGED local
           /\ op' = [kind |-> "batch", fresh |-> fresh, ids |-> ids, done |-> 0, strict |-> strict]
  <2> HIDE DEF ids, strict
  <2>1. op'.kind = "batch" /\ op'.fresh = fresh /\ op'.ids = ids /\ op'.done = 0
        /\ op'.strict = strict
    BY <1>9
  <2>2. op' = [kind |-> "batch", fresh |-> op'.fresh, ids |-> op'.ids, done |-> op'.done,
               strict |-> op'.strict]
    BY <1>9, <2>1
  <2>3. Fits(fresh)' /\ entries' = entries BY <1>4, <1>9, FitsAgain DEF local
  <2>4. StepFits' BY <2>1, <2>3 DEF StepFits, Fits
  <2>5. Len(fresh) # 0 BY <1>2, <1>9
  <2>6. 0 \in 0 .. Len(fresh) - 1 BY <1>5, <2>5
  <2>7. Made(op.done)' = {}
    <3>1. 1..0 = {} OBVIOUS
    <3> QED BY <2>1, <3>1 DEF Made
  <2>8. Made(Len(op.fresh))' = {fresh[k].id : k \in 1..Len(fresh)} BY <2>1 DEF Made
  <2>9. BatchFits' BY <1>2, <2>1, <2>2, <2>3, <2>4, <2>6, <2>7, <2>8 DEF BatchFits
  <2>10. OpFits' /\ Placed' = {} BY <2>1, <2>7, <2>9 DEF OpFits, Placed
  <2> QED BY <1>1, <1>9, <2>1, <2>10, Begins
<1>10. CASE ~(n < Len(fresh)) /\ ~(Admission /\ fresh # <<>>) /\ Saving(After(fresh, n), ids)
  <2> DEFINE E == After(fresh, n)
  <2>1. n = Len(fresh) BY <1>5, <1>6, <1>10
  <2>2. /\ RecordsMove(E) /\ DOMAIN E = DOMAIN entries \cup made
        /\ \A r \in DOMAIN entries : E[r] = entries[r]
        /\ \A r \in DOMAIN E \ DOMAIN entries : ~Over(E[r])
    <3>1. /\ RecordsMove(E) /\ DOMAIN E = DOMAIN entries \cup made
          /\ \A r \in DOMAIN entries : E[r] = entries[r]
          /\ \A r \in DOMAIN E \ DOMAIN entries :
               IsRecord(E[r]) /\ E[r].in.id = r /\ ~Over(E[r])
      BY <1>4, <1>6, AfterMove, Zenon
    <3> HIDE DEF E, made
    <3> QED BY <3>1
  <2> HIDE DEF E
  <2>3. ids \subseteq DOMAIN E BY <1>2, <2>1, <2>2
  <2>4. Admission => made = {}
    <3>1. Admission => 1..n = {}
      <4>1. Admission => Len(fresh) = 0 BY <1>2, <1>10
      <4> QED BY <2>1, <4>1
    <3> QED BY <3>1
  <2>5. ClosedOK(E) BY <2>2 DEF LedgerInv, ClosedOK
  <2>6. Admission => \A r \in DOMAIN E : ~Over(E[r]) => r \in DOMAIN entries /\ ~Over(entries[r])
    BY <2>2, <2>4
  <2>7. Saving(E, ids) BY <1>10 DEF E
  <2> HIDE DEF ids
  <2> QED BY <1>1, <2>2, <2>3, <2>5, <2>6, <2>7, Sets
<1> QED BY <1>7, <1>8, <1>9, <1>10
-----------------------------------------------------------------------------
(* A batch at the store, and its undoing. *)

LEMMA PlacedFits ==
  ASSUME LedgerInv, op.kind \in {"batch", "undo"}
  PROVE  /\ Fits(op.fresh) /\ Len(op.fresh) \in Nat /\ DOMAIN op.fresh = 1..Len(op.fresh)
         /\ op.kind = "batch" => op.done \in 0 .. Len(op.fresh) - 1 /\ Placed = Made(op.done)
         /\ op.kind = "undo" => /\ op.made \in 1 .. Len(op.fresh) /\ op.left \in 1 .. op.made
                                /\ Placed = Made(op.made)
<1>1. (op.kind = "batch" => BatchFits) /\ (op.kind = "undo" => UndoFits) BY Running
<1>2. StepFits BY <1>1 DEF BatchFits, UndoFits
<1>3. Fits(op.fresh) BY <1>2 DEF StepFits, Fits
<1>4. Len(op.fresh) \in Nat /\ DOMAIN op.fresh = 1..Len(op.fresh) BY <1>3 DEF Fits
<1> QED BY <1>1, <1>3, <1>4 DEF BatchFits, UndoFits, Placed

\* A step that is refused at the store goes on to give back what it was given.
LEMMA UndoBegins ==
  ASSUME LedgerInv, op.kind = "batch", Undo(op.fresh, op.done),
         UNCHANGED <<disk, poisoned, acked, swept>>, Grows, Older, HoldsFit',
         \A q \in DOMAIN entries : IsHeld(q)' <=> IsHeld(q),
         \A r \in DOMAIN holds' : \/ r \in unsure'.open \/ holds'[r].state = "denied"
                                  \/ r \in DOMAIN holds /\ holds'[r] = holds[r]
  PROVE  LedgerInv'
<1>0. PICK fresh, done : fresh = op.fresh /\ done = op.done OBVIOUS
<1>1. BatchFits /\ ~poisoned /\ Admission /\ op.kind # "save" BY Running
<1>2. Fits(fresh) /\ Len(fresh) \in Nat /\ done \in 0 .. Len(fresh) - 1 /\ Placed = Made(done)
  BY <1>0, PlacedFits
<1>3. UNCHANGED local /\ UNCHANGED <<entries, folded>> BY DEF Undo, local
<1>4. \/ done = 0 /\ op' = NoOp
      \/ /\ done # 0
         /\ op' = [kind |-> "undo", fresh |-> fresh, made |-> done, left |-> done,
                   tries |-> 1, kept |-> {}]
  BY <1>0 DEF Undo
<1>5. op'.kind # "save" /\ OpFits' /\ Placed \subseteq Placed' /\ (Placed # {} => op'.kind = "undo")
  <2>1. CASE done = 0 /\ op' = NoOp
    <3>1. Placed = {}
      <4>1. 1..0 = {} OBVIOUS
      <4> QED BY <1>2, <2>1, <4>1 DEF Made
    <3> QED BY <2>1, <3>1, NoOpIs
  <2>2. CASE /\ done # 0
             /\ op' = [kind |-> "undo", fresh |-> fresh, made |-> done, left |-> done,
                       tries |-> 1, kept |-> {}]
    <3>1. op'.kind = "undo" /\ op'.fresh = fresh /\ op'.made = done /\ op'.left = done
          /\ op'.kept = {} /\ op'.tries = 1
      BY <2>2
    <3>2. op' = [kind |-> "undo", fresh |-> op'.fresh, made |-> op'.made, left |-> op'.left,
                 tries |-> op'.tries, kept |-> op'.kept]
      BY <2>2, <3>1
    <3>3. Fits(fresh)' BY <1>2, <1>3, FitsAgain
    <3>4. StepFits' BY <3>1, <3>3 DEF StepFits, Fits
    <3>5. done \in 1 .. Len(fresh) /\ done \in 1..done BY <1>2, <2>2
    <3>6. Returned(op.left + 1)' = {}
      <4>1. done + 1 .. done = {} BY <3>5
      <4> QED BY <3>1, <4>1 DEF Returned
    <3>7. UndoFits' BY <3>1, <3>2, <3>4, <3>5, <3>6 DEF UndoFits
    <3>8. Placed' = Placed BY <1>0, <1>2, <3>1 DEF Placed, Made
    <3> QED BY <3>1, <3>7, <3>8 DEF OpFits
  <2> QED BY <1>4, <2>1, <2>2
<1>6. Strays'
  <2> SUFFICES ASSUME NEW r \in DOMAIN holds', r \notin DOMAIN entries \cup Gone(folded),
                      holds'[r].state # "denied"
               PROVE  Explained(r)'
    BY <1>3 DEF Strays
  <2>1. CASE r \in unsure'.open BY <2>1 DEF Explained
  <2>2. CASE r \in DOMAIN holds /\ holds'[r] = holds[r]
    <3>1. Explained(r) BY <2>2 DEF LedgerInv, Strays
    <3>2. r \in unsure.open => r \in unsure'.open BY DEF Grows
    <3> QED BY <1>5, <2>2, <3>1, <3>2 DEF Explained, IsHeld
  <2> QED BY <2>1, <2>2
<1>7. LiveOK(entries, DOMAIN entries)' BY <1>3, StillKnown
<1>8. Goes BY <1>1, <1>3, <1>5, <1>6, <1>7 DEF Goes
<1> QED BY <1>8, GoesOn

\* The attempt the store admits is open, or the ledger was told that it may not be.
LEMMA AdmittedIs ==
  ASSUME LedgerInv, NEW in, IsNew(in), Opens(in.id), holds'[in.id].state # "denied",
         op.kind # "undo"
  PROVE  IsHeld(in.id)' \/ in.id \in swept \cup unsure.open
<1>1. CASE in.id \notin DOMAIN holds BY <1>1 DEF Opens, IsHeld
<1>2. CASE in.id \in DOMAIN holds
  <2>1. holds'[in.id] = holds[in.id] /\ in.id \in DOMAIN holds' BY <1>2 DEF Opens
  <2>2. in.id \notin DOMAIN entries \cup Gone(folded) BY DEF IsNew
  <2>3. Explained(in.id) BY <1>2, <2>1, <2>2 DEF LedgerInv, Strays
  <2>4. IsHeld(in.id) \/ in.id \in swept \cup unsure.open BY <2>3 DEF Explained
  <2> QED BY <2>1, <2>4 DEF IsHeld
<1> QED BY <1>1, <1>2

LEMMA BatchReserveKeeps ==
  ASSUME LedgerAssumption, LedgerInv, BatchReserve
  PROVE  LedgerInv'
<1>0. PICK fresh, done, ids : fresh = op.fresh /\ done = op.done /\ ids = op.ids OBVIOUS
<1>00. PICK n : n = done + 1 OBVIOUS
<1>000. PICK in : in = fresh[n] OBVIOUS
<1> DEFINE E == After(fresh, n)
<1>1. BatchFits /\ ~poisoned /\ Admission /\ op.kind = "batch" BY Running DEF BatchReserve
<1>2. /\ Fits(fresh) /\ Len(fresh) \in Nat /\ DOMAIN fresh = 1..Len(fresh)
      /\ done \in 0 .. Len(fresh) - 1 /\ Placed = Made(done)
  BY <1>0, <1>1, PlacedFits
<1>3. n \in 1..Len(fresh) /\ n \in 0..Len(fresh) BY <1>00, <1>2
<1>4. IsNew(in) /\ in \in Offers \cup Adopted BY <1>000, <1>2, <1>3 DEF Fits, IsNew
<1>5. UNCHANGED <<disk, poisoned, acked, swept, unsure>> BY DEF BatchReserve, unsaved
<1>6. \/ UNCHANGED holds /\ Undo(fresh, done)
      \/ /\ StoreReserving(in)
         /\ \/ StoreOutcome(in) # "admitted" /\ Undo(fresh, done)
            \/ /\ StoreOutcome(in) = "admitted" /\ n < Len(fresh)
               /\ op' = [op EXCEPT !.done = n] /\ UNCHANGED local
            \/ StoreOutcome(in) = "admitted" /\ ~(n < Len(fresh)) /\ Saving(E, ids)
  BY <1>0, <1>00, <1>000 DEF BatchReserve
<1>7. Opens(in.id) \/ UNCHANGED holds BY <1>4, <1>6, OpensIs DEF LedgerInv
<1>8. Older /\ \A q \in DOMAIN entries \cup Gone(folded) : IsHeld(q)' <=> IsHeld(q)
  BY <1>4, <1>7, NewOlder
<1>9. Grows /\ HoldsFit'
  BY <1>5, <1>7 DEF Grows, Opens, LedgerInv, UnsureFits, HoldsFit
<1>10. CASE Undo(fresh, done) /\ (UNCHANGED holds \/ (StoreReserving(in) /\ StoreOutcome(in) # "admitted"))
  <2>1. ASSUME NEW r \in DOMAIN holds'
        PROVE  \/ r \in unsure'.open \/ holds'[r].state = "denied"
               \/ r \in DOMAIN holds /\ holds'[r] = holds[r]
    <3>1. CASE UNCHANGED holds BY <2>1, <3>1
    <3>2. CASE StoreReserving(in) /\ StoreOutcome(in) # "admitted"
      <4>0. HoldsFit BY DEF LedgerInv
      <4>1. Opens(in.id) /\ (in.id \notin DOMAIN holds => holds'[in.id].state = "denied")
        BY <1>4, <3>2, <4>0, OpensIs
      <4>2. r = in.id \/ r \in DOMAIN holds BY <2>1, <4>1 DEF Opens
      <4>3. CASE r \in DOMAIN holds BY <4>1, <4>3 DEF Opens
      <4>4. CASE r = in.id /\ r \notin DOMAIN holds BY <4>1, <4>4
      <4> QED BY <4>2, <4>3, <4>4
    <3> QED BY <1>10, <3>1, <3>2
  <2> QED BY <1>0, <1>1, <1>5, <1>8, <1>9, <1>10, <2>1, UndoBegins
<1>11. CASE StoreReserving(in) /\ StoreOutcome(in) = "admitted"
  <2>1. Opens(in.id) /\ holds'[in.id].state # "denied" BY <1>4, <1>11, OpensIs DEF LedgerInv
  <2>2. IsHeld(in.id)' \/ in.id \in swept \cup unsure.open BY <1>1, <1>4, <2>1, AdmittedIs
  <2>3. Made(n) = Made(done) \cup {in.id}
    <3>1. 1..n = (1..done) \cup {n} BY <1>00, <1>2
    <3> QED BY <1>0, <1>000, <3>1 DEF Made
  <2>4. \A q : q # in.id => (IsHeld(q)' <=> IsHeld(q)) BY <2>1, Shutters
  <2>5. \A r \in Made(n) : IsHeld(r)' \/ r \in swept \cup unsure.open
    <3>1. \A r \in Made(done) : IsHeld(r) \/ r \in swept \cup unsure.open
      BY <1>0, <1>1 DEF BatchFits
    <3> QED BY <2>2, <2>3, <2>4, <3>1
  <2>6. ASSUME NEW r \in DOMAIN holds', r \notin DOMAIN entries \cup Gone(folded),
               holds'[r].state # "denied", r # in.id
        PROVE  \/ r \in unsure.open
               \/ r \in Placed /\ IsHeld(r)'
               \/ r \in swept /\ ~IsHeld(r)'
    <3>1. r \in DOMAIN holds /\ holds'[r] = holds[r] BY <2>1, <2>6 DEF Opens
    <3>2. Explained(r) BY <2>6, <3>1 DEF LedgerInv, Strays
    <3>3. IsHeld(r)' <=> IsHeld(r) BY <2>4, <2>6
    <3> QED BY <1>1, <3>2, <3>3 DEF Explained
  <2>7. CASE n < Len(fresh) /\ op' = [op EXCEPT !.done = n] /\ UNCHANGED local
    <3>1. op'.kind = "batch" /\ op'.fresh = fresh /\ op'.ids = ids /\ op'.done = n
          /\ op' = [kind |-> "batch", fresh |-> op'.fresh, ids |-> op'.ids, done |-> op'.done,
                    strict |-> op'.strict]
      BY <1>0, <1>1, <2>7 DEF BatchFits
    <3>2. Fits(fresh)' /\ UNCHANGED <<entries, folded>> BY <1>2, <2>7, FitsAgain DEF local
    <3>3. StepFits' BY <3>1, <3>2 DEF StepFits, Fits
    <3>4. Made(op.done)' = Made(n) /\ Made(Len(op.fresh))' = Made(Len(op.fresh))
      BY <1>0, <3>1 DEF Made
    <3>5. n \in 0 .. Len(fresh) - 1 BY <1>2, <1>3, <2>7
    <3>6. \A r \in Made(op.done)' : IsHeld(r)' \/ r \in swept' \cup unsure'.open
      BY <1>5, <2>5, <3>4
    <3>7. op'.ids \subseteq DOMAIN entries' \cup Made(Len(op.fresh))'
      BY <1>0, <1>1, <3>1, <3>2, <3>4 DEF BatchFits
    <3>8. BatchFits' BY <3>1, <3>3, <3>5, <3>6, <3>7 DEF BatchFits
    <3>9. OpFits' /\ Placed' = Made(n) BY <3>1, <3>4, <3>8 DEF OpFits, Placed
    <3>10. Strays'
      <4> SUFFICES ASSUME NEW r \in DOMAIN holds', r \notin DOMAIN entries \cup Gone(folded),
                          holds'[r].state # "denied"
                   PROVE  Explained(r)'
        BY <3>2 DEF Strays
      <4>1. CASE r = in.id BY <1>5, <2>2, <2>3, <3>9, <4>1 DEF Explained
      <4>2. CASE r # in.id BY <1>2, <1>5, <2>3, <2>6, <3>9, <4>2 DEF Explained
      <4> QED BY <4>1, <4>2
    <3>11. LiveOK(entries, DOMAIN entries)' BY <1>5, <1>8, <1>9, <3>2, StillKnown
    <3>12. Goes BY <1>1, <1>5, <1>8, <1>9, <2>7, <3>1, <3>9, <3>10, <3>11 DEF Goes
    <3> QED BY <3>12, GoesOn
  <2>8. CASE ~(n < Len(fresh)) /\ Saving(E, ids)
    <3>0. ~(n < Len(fresh)) BY <2>8
    <3>1. n = Len(fresh)
      <4>1. Len(fresh) \in Nat BY <1>2
      <4> QED BY <1>3, <3>0, <4>1
    <3>2. /\ RecordsMove(E) /\ DOMAIN E = DOMAIN entries \cup Made(n)
          /\ \A r \in DOMAIN entries : E[r] = entries[r]
          /\ \A r \in DOMAIN E \ DOMAIN entries : ~Over(E[r])
      <4>1. Made(n) = {fresh[i].id : i \in 1..n} BY <1>0 DEF Made
      <4>2. /\ RecordsMove(E) /\ DOMAIN E = DOMAIN entries \cup {fresh[i].id : i \in 1..n}
            /\ \A r \in DOMAIN entries : E[r] = entries[r]
            /\ \A r \in DOMAIN E \ DOMAIN entries :
                 IsRecord(E[r]) /\ E[r].in.id = r /\ ~Over(E[r])
        BY <1>2, <1>3, AfterMove, Zenon
      <4> HIDE DEF E
      <4> QED BY <4>1, <4>2
    <3> HIDE DEF E
    <3>3. entries' = E /\ UNCHANGED <<aggs, folded>> /\ op' = [kind |-> "save", answers |-> ids]
      BY <2>8 DEF Saving
    <3>4. op'.kind = "save" /\ op'.answers \subseteq DOMAIN E
      <4>1. ids \subseteq DOMAIN entries \cup Made(n) BY <1>0, <1>1, <3>1 DEF BatchFits
      <4> QED BY <3>2, <3>3, <4>1
    <3>5. ClosedOK(entries)'
      <4> SUFFICES ASSUME NEW r \in DOMAIN E, Over(E[r])
                   PROVE  ~IsHeld(r)' \/ (r \in unsure'.open /\ E[r].state = "released")
        BY <3>3 DEF ClosedOK
      <4>1. r \in DOMAIN entries /\ E[r] = entries[r] BY <3>2
      <4> QED BY <1>5, <1>8, <4>1 DEF LedgerInv, ClosedOK
    <3>6. LiveOK(entries, DOMAIN entries)'
      <4> SUFFICES ASSUME NEW r \in DOMAIN E, ~Over(E[r]) PROVE IsHeld(r)' \/ r \in Doubt'
        BY <3>3 DEF LiveOK
      <4>1. CASE r \in DOMAIN entries
        BY <1>1, <1>5, <1>8, <3>2, <4>1 DEF LedgerInv, LiveOK, Doubt
      <4>2. CASE r \in Made(n) BY <1>5, <2>5, <4>2 DEF Doubt
      <4> QED BY <3>2, <4>1, <4>2
    <3>7. Strays'
      <4> SUFFICES ASSUME NEW r \in DOMAIN holds', r \notin DOMAIN E \cup Gone(folded),
                          holds'[r].state # "denied"
                   PROVE  Explained(r)'
        BY <3>3 DEF Strays
      <4>1. r # in.id /\ r \notin DOMAIN entries \cup Gone(folded) /\ r \notin Placed
        BY <1>2, <2>3, <3>2
      <4> QED BY <1>5, <2>6, <4>1 DEF Explained
    <3>8. Writes(E) BY <1>1, <1>5, <1>8, <1>9, <3>2, <3>3, <3>4, <3>5, <3>6, <3>7 DEF Writes
    <3> QED BY <3>8, WritesOn
  <2>9. \/ n < Len(fresh) /\ op' = [op EXCEPT !.done = n] /\ UNCHANGED local
        \/ ~(n < Len(fresh)) /\ Saving(E, ids)
        \/ Undo(fresh, done) /\ UNCHANGED holds
    BY <1>6, <1>11
  <2> QED BY <1>10, <2>7, <2>8, <2>9
<1> QED BY <1>6, <1>10, <1>11

LEMMA BatchReserveFailsKeeps ==
  ASSUME LedgerAssumption, LedgerInv, NEW effect \in BOOLEAN, BatchReserveFails(effect)
  PROVE  LedgerInv'
<1>0. PICK fresh, done : fresh = op.fresh /\ done = op.done OBVIOUS
<1>00. PICK in : in = fresh[done + 1] OBVIOUS
<1>1. op.kind = "batch" /\ Undo(op.fresh, op.done) BY DEF BatchReserveFails
<1>2. /\ Fits(fresh) /\ DOMAIN fresh = 1..Len(fresh) /\ Len(fresh) \in Nat
      /\ done \in 0 .. Len(fresh) - 1
  BY <1>0, <1>1, PlacedFits
<1>3. done + 1 \in 1..Len(fresh) BY <1>2
<1>4. IsNew(in) /\ in \in Offers \cup Adopted BY <1>00, <1>2, <1>3 DEF Fits, IsNew
<1>5. UNCHANGED <<disk, poisoned, acked, swept>>
      /\ unsure' = [unsure EXCEPT !.open = @ \cup {in.id}]
  BY <1>0, <1>00 DEF BatchReserveFails, unsaved
<1>6. Opens(in.id) \/ UNCHANGED holds
  BY <1>0, <1>00, <1>4, OpensIs DEF LedgerInv, BatchReserveFails
<1>7. Older /\ \A q \in DOMAIN entries \cup Gone(folded) : IsHeld(q)' <=> IsHeld(q)
  BY <1>4, <1>6, NewOlder
<1>8. unsure'.open = unsure.open \cup {in.id} /\ unsure'.close = unsure.close /\ UnsureFits'
  BY <1>5 DEF LedgerInv, UnsureFits
<1>9. Grows /\ HoldsFit' BY <1>6, <1>8 DEF Grows, Opens, LedgerInv, HoldsFit
<1>10. \A r \in DOMAIN holds' : r \in unsure'.open \/ (r \in DOMAIN holds /\ holds'[r] = holds[r])
  BY <1>6, <1>8 DEF Opens
<1> QED BY <1>1, <1>5, <1>7, <1>9, <1>10, UndoBegins

LEMMA UndoneKeeps ==
  ASSUME LedgerAssumption, LedgerInv, op.kind = "undo", NEW K, op.kept \subseteq K, Undone(K),
         UNCHANGED <<disk, poisoned, acked, swept>>, Grows, K \subseteq unsure'.close,
         NEW h, h = op.fresh[op.left].id, Shuts(h) \/ UNCHANGED holds, h \in K \/ ~IsHeld(h)'
  PROVE  LedgerInv'
<1>0. PICK fresh, made, left : fresh = op.fresh /\ made = op.made /\ left = op.left OBVIOUS
<1>00. PICK in : in = fresh[left] OBVIOUS
<1>1. UndoFits /\ ~poisoned /\ Admission BY Running
<1>2. /\ Fits(fresh) /\ Len(fresh) \in Nat /\ DOMAIN fresh = 1..Len(fresh)
      /\ made \in 1..Len(fresh) /\ left \in 1..made /\ Placed = Made(made)
  BY <1>0, PlacedFits
<1>3. left \in 1..Len(fresh) BY <1>2
<1>4. IsNew(in) BY <1>00, <1>2, <1>3 DEF Fits
<1>15. h = in.id BY <1>0, <1>00
<1>5. Shuts(in.id) \/ UNCHANGED holds BY <1>15
<1>6. in.id \in K \/ ~IsHeld(in.id)' BY <1>15
<1>7. Older /\ \A q \in DOMAIN entries \cup Gone(folded) : IsHeld(q)' <=> IsHeld(q)
  BY <1>4, <1>5, NewOlder
<1>8. \A q : (IsHeld(q)' => IsHeld(q)) /\ (q # in.id => (IsHeld(q)' <=> IsHeld(q)))
  BY <1>5, Shutters DEF Shuts, IsHeld
<1>9. HoldsFit' /\ DOMAIN holds' = DOMAIN holds
      /\ \A q \in DOMAIN holds : q # in.id => holds'[q] = holds[q]
  BY <1>5 DEF Shuts, LedgerInv, HoldsFit
<1>10. in.id \in Placed BY <1>0, <1>00, <1>2 DEF Made
<1>11. \A r \in Returned(left) : r \in K \/ ~IsHeld(r)'
  <2>1. left .. made = (left + 1 .. made) \cup {left} BY <1>2
  <2>2. Returned(left) = Returned(left + 1) \cup {in.id} BY <1>0, <1>00, <2>1 DEF Returned
  <2>3. \A r \in Returned(left + 1) : r \in op.kept \/ ~IsHeld(r) BY <1>0, <1>1 DEF UndoFits
  <2> QED BY <1>6, <1>8, <2>2, <2>3
<1>12. ASSUME NEW r \in DOMAIN holds', r \notin DOMAIN entries \cup Gone(folded),
              holds'[r].state # "denied", r \notin Placed
       PROVE  \/ r \in unsure'.open
              \/ r \in swept /\ ~IsHeld(r)'
  <2>1. r # in.id BY <1>10, <1>12
  <2>2. r \in DOMAIN holds /\ holds'[r] = holds[r] BY <1>9, <1>12, <2>1
  <2>3. Explained(r) BY <1>12, <2>2 DEF LedgerInv, Strays
  <2>4. IsHeld(r)' => IsHeld(r) BY <1>8
  <2>5. unsure.open \subseteq unsure'.open BY DEF Grows
  <2> QED BY <1>12, <2>3, <2>4, <2>5 DEF Explained
<1>13. CASE /\ left > 1 /\ UNCHANGED local
            /\ op' = [op EXCEPT !.left = @ - 1, !.tries = 1, !.kept = K]
  <2>1. op'.kind = "undo" /\ op'.fresh = fresh /\ op'.made = made /\ op'.left = left - 1
        /\ op'.kept = K
        /\ op' = [kind |-> "undo", fresh |-> op'.fresh, made |-> op'.made, left |-> op'.left,
                  tries |-> op'.tries, kept |-> op'.kept]
    BY <1>0, <1>1, <1>13 DEF UndoFits
  <2>2. Fits(fresh)' /\ UNCHANGED <<entries, folded>> BY <1>2, <1>13, FitsAgain DEF local
  <2>3. StepFits' BY <2>1, <2>2 DEF StepFits, Fits
  <2>4. left - 1 \in 1..made /\ (left - 1) + 1 = left BY <1>2, <1>13
  <2>10. Returned(op.left + 1)' = Returned(left) BY <1>0, <2>1, <2>4 DEF Returned
  <2>5. UndoFits' BY <1>2, <1>11, <2>1, <2>3, <2>4, <2>10 DEF UndoFits
  <2>6. OpFits' /\ Placed' = Placed BY <1>0, <1>2, <2>1, <2>5 DEF OpFits, Placed, Made
  <2>7. Strays'
    <3> SUFFICES ASSUME NEW r \in DOMAIN holds', r \notin DOMAIN entries \cup Gone(folded),
                        holds'[r].state # "denied"
                 PROVE  Explained(r)'
      BY <2>2 DEF Strays
    <3>1. CASE r \in Placed BY <2>1, <2>6, <3>1 DEF Explained
    <3>2. CASE r \notin Placed BY <1>12, <3>2 DEF Explained
    <3> QED BY <3>1, <3>2
  <2>8. LiveOK(entries, DOMAIN entries)' BY <1>7, <2>2, StillKnown
  <2>9. Goes BY <1>1, <1>7, <1>9, <1>13, <2>1, <2>6, <2>7, <2>8 DEF Goes
  <2> QED BY <2>9, GoesOn
<1>14. CASE ~(left > 1) /\ Withdraw(fresh, made, K)
  <2> DEFINE E == Withdrawn(fresh, made, K)
  <2>1. left = 1 /\ made # 0 /\ made \in 0..Len(fresh)
    <3>1. ~(left > 1) BY <1>14
    <3> QED BY <1>2, <3>1
  <2>2. Saving(E, {}) BY <1>14, <2>1 DEF Withdraw
  <2>3. /\ RecordsMove(E) /\ DOMAIN E = DOMAIN entries \cup Made(made)
        /\ \A r \in DOMAIN entries : E[r] = entries[r]
        /\ \A r \in DOMAIN E \ DOMAIN entries :
             IF r \in K THEN ~Over(E[r]) ELSE E[r].state = "released" /\ Over(E[r])
    <3>1. Made(made) = {fresh[i].id : i \in 1..made} BY <1>0 DEF Made
    <3>2. /\ RecordsMove(E) /\ DOMAIN E = DOMAIN entries \cup {fresh[i].id : i \in 1..made}
          /\ \A r \in DOMAIN entries : E[r] = entries[r]
          /\ \A r \in DOMAIN E \ DOMAIN entries :
               IF r \in K THEN ~Over(E[r]) ELSE E[r].state = "released" /\ Over(E[r])
      BY <1>2, <2>1, WithdrawnMove, Zenon
    <3> HIDE DEF E
    <3> QED BY <3>1, <3>2
  <2> HIDE DEF E
  <2>4. entries' = E /\ UNCHANGED <<aggs, folded>> /\ op' = [kind |-> "save", answers |-> {}]
    BY <2>2 DEF Saving
  <2>5. op'.kind = "save" /\ op'.answers \subseteq DOMAIN E BY <2>4
  <2>6. \A r \in Made(made) : r \in K \/ ~IsHeld(r)' BY <1>0, <1>11, <2>1 DEF Made, Returned
  <2>7. ClosedOK(entries)'
    <3> SUFFICES ASSUME NEW r \in DOMAIN E, Over(E[r])
                 PROVE  ~IsHeld(r)' \/ (r \in unsure'.open /\ E[r].state = "released")
      BY <2>4 DEF ClosedOK
    <3>1. CASE r \in DOMAIN entries
      <4>1. IsHeld(r)' => IsHeld(r) BY <1>8
      <4>2. unsure.open \subseteq unsure'.open BY DEF Grows
      <4> QED BY <2>3, <3>1, <4>1, <4>2 DEF LedgerInv, ClosedOK
    <3>2. CASE r \notin DOMAIN entries BY <2>3, <2>6, <3>2
    <3> QED BY <3>1, <3>2
  <2>8. LiveOK(entries, DOMAIN entries)'
    <3> SUFFICES ASSUME NEW r \in DOMAIN E, ~Over(E[r]) PROVE IsHeld(r)' \/ r \in Doubt'
      BY <2>4 DEF LiveOK
    <3>1. CASE r \in DOMAIN entries
      <4>1. IsHeld(r)' <=> IsHeld(r) BY <1>7, <3>1
      <4>2. Doubt \subseteq Doubt' BY DEF Grows, Doubt
      <4> QED BY <1>1, <2>3, <3>1, <4>1, <4>2 DEF LedgerInv, LiveOK
    <3>2. CASE r \notin DOMAIN entries BY <2>3, <3>2 DEF Doubt
    <3> QED BY <3>1, <3>2
  <2>9. Strays'
    <3> SUFFICES ASSUME NEW r \in DOMAIN holds', r \notin DOMAIN E \cup Gone(folded),
                        holds'[r].state # "denied"
                 PROVE  Explained(r)'
      BY <2>4 DEF Strays
    <3>1. r \notin DOMAIN entries \cup Gone(folded) /\ r \notin Placed BY <1>2, <2>3
    <3> QED BY <1>12, <3>1 DEF Explained
  <2>10. Writes(E) BY <1>1, <1>7, <1>9, <2>3, <2>4, <2>5, <2>7, <2>8, <2>9 DEF Writes
  <2> QED BY <2>10, WritesOn
<1> QED BY <1>0, <1>13, <1>14 DEF Undone

LEMMA UndoReleaseKeeps ==
  ASSUME LedgerAssumption, LedgerInv, UndoRelease
  PROVE  LedgerInv'
<1>0. PICK r : r = op.fresh[op.left].id OBVIOUS
<1>1. op.kind = "undo" /\ Undone(op.kept) /\ UNCHANGED <<disk, poisoned, acked, swept, unsure>>
  BY DEF UndoRelease, unsaved
<1>2. Shuts(r) BY <1>0, ReleasingShuts DEF UndoRelease, LedgerInv
<1>3. ~IsHeld(r)' BY <1>2 DEF Shuts, IsHeld
<1>4. Grows BY <1>1 DEF Grows, LedgerInv, UnsureFits
<1>5. op.kept \subseteq unsure'.close BY <1>1, Running DEF UndoFits
<1>6. PICK K : K = op.kept OBVIOUS
<1> QED BY <1>0, <1>1, <1>2, <1>3, <1>4, <1>5, <1>6, UndoneKeeps

LEMMA UndoFailsKeeps ==
  ASSUME LedgerAssumption, LedgerInv, NEW effect \in BOOLEAN, UndoFails(effect)
  PROVE  LedgerInv'
<1>0. PICK r : r = op.fresh[op.left].id OBVIOUS
<1>00. PICK K : K = op.kept \cup {r} OBVIOUS
<1>1. op.kind = "undo" /\ UNCHANGED <<disk, poisoned, acked, swept>>
      /\ unsure' = [unsure EXCEPT !.close = @ \cup {r}]
  BY <1>0 DEF UndoFails, unsaved
<1>2. Shuts(r) \/ UNCHANGED holds BY <1>0, ReleasingShuts DEF UndoFails, LedgerInv
<1>3. unsure'.close = unsure.close \cup {r} /\ unsure'.open = unsure.open /\ UnsureFits'
  BY <1>1 DEF LedgerInv, UnsureFits
<1>4. Grows BY <1>3 DEF Grows
<1>5. UndoFits /\ ~poisoned /\ Admission BY <1>1, Running
<1>6. op.kept \subseteq unsure.close BY <1>5 DEF UndoFits
<1>7. CASE Undone(K)
  <2>1. K \subseteq unsure'.close /\ op.kept \subseteq K /\ r \in K BY <1>00, <1>3, <1>6
  <2> QED BY <1>0, <1>1, <1>2, <1>4, <1>7, <2>1, UndoneKeeps
<1>8. CASE op' = [op EXCEPT !.tries = @ + 1] /\ UNCHANGED local
  <2>0. PICK in : in = op.fresh[op.left] OBVIOUS
  <2>1. op'.kind = "undo" /\ op'.fresh = op.fresh /\ op'.made = op.made /\ op'.left = op.left
        /\ op'.kept = op.kept
        /\ op' = [kind |-> "undo", fresh |-> op'.fresh, made |-> op'.made, left |-> op'.left,
                  tries |-> op'.tries, kept |-> op'.kept]
    BY <1>5, <1>8 DEF UndoFits
  <2>2. /\ Fits(op.fresh) /\ Len(op.fresh) \in Nat /\ DOMAIN op.fresh = 1..Len(op.fresh)
        /\ op.made \in 1..Len(op.fresh) /\ op.left \in 1..op.made /\ Placed = Made(op.made)
    BY <1>1, PlacedFits
  <2>3. op.left \in 1..Len(op.fresh) BY <2>2
  <2>4. IsNew(in) /\ in.id = r BY <1>0, <2>0, <2>2, <2>3 DEF Fits
  <2>5. Older /\ \A q \in DOMAIN entries \cup Gone(folded) : IsHeld(q)' <=> IsHeld(q)
    BY <1>2, <2>4, NewOlder
  <2>6. UNCHANGED <<entries, folded>> BY <1>8 DEF local
  <2>7. \A q : IsHeld(q)' => IsHeld(q) BY <1>2 DEF Shuts, IsHeld
  <2>8. StepFits'
    <3>0. PICK fresh : fresh = op.fresh OBVIOUS
    <3>1. Fits(fresh)' BY <1>8, <2>2, <3>0, FitsAgain
    <3> QED BY <2>1, <3>0, <3>1 DEF StepFits, Fits
  <2>15. Returned(op.left + 1)' = Returned(op.left + 1) BY <2>1 DEF Returned
  <2>9. UndoFits'
    <3>1. op'.kept \subseteq unsure'.close BY <1>3, <1>6, <2>1
    <3>2. \A q \in Returned(op.left + 1) : q \in op.kept \/ ~IsHeld(q)
      BY <1>5 DEF UndoFits
    <3>3. \A q \in Returned(op.left + 1)' : q \in op'.kept \/ ~IsHeld(q)'
      BY <2>1, <2>7, <2>15, <3>2
    <3>4. op'.made \in 1 .. Len(op'.fresh) /\ op'.left \in 1 .. op'.made BY <2>1, <2>2
    <3>5. /\ op'.kind = "undo"
          /\ op' = [kind |-> "undo", fresh |-> op'.fresh, made |-> op'.made, left |-> op'.left,
                    tries |-> op'.tries, kept |-> op'.kept]
      BY <2>1
    <3> QED BY <2>8, <3>1, <3>3, <3>4, <3>5 DEF UndoFits
  <2>10. OpFits' /\ Placed' = Placed
    <3>1. OpFits' BY <2>9 DEF OpFits
    <3>2. op'.fresh = op.fresh /\ op'.made = op.made /\ op'.kind = "undo" BY <2>1
    <3>3. Made(op.made)' = Made(op.made) BY <3>2 DEF Made
    <3>4. Placed' = Made(op.made)' BY <3>2 DEF Placed
    <3> QED BY <2>2, <1>1, <3>1, <3>3, <3>4
  <2>11. HoldsFit' BY <1>2 DEF Shuts, LedgerInv, HoldsFit
  <2>12. Strays'
    <3> SUFFICES ASSUME NEW q \in DOMAIN holds', q \notin DOMAIN entries \cup Gone(folded),
                        holds'[q].state # "denied"
                 PROVE  Explained(q)'
      BY <2>6 DEF Strays
    <3>1. CASE q = r
      <4>1. r \in Placed BY <1>0, <2>2 DEF Made
      <4> QED BY <2>1, <2>10, <3>1, <4>1 DEF Explained
    <3>2. CASE q # r
      <4>1. q \in DOMAIN holds /\ holds'[q] = holds[q] BY <1>2, <3>2 DEF Shuts
      <4>2. Explained(q) BY <4>1 DEF LedgerInv, Strays
      <4> QED BY <1>1, <1>3, <2>1, <2>7, <2>10, <4>2 DEF Explained
    <3> QED BY <3>1, <3>2
  <2>13. LiveOK(entries, DOMAIN entries)' BY <1>1, <1>4, <2>5, <2>6, StillKnown
  <2>14. Goes BY <1>1, <1>4, <1>5, <1>8, <2>1, <2>5, <2>10, <2>11, <2>12, <2>13 DEF Goes
  <2> QED BY <2>14, GoesOn
<1> QED BY <1>0, <1>00, <1>7, <1>8 DEF UndoFails
-----------------------------------------------------------------------------
(* Compaction. *)

\* What a compaction adds to the folded records.
Folds(s, f) ==
  \E r \in CompactedIn(s) : f.e = entries[r] /\ f.keep = Ancestors(entries[r].in.chain, s)

LEMMA FoldedFits ==
  ASSUME LedgerAssumption, LedgerInv, NEW s \in Compacted, NEW f, Folds(s, f)
  PROVE  FoldFits(f) /\ f.e.in.id \in CompactedIn(s)
<1>1. PICK r \in CompactedIn(s) : f.e = entries[r] /\ f.keep = Ancestors(entries[r].in.chain, s)
  BY DEF Folds
<1>2. r \in DOMAIN entries /\ InScope(entries[r].in.chain, s) /\ entries[r].state # "reserved"
  BY DEF CompactedIn
<1>3. IsRecord(entries[r]) /\ entries[r].in.id = r BY <1>2 DEF LedgerInv, Books
<1> DEFINE c == entries[r].in.chain
           i == PositionOf(c, s)
<1>4. s # Whole BY DEF LedgerAssumption
<1>5. \E j \in DOMAIN c : c[j].id = s BY <1>2, <1>4 DEF InScope
<1>6. i \in DOMAIN c BY <1>5 DEF PositionOf
<1>7. c \in Seq([id : STRING \ {Whole}, budget : Budgets]) BY <1>3 DEF IsRecord, LedgerAssumption
<1> HIDE DEF c, i
<1>8. DOMAIN c = 1..Len(c) /\ Len(c) \in Nat BY <1>7
<1>9. Ancestors(c, s) = SubSeq(c, 1, i - 1) BY DEF Ancestors, i
<1>10. Len(SubSeq(c, 1, i - 1)) = i - 1
  <2>1. 1 \in 1..Len(c)+1 /\ i - 1 \in 1-1..Len(c) BY <1>6, <1>8
  <2>2. Len(SubSeq(c, 1, i - 1)) = IF 1 <= i - 1 THEN (i - 1) - 1 + 1 ELSE 0
    BY <1>7, <2>1, SubSeqProperties
  <2> QED BY <1>6, <1>8, <2>2
<1>11. Len(f.keep) = i - 1 BY <1>1, <1>9, <1>10 DEF c
<1>12. i > Len(f.keep) /\ i \in DOMAIN f.e.in.chain BY <1>1, <1>6, <1>8, <1>11 DEF c
<1> QED BY <1>1, <1>2, <1>3, <1>12 DEF FoldFits

LEMMA CompactKeeps ==
  ASSUME LedgerAssumption, LedgerInv, NEW s \in Compacted, Compact(s)
  PROVE  LedgerInv'
<1> DEFINE R == CompactedIn(s)
<1>1. Idle /\ op' = [kind |-> "save", answers |-> {}]
      /\ UNCHANGED <<poisoned, disk, acked, swept, holds, unsure>>
  BY Zenon DEF Compact, unsaved
<1>2. entries' = [r \in DOMAIN entries \ R |-> entries[r]] BY Zenon DEF Compact
<1>3. /\ folded \subseteq folded'
      /\ \A f \in folded' : f \in folded \/ Folds(s, f)
      /\ \A r \in R : \E f \in folded' : f.e = entries[r]
  <2> DEFINE new == [r \in R |-> [e |-> entries[r], chain |-> Ancestors(entries[r].in.chain, s)]]
             g(r) == [n |-> Cardinality(folded), e |-> entries[r], keep |-> new[r].chain]
  <2>1. folded' = folded \cup {g(r) : r \in R} BY Zenon DEF Compact
  <2>2. \A r \in R : g(r).e = entries[r] /\ g(r).keep = Ancestors(entries[r].in.chain, s)
    OBVIOUS
  <2> HIDE DEF g, R
  <2>3. \A r \in R : Folds(s, g(r)) BY <2>2 DEF Folds, R
  <2> QED BY <2>1, <2>2, <2>3
<1>4. op.kind = "none" /\ ~poisoned /\ Placed = {} /\ disk = Snapshot BY <1>1, IdleIs
<1>5. disk.entries = entries /\ disk.folded = folded /\ disk' = disk /\ swept' = swept
      /\ holds' = holds /\ unsure' = unsure /\ acked' = acked /\ poisoned' = FALSE
  BY <1>1, <1>4 DEF Snapshot
<1>6. \A r \in R : r \in DOMAIN entries /\ IsRecord(entries[r]) /\ entries[r].in.id = r
  BY DEF CompactedIn, LedgerInv, Books
<1> HIDE DEF R
<1>7. DOMAIN entries' = DOMAIN entries \ R /\ \A r \in DOMAIN entries' : entries'[r] = entries[r]
  BY <1>2
<1>8. Gone(folded)' = Gone(folded) \cup R
  <2>1. Gone(folded)' \subseteq Gone(folded) \cup R
    <3> SUFFICES ASSUME NEW f \in folded' PROVE f.e.in.id \in Gone(folded) \cup R BY DEF Gone
    <3>1. CASE f \in folded BY <3>1 DEF Gone
    <3>2. CASE Folds(s, f) BY <3>2, FoldedFits DEF R
    <3> QED BY <1>3, <3>1, <3>2
  <2>2. Gone(folded) \subseteq Gone(folded)' BY <1>3 DEF Gone
  <2>3. R \subseteq Gone(folded)'
    <3> SUFFICES ASSUME NEW r \in R PROVE r \in Gone(folded)' OBVIOUS
    <3>1. PICK f \in folded' : f.e = entries[r] BY <1>3
    <3>2. f.e.in.id = r BY <1>6, <3>1
    <3> QED BY <3>2 DEF Gone
  <2> QED BY <2>1, <2>2, <2>3
<1>9. Books(entries, folded)'
  <2>1. \A r \in DOMAIN entries' : IsRecord(entries'[r]) /\ entries'[r].in.id = r
    BY <1>7 DEF LedgerInv, Books
  <2>2. ASSUME NEW f \in folded' PROVE FoldFits(f) /\ f.e.in.id \notin DOMAIN entries'
    <3>1. CASE f \in folded BY <1>7, <3>1 DEF LedgerInv, Books
    <3>2. CASE Folds(s, f) BY <1>7, <3>2, FoldedFits DEF R
    <3> QED BY <1>3, <3>1, <3>2
  <2> QED BY <2>1, <2>2 DEF Books
<1>10. Books(disk.entries, disk.folded)' BY <1>5 DEF LedgerInv, Books
<1>11. op'.kind = "save" /\ op'.answers = {} BY <1>1
<1>12. OpFits' /\ Placed' = {} BY <1>11 DEF OpFits, Placed
<1>13. Steady'
  <2>1. Written(disk)' BY <1>5 DEF LedgerInv, Steady, Written
  <2>2. Gone(folded)' \subseteq (DOMAIN disk.entries)' \cup Gone(disk.folded)'
    BY <1>5, <1>6, <1>8 DEF Gone
  <2> QED BY <1>5, <1>11, <2>1, <2>2 DEF LedgerInv, Steady
<1>14. Durable'
  <2> SUFFICES ASSUME NEW r \in DOMAIN acked
               PROVE  acked[r].state \in States /\ Has(entries', folded', r)
                      /\ Has(disk.entries, disk.folded, r)
    BY <1>5 DEF Durable, Has
  <2>1. acked[r].state \in States /\ Has(entries, folded, r) /\ Has(disk.entries, disk.folded, r)
    BY DEF LedgerInv, Durable
  <2>2. CASE r \in DOMAIN entries /\ Covers(acked[r], entries[r])
    <3>1. CASE r \in R
      <4>1. PICK f \in folded' : f.e = entries[r] BY <1>3, <3>1
      <4>2. f.e.in.id = r /\ Covers(acked[r], f.e) BY <1>6, <2>2, <3>1, <4>1
      <4>3. \E g \in folded' : g.e.in.id = r /\ Covers(acked[r], g.e) BY <4>2
      <4> QED BY <1>5, <2>1, <4>3 DEF Has
    <3>2. CASE r \notin R
      <4>1. r \in DOMAIN entries' /\ entries'[r] = entries[r] BY <1>7, <2>2, <3>2
      <4>2. Covers(acked[r], entries'[r]) BY <2>2, <4>1
      <4> QED BY <2>1, <4>1, <4>2 DEF Has
    <3> QED BY <3>1, <3>2
  <2>3. CASE \E f \in folded : f.e.in.id = r /\ Covers(acked[r], f.e)
    <3>1. \E f \in folded' : f.e.in.id = r /\ Covers(acked[r], f.e) BY <1>3, <2>3
    <3> QED BY <2>1, <3>1 DEF Has
  <2> QED BY <2>1, <2>2, <2>3 DEF Has
<1>15. HoldsFit' /\ UnsureFits' BY <1>5 DEF LedgerInv, HoldsFit, UnsureFits
<1>16. \A q : (IsHeld(q)' <=> IsHeld(q)) BY <1>5 DEF IsHeld
<1>17. ClosedOK(entries)' BY <1>5, <1>7, <1>16 DEF LedgerInv, ClosedOK
<1>18. ClosedOK(disk.entries)' BY <1>5, <1>16 DEF LedgerInv, ClosedOK
<1>19. FoldedOK(folded)'
  <2> SUFFICES ASSUME NEW f \in folded', f.e.state \in {"settled", "released"}
               PROVE  Shut(f.e.in.id)
    BY <1>5, <1>16 DEF FoldedOK, Shut
  <2>1. CASE f \in folded BY <2>1 DEF LedgerInv, FoldedOK
  <2>2. CASE Folds(s, f)
    <3>1. PICK r \in R : f.e = entries[r] BY <2>2 DEF Folds, R
    <3>2. Over(entries[r]) /\ f.e.in.id = r BY <1>6, <3>1 DEF Over, SettledInStore
    <3> QED BY <1>6, <3>1, <3>2 DEF LedgerInv, ClosedOK, Shut
  <2> QED BY <1>3, <2>1, <2>2
<1>20. FoldedOK(disk.folded)' BY <1>5, <1>16 DEF LedgerInv, FoldedOK, Shut
<1>21. LiveOK(entries, DOMAIN entries)' BY <1>5, <1>7, <1>16 DEF LedgerInv, LiveOK, Doubt
<1>22. LiveOK(disk.entries, DOMAIN disk.entries \ DOMAIN entries)'
  BY <1>5, <1>16 DEF LedgerInv, LiveOK, Doubt
<1>23. Strays'
  <2>1. \A r : Explained(r) => Explained(r)' BY <1>4, <1>5, <1>16 DEF Explained
  <2>2. DOMAIN entries' \cup Gone(folded)' = DOMAIN entries \cup Gone(folded) BY <1>6, <1>7, <1>8
  <2> QED BY <1>5, <2>1, <2>2 DEF LedgerInv, Strays
<1> QED BY <1>9, <1>10, <1>12, <1>13, <1>14, <1>15, <1>17, <1>18, <1>19, <1>20, <1>21, <1>22, <1>23
        DEF LedgerInv
-----------------------------------------------------------------------------
(* Sweeps, writes and restarts. *)

LEMMA SweepKeeps ==
  ASSUME LedgerAssumption, LedgerInv, NEW h \in Ids, NEW how \in SweepHow, Sweep(h, how)
  PROVE  LedgerInv'
<1>1. UNCHANGED <<entries, aggs, folded, op, poisoned, disk, acked, unsure>>
      /\ h \in DOMAIN holds /\ swept' = swept \cup {h} /\ IsHeld(h)
  BY DEF Sweep, local, IsHeld
<1>2. holds[h].est \in Charges BY <1>1 DEF LedgerInv, HoldsFit, Holds
<1>3. Shuts(h) BY <1>2, SettlingShuts, ReleasingShuts DEF Sweep, LedgerInv
<1>4. ~IsHeld(h)' /\ \A q : q # h => (IsHeld(q)' <=> IsHeld(q))
  BY <1>3, Shutters DEF Shuts, IsHeld
<1>5. Placed' = Placed BY <1>1 DEF Placed, Made
<1>6. \A q : IsNew(q)' <=> IsNew(q) BY <1>1 DEF IsNew
<1>7. OpFits'
  <2>1. CASE op = NoOp \/ (op.kind = "save" /\ op.answers \subseteq DOMAIN entries)
    BY <1>1, <2>1 DEF OpFits
  <2>2. CASE ReserveFits BY <1>1, <1>6, <2>2 DEF OpFits, ReserveFits
  <2>3. CASE CloseFits BY <1>1, <2>3 DEF OpFits, CloseFits
  <2>4. StepFits => StepFits' BY <1>1, <1>6 DEF StepFits
  <2>5. CASE BatchFits
    <3>1. Made(op.done)' = Made(op.done) /\ Made(Len(op.fresh))' = Made(Len(op.fresh))
      BY <1>1 DEF Made
    <3>2. \A r \in Made(op.done) : IsHeld(r)' \/ r \in swept' \cup unsure'.open
      BY <1>1, <1>4, <2>5 DEF BatchFits
    <3>3. BatchFits' BY <1>1, <2>4, <2>5, <3>1, <3>2 DEF BatchFits
    <3> QED BY <3>3 DEF OpFits
  <2>6. CASE UndoFits
    <3>1. Returned(op.left + 1)' = Returned(op.left + 1) BY <1>1 DEF Returned
    <3>2. \A r \in Returned(op.left + 1) : r \in op.kept \/ ~IsHeld(r)'
      BY <1>4, <2>6 DEF UndoFits
    <3>3. UndoFits' BY <1>1, <2>4, <2>6, <3>1, <3>2 DEF UndoFits
    <3> QED BY <3>3 DEF OpFits
  <2> QED BY <2>1, <2>2, <2>3, <2>5, <2>6 DEF LedgerInv, OpFits
<1>8. Steady'
  <2>1. Admission BY <1>1 DEF LedgerInv, Steady
  <2> QED BY <1>1, <2>1 DEF LedgerInv, Steady, Written, Snapshot, Gone
<1>9. Books(entries, folded)' /\ Books(disk.entries, disk.folded)' BY <1>1 DEF LedgerInv, Books
<1>10. Durable' BY <1>1 DEF LedgerInv, Durable, Has
<1>11. HoldsFit' /\ UnsureFits' BY <1>1, <1>3 DEF LedgerInv, Shuts, UnsureFits
<1>12. ClosedOK(entries)' /\ ClosedOK(disk.entries)' BY <1>1, <1>4 DEF LedgerInv, ClosedOK
<1>13. FoldedOK(folded)' /\ FoldedOK(disk.folded)'
  BY <1>1, <1>4 DEF LedgerInv, FoldedOK, Shut
<1>14. LiveOK(entries, DOMAIN entries)'
       /\ LiveOK(disk.entries, DOMAIN disk.entries \ DOMAIN entries)'
  BY <1>1, <1>4 DEF LedgerInv, LiveOK, Doubt
<1>15. Strays'
  <2> SUFFICES ASSUME NEW r \in DOMAIN holds', r \notin DOMAIN entries \cup Gone(folded),
                      holds'[r].state # "denied"
               PROVE  Explained(r)'
    BY <1>1 DEF Strays
  <2>1. CASE r = h BY <1>1, <1>4, <2>1 DEF Explained
  <2>2. CASE r # h
    <3>1. r \in DOMAIN holds /\ holds'[r] = holds[r] BY <1>3, <2>2 DEF Shuts
    <3>2. Explained(r) BY <3>1 DEF LedgerInv, Strays
    <3>3. IsHeld(r)' <=> IsHeld(r) BY <1>4, <2>2
    <3> QED BY <1>1, <1>5, <3>2, <3>3 DEF Explained
  <2> QED BY <2>1, <2>2
<1> QED BY <1>7, <1>8, <1>9, <1>10, <1>11, <1>12, <1>13, <1>14, <1>15 DEF LedgerInv

\* Writing a snapshot, or failing to, ends the operation.
LEMMA WrittenKeeps ==
  ASSUME LedgerAssumption, LedgerInv, op.kind = "save", op' = NoOp, poisoned' \in BOOLEAN,
         UNCHANGED <<entries, aggs, folded, holds, swept, unsure>>,
         \/ disk' = Snapshot
         \/ disk' = disk /\ poisoned' = TRUE,
         \/ acked' = acked
         \/ /\ disk' = Snapshot
            /\ acked' = [r \in DOMAIN acked \cup op.answers |->
                           IF r \in op.answers THEN entries[r] ELSE acked[r]]
  PROVE  LedgerInv'
<1>1. OpFits' /\ op'.kind = "none" /\ Placed' = {} BY NoOpIs
<1>2. Placed = {} BY DEF Placed
<1>3. op.answers \subseteq DOMAIN entries
  BY DEF LedgerInv, OpFits, NoOp, ReserveFits, CloseFits, BatchFits, UndoFits
<1>4. /\ entries' = entries /\ folded' = folded /\ Snapshot' = Snapshot
      /\ holds' = holds /\ swept' = swept /\ unsure' = unsure
  BY DEF Snapshot
<1>5. \/ disk'.entries = entries /\ disk'.folded = folded /\ disk' = Snapshot /\ Written(disk)'
      \/ /\ disk'.entries = disk.entries /\ disk'.folded = disk.folded /\ disk' = disk
         /\ poisoned' = TRUE /\ Written(disk)'
  BY DEF Snapshot, Written, LedgerInv, Steady
<1>6. Books(entries, folded)' /\ Books(disk.entries, disk.folded)'
  BY <1>4, <1>5 DEF LedgerInv, Books
<1>7. Steady'
  <2>1. Gone(folded) \subseteq (DOMAIN disk.entries)' \cup Gone(disk.folded)'
    BY <1>5 DEF LedgerInv, Steady, Gone
  <2>2. Gone(folded)' = Gone(folded) BY <1>4 DEF Gone
  <2>3. Written(disk)' BY <1>5
  <2> QED BY <1>1, <1>4, <1>5, <2>1, <2>2, <2>3 DEF LedgerInv, Steady
<1>8. \A r \in DOMAIN entries : IsRecord(entries[r]) /\ Covers(entries[r], entries[r])
  BY CoversSelf DEF LedgerInv, Books, IsRecord
<1>9. Durable'
  <2> SUFFICES ASSUME NEW r \in DOMAIN acked'
               PROVE  acked'[r].state \in States /\ Has(entries, folded, r)'
                      /\ Has(disk.entries, disk.folded, r)'
    BY DEF Durable
  <2>1. CASE r \in DOMAIN acked /\ acked'[r] = acked[r]
    <3>1. acked[r].state \in States /\ Has(entries, folded, r) /\ Has(disk.entries, disk.folded, r)
      BY <2>1 DEF LedgerInv, Durable
    <3> QED BY <1>4, <1>5, <2>1, <3>1 DEF Has
  <2>2. CASE r \in op.answers /\ disk' = Snapshot /\ acked'[r] = entries[r]
    <3>1. r \in DOMAIN entries BY <1>3, <2>2
    <3>2. entries[r].state \in States /\ Covers(entries[r], entries[r])
      BY <1>8, <3>1 DEF IsRecord
    <3>3. disk'.entries = entries BY <2>2 DEF Snapshot
    <3> QED BY <1>4, <2>2, <3>1, <3>2, <3>3 DEF Has
  <2> QED BY <2>1, <2>2
<1>10. HoldsFit' /\ UnsureFits' BY <1>4 DEF LedgerInv, HoldsFit, UnsureFits
<1>11. \A q : IsHeld(q)' <=> IsHeld(q) BY <1>4 DEF IsHeld
<1>12. ClosedOK(entries)' /\ ClosedOK(disk.entries)'
  BY <1>4, <1>5, <1>11 DEF LedgerInv, ClosedOK
<1>13. FoldedOK(folded)' /\ FoldedOK(disk.folded)'
  BY <1>4, <1>5, <1>11 DEF LedgerInv, FoldedOK, Shut
<1>14. LiveOK(entries, DOMAIN entries)'
       /\ LiveOK(disk.entries, DOMAIN disk.entries \ DOMAIN entries)'
  BY <1>4, <1>5, <1>11 DEF LedgerInv, LiveOK, Doubt
<1>15. Strays'
  <2>1. \A r : Explained(r) => Explained(r)' BY <1>2, <1>4, <1>11 DEF Explained
  <2>2. Gone(folded)' = Gone(folded) BY <1>4 DEF Gone
  <2> QED BY <1>4, <2>1, <2>2 DEF LedgerInv, Strays
<1> QED BY <1>1, <1>6, <1>7, <1>9, <1>10, <1>12, <1>13, <1>14, <1>15 DEF LedgerInv

LEMMA PersistKeeps ==
  ASSUME LedgerAssumption, LedgerInv,
         Persist \/ \E written \in BOOLEAN : PersistFails(written)
  PROVE  LedgerInv'
<1>1. CASE Persist
  <2>1. poisoned' \in BOOLEAN BY <1>1 DEF Persist, LedgerInv, Steady
  <2> QED BY <1>1, <2>1, WrittenKeeps DEF Persist
<1>2. CASE \E written \in BOOLEAN : PersistFails(written)
  BY <1>2, WrittenKeeps DEF PersistFails, local
<1> QED BY <1>1, <1>2

\* The store calls of the running operation are among those a crash leaves in doubt.
LEMMA PlacedCalled == ASSUME LedgerInv PROVE Placed \subseteq Calling
<1>1. CASE op.kind \in {"batch", "undo"}
  <2>1. /\ DOMAIN op.fresh = 1..Len(op.fresh) /\ Len(op.fresh) \in Nat
        /\ op.kind = "batch" => op.done \in 0 .. Len(op.fresh) - 1 /\ Placed = Made(op.done)
        /\ op.kind = "undo" => op.made \in 1 .. Len(op.fresh) /\ Placed = Made(op.made)
    BY <1>1, PlacedFits
  <2>2. PICK n : Placed = Made(n) /\ 1..n \subseteq DOMAIN op.fresh
    <3>1. CASE op.kind = "batch"
      <4>1. 1..op.done \subseteq 1..Len(op.fresh) BY <2>1, <3>1
      <4> QED BY <2>1, <3>1, <4>1
    <3>2. CASE op.kind = "undo"
      <4>1. 1..op.made \subseteq 1..Len(op.fresh) BY <2>1, <3>2
      <4> QED BY <2>1, <3>2, <4>1
    <3> QED BY <1>1, <3>1, <3>2
  <2>3. Calling = {op.fresh[i].id : i \in DOMAIN op.fresh} BY <1>1 DEF Calling
  <2> QED BY <2>2, <2>3 DEF Made
<1>2. CASE op.kind \notin {"batch", "undo"} BY <1>2 DEF Placed
<1> QED BY <1>1, <1>2

LEMMA RestartKeeps ==
  ASSUME LedgerAssumption, LedgerInv, Restart
  PROVE  LedgerInv'
<1>1. /\ entries' = disk.entries /\ aggs' = disk.aggs /\ folded' = disk.folded /\ op' = NoOp
      /\ poisoned' = FALSE /\ disk' = disk /\ holds' = holds /\ acked' = acked /\ swept' = swept
  BY DEF Restart
<1>2. /\ UnsureFits'
      /\ unsure'.open = unsure.open \cup (Calling \ DOMAIN entries)
                          \cup (DOMAIN entries \ DOMAIN disk.entries)
      /\ unsure'.close = unsure.close \cup (Calling \cap DOMAIN entries)
                           \cup {r \in DOMAIN entries \cap DOMAIN disk.entries :
                                   disk.entries[r] # entries[r]}
  BY DEF Restart, UnsureFits
<1>3. OpFits' /\ op'.kind = "none" /\ Placed' = {} BY <1>1, NoOpIs
<1>4. Books(entries, folded)' /\ Books(disk.entries, disk.folded)' BY <1>1 DEF LedgerInv, Books
<1>5. Steady'
  <2>1. Written(disk)' /\ disk = [entries |-> disk.entries, aggs |-> disk.aggs, folded |-> disk.folded]
    BY <1>1 DEF LedgerInv, Steady, Written
  <2>2. disk' = Snapshot' BY <1>1, <2>1 DEF Snapshot
  <2>3. Gone(folded)' = Gone(disk.folded)' BY <1>1 DEF Gone
  <2> QED BY <1>1, <1>3, <2>1, <2>2, <2>3 DEF LedgerInv, Steady
<1>6. Durable' BY <1>1 DEF LedgerInv, Durable, Has
<1>7. HoldsFit' BY <1>1 DEF LedgerInv, HoldsFit
<1>8. \A q : IsHeld(q)' <=> IsHeld(q) BY <1>1 DEF IsHeld
<1>9. ClosedOK(entries)' /\ ClosedOK(disk.entries)'
  BY <1>1, <1>2, <1>8 DEF LedgerInv, ClosedOK
<1>10. FoldedOK(folded)' /\ FoldedOK(disk.folded)'
  BY <1>1, <1>2, <1>8 DEF LedgerInv, FoldedOK, Shut
<1>11. LiveOK(entries, DOMAIN entries)'
       /\ LiveOK(disk.entries, DOMAIN disk.entries \ DOMAIN entries)'
  <2>1. ASSUME Admission, NEW r \in DOMAIN disk.entries, ~Over(disk.entries[r])
        PROVE  IsHeld(r) \/ r \in Doubt'
    <3>1. Doubt \subseteq Doubt' BY <1>1, <1>2 DEF Doubt
    <3>2. CASE r \notin DOMAIN entries BY <2>1, <3>1, <3>2 DEF LedgerInv, LiveOK
    <3>3. CASE r \in DOMAIN entries /\ disk.entries[r] = entries[r]
      BY <2>1, <3>1, <3>3 DEF LedgerInv, LiveOK
    <3>4. CASE r \in DOMAIN entries /\ disk.entries[r] # entries[r]
      BY <1>2, <3>4 DEF Doubt
    <3> QED BY <3>2, <3>3, <3>4
  <2> QED BY <1>1, <1>8, <2>1 DEF LiveOK
<1>12. Strays'
  <2> SUFFICES ASSUME NEW r \in DOMAIN holds, r \notin DOMAIN disk.entries \cup Gone(disk.folded),
                      holds[r].state # "denied"
               PROVE  Explained(r)'
    BY <1>1 DEF Strays, Gone
  <2>1. r \notin Gone(folded) BY DEF LedgerInv, Steady
  <2>2. CASE r \in DOMAIN entries BY <1>2, <2>2 DEF Explained
  <2>3. CASE r \notin DOMAIN entries
    <3>1. Explained(r) BY <2>1, <2>3 DEF LedgerInv, Strays
    <3>2. r \in Placed => r \in unsure'.open BY <1>2, <2>3, PlacedCalled
    <3>3. IsHeld(r)' <=> IsHeld(r) BY <1>8
    <3> QED BY <1>1, <1>2, <3>1, <3>2, <3>3 DEF Explained
  <2> QED BY <2>2, <2>3
<1> QED BY <1>2, <1>3, <1>4, <1>5, <1>6, <1>7, <1>9, <1>10, <1>11, <1>12 DEF LedgerInv
-----------------------------------------------------------------------------
(* The invariant and what follows from it. *)

LEMMA LedgerBegins == ASSUME LedgerInit PROVE LedgerInv
<1>1. /\ DOMAIN entries = {} /\ folded = {} /\ op = NoOp /\ ~poisoned /\ poisoned \in BOOLEAN
      /\ DOMAIN holds = {} /\ DOMAIN acked = {} /\ unsure = [open |-> {}, close |-> {}]
      /\ disk = [entries |-> entries, aggs |-> aggs, folded |-> folded]
  BY DEF LedgerInit, NoFunction, EmptySnapshot
<1>2. disk.entries = entries /\ disk.folded = {} BY <1>1
<1>3. Books(entries, folded) /\ Books(disk.entries, disk.folded) BY <1>1, <1>2 DEF Books
<1>4. OpFits /\ op.kind = "none" BY <1>1 DEF OpFits, NoOp
<1>5. Steady BY <1>1, <1>2, <1>4 DEF Steady, Written, Snapshot, Gone
<1>6. Durable /\ HoldsFit /\ UnsureFits BY <1>1 DEF Durable, HoldsFit, UnsureFits
<1>7. ClosedOK(entries) /\ ClosedOK(disk.entries) /\ FoldedOK(folded) /\ FoldedOK(disk.folded)
  BY <1>1, <1>2 DEF ClosedOK, FoldedOK
<1>8. LiveOK(entries, DOMAIN entries) /\ LiveOK(disk.entries, DOMAIN disk.entries \ DOMAIN entries)
  BY <1>1, <1>2 DEF LiveOK
<1>9. Strays BY <1>1 DEF Strays
<1> QED BY <1>3, <1>4, <1>5, <1>6, <1>7, <1>8, <1>9 DEF LedgerInv

LEMMA LedgerRests == ASSUME LedgerInv, UNCHANGED ledgerVars PROVE LedgerInv'
<1>1. /\ entries' = entries /\ aggs' = aggs /\ op' = op /\ poisoned' = poisoned /\ disk' = disk
      /\ holds' = holds /\ folded' = folded /\ acked' = acked /\ swept' = swept
      /\ unsure' = unsure
  BY DEF ledgerVars
<1>2. \A q : IsHeld(q)' <=> IsHeld(q) BY <1>1 DEF IsHeld
<1>3. \A in : IsNew(in)' <=> IsNew(in) BY <1>1 DEF IsNew
<1>4. Placed' = Placed /\ \A n : Made(n)' = Made(n) /\ Returned(n)' = Returned(n)
  BY <1>1 DEF Placed, Made, Returned
<1>5. OpFits'
  <2>1. StepFits' <=> StepFits BY <1>1, <1>3 DEF StepFits
  <2>2. ReserveFits' <=> ReserveFits BY <1>1, <1>3 DEF ReserveFits
  <2>3. CloseFits' <=> CloseFits BY <1>1 DEF CloseFits
  <2>4. BatchFits' <=> BatchFits
    <3>1. Made(op.done)' = Made(op.done) /\ Made(Len(op.fresh))' = Made(Len(op.fresh))
      BY <1>1 DEF Made
    <3> QED BY <1>1, <1>2, <2>1, <3>1 DEF BatchFits
  <2>5. UndoFits' <=> UndoFits
    <3>1. Returned(op.left + 1)' = Returned(op.left + 1) BY <1>1 DEF Returned
    <3> QED BY <1>1, <1>2, <2>1, <3>1 DEF UndoFits
  <2> QED BY <1>1, <2>2, <2>3, <2>4, <2>5 DEF LedgerInv, OpFits
<1>6. Steady' BY <1>1 DEF LedgerInv, Steady, Written, Snapshot, Gone
<1>7. Books(entries, folded)' /\ Books(disk.entries, disk.folded)' BY <1>1 DEF LedgerInv, Books
<1>8. Durable' /\ HoldsFit' /\ UnsureFits'
  BY <1>1 DEF LedgerInv, Durable, Has, HoldsFit, UnsureFits
<1>9. ClosedOK(entries)' /\ ClosedOK(disk.entries)' BY <1>1, <1>2 DEF LedgerInv, ClosedOK
<1>10. FoldedOK(folded)' /\ FoldedOK(disk.folded)' BY <1>1, <1>2 DEF LedgerInv, FoldedOK, Shut
<1>11. LiveOK(entries, DOMAIN entries)'
       /\ LiveOK(disk.entries, DOMAIN disk.entries \ DOMAIN entries)'
  BY <1>1, <1>2 DEF LedgerInv, LiveOK, Doubt
<1>12. Strays'
  <2>1. \A r : Explained(r)' <=> Explained(r) BY <1>1, <1>2, <1>4 DEF Explained
  <2>2. Gone(folded)' = Gone(folded) BY <1>1 DEF Gone
  <2> QED BY <1>1, <2>1, <2>2 DEF LedgerInv, Strays
<1> QED BY <1>5, <1>6, <1>7, <1>8, <1>9, <1>10, <1>11, <1>12 DEF LedgerInv

LEMMA LedgerSteps == ASSUME LedgerAssumption, LedgerInv, [LedgerNext]_ledgerVars PROVE LedgerInv'
<1>1. CASE UNCHANGED ledgerVars BY <1>1, LedgerRests
<1>2. CASE LedgerNext
  <2>1. CASE \E in \in Offers : Reserve(in)
    <3>1. PICK in \in Offers : Reserve(in) BY <2>1
    <3> QED BY <3>1, AdmitKeeps
  <2>2. CASE \E in \in Adopted : Adopt(in)
    <3>1. PICK in \in Adopted : Adopt(in) BY <2>2
    <3> QED BY <3>1, AdmitKeeps
  <2>3. CASE \E batch \in Batches : ReserveMany(batch) BY <2>3, ReserveManyKeeps
  <2>4. CASE \E r \in Ids : \E amounts \in Settlements : Settle(r, amounts) BY <2>4, SettleKeeps
  <2>5. CASE \E r \in Ids : \E tokens \in Usages, price \in Prices : SettleUsage(r, tokens, price)
    BY <2>5, SettleUsageKeeps
  <2>6. CASE \E r \in Ids : MarkUnknown(r) BY <2>6, MarkUnknownKeeps
  <2>7. CASE \E r \in Ids : Release(r) BY <2>7, ReleaseKeeps
  <2>8. CASE \E r \in Ids : \E how \in SweepHow : Sweep(r, how) BY <2>8, SweepKeeps
  <2>9. CASE \E s \in Compacted : Compact(s) BY <2>9, CompactKeeps
  <2>10. CASE StoreReserve BY <2>10, StoreReserveKeeps
  <2>11. CASE StoreClose BY <2>11, StoreCloseKeeps
  <2>12. CASE BatchReserve BY <2>12, BatchReserveKeeps
  <2>13. CASE UndoRelease BY <2>13, UndoReleaseKeeps
  <2>14. CASE Persist \/ \E effect \in BOOLEAN : PersistFails(effect) BY <2>14, PersistKeeps
  <2>15. CASE \E effect \in BOOLEAN : StoreReserveFails(effect) BY <2>15, StoreReserveFailsKeeps
  <2>16. CASE \E effect \in BOOLEAN : StoreCloseFails(effect) BY <2>16, StoreCloseFailsKeeps
  <2>17. CASE \E effect \in BOOLEAN : BatchReserveFails(effect) BY <2>17, BatchReserveFailsKeeps
  <2>18. CASE \E effect \in BOOLEAN : UndoFails(effect) BY <2>18, UndoFailsKeeps
  <2>19. CASE Restart BY <2>19, RestartKeeps
  <2> QED BY <1>2, <2>1, <2>2, <2>3, <2>4, <2>5, <2>6, <2>7, <2>8, <2>9, <2>10, <2>11, <2>12,
             <2>13, <2>14, <2>15, <2>16, <2>17, <2>18, <2>19 DEF LedgerNext
<1> QED BY <1>1, <1>2

\* Records, snapshot and store stay in step, each with the changes the running
\* operation owes it (budget-ledger.ts, save, and the mirrored store calls).
THEOREM LedgerStands == LedgerSpec => []LedgerInv
<1>1. LedgerInit => LedgerInv BY LedgerBegins
<1>2. LedgerInv /\ [LedgerNext]_ledgerVars => LedgerInv' BY LedgerSteps, LedgerAssumption
<1> QED BY <1>1, <1>2, PTL DEF LedgerSpec

\* A record an operation returned survives every crash, or was folded no further
\* back than the caller saw it (budget-ledger.ts, save and persistSnapshot).
THEOREM AnswersSurvive == LedgerSpec => []AnswersAreDurable
<1>1. LedgerInv => AnswersAreDurable
  <2> SUFFICES ASSUME LedgerInv, NEW r \in DOMAIN acked
               PROVE  \E e \in {disk.entries[q] : q \in DOMAIN disk.entries \cap {r}}
                                 \cup {f.e : f \in {g \in disk.folded : g.e.in.id = r}} :
                        Covers(acked[r], e)
    BY DEF AnswersAreDurable, Covers
  <2>1. Has(disk.entries, disk.folded, r) BY DEF LedgerInv, Durable
  <2>2. CASE r \in DOMAIN disk.entries /\ Covers(acked[r], disk.entries[r]) BY <2>2
  <2>3. CASE \E f \in disk.folded : f.e.in.id = r /\ Covers(acked[r], f.e) BY <2>3
  <2> QED BY <2>1, <2>2, <2>3 DEF Has
<1> QED BY <1>1, LedgerStands, PTL

\* The store is told first: no attempt is closed here whose hold is open there,
\* but one that a refused batch released after an answer was lost
\* (budget-ledger.ts, settle, settleUsage, release and reserveMany).
THEOREM ClosedTogether == LedgerSpec => []ClosedHereClosedThere
<1>1. LedgerInv => ClosedHereClosedThere
  BY DEF LedgerInv, ClosedOK, Over, ClosedHereClosedThere
<1> QED BY <1>1, LedgerStands, PTL

\* No hold of the store is without an owner, and no live record without its
\* hold, but where a sweep or a lost answer took it (budget-ledger.ts, the calls
\* of the store; budget-store.ts, sweep).
THEOREM HoldsFitRecords == LedgerSpec => []HoldsMatchRecords
<1>1. LedgerInv => LiveIsHeld
  BY DEF LedgerInv, LiveOK, Over, Doubt, LiveIsHeld
<1>2. LedgerInv => HoldsAreOwned
  <2> SUFFICES ASSUME LedgerInv, NEW r \in DOMAIN holds, IsHeld(r)
               PROVE  \/ r \in DOMAIN entries /\ entries[r].state # "released"
                           /\ ~SettledInStore(entries[r])
                      \/ r \in Calling \cup unsure.open \cup unsure.close
                      \/ \E f \in folded : f.e.in.id = r /\ f.e.state = "unknown"
    BY DEF HoldsAreOwned
  <2>1. CASE r \in DOMAIN entries BY <2>1 DEF LedgerInv, ClosedOK, Over
  <2>2. CASE r \in Gone(folded)
    <3>1. PICK f \in folded : f.e.in.id = r BY <2>2 DEF Gone
    <3>2. f.e.state \in States /\ f.e.state # "reserved"
      BY DEF LedgerInv, Books, FoldFits, IsRecord
    <3>3. CASE f.e.state \in {"settled", "released"}
      BY <3>1, <3>3 DEF LedgerInv, FoldedOK, Shut
    <3> QED BY <3>1, <3>2, <3>3 DEF States
  <2>3. CASE r \notin DOMAIN entries \cup Gone(folded)
    <3>1. Explained(r) BY <2>3 DEF LedgerInv, Strays, IsHeld
    <3> QED BY <3>1, PlacedCalled DEF Explained
  <2> QED BY <2>1, <2>2, <2>3
<1> QED BY <1>1, <1>2, LedgerStands, PTL DEF HoldsMatchRecords
-----------------------------------------------------------------------------
(* Sums over finite sets, as in BudgetStoreProofs: no module has both.     *)

\* A nonempty set of natural numbers has a least one.
LEMMA LeastNat ==
  ASSUME NEW T, T \subseteq Nat, T # {}
  PROVE  \E n \in T : \A m \in T : n <= m
<1> DEFINE R == OpToRel(<, Nat)
<1>1. IsWellFoundedOn(R, Nat)
  BY NatLessThanWellFounded
<1>2. \E n \in T : \A m \in T : ~(<<m, n>> \in R)
  <2> HIDE DEF R
  <2> QED BY <1>1, WFMin
<1>3. PICK n \in T : \A m \in T : ~(<<m, n>> \in R)
  BY <1>2
<1>4. \A m \in T : ~(m < n)
  BY <1>3 DEF OpToRel
<1> QED BY <1>4

\* A set of subsets of a finite set that has each one whose smaller subsets it
\* has, has the whole: of those outside, one with the fewest elements would have
\* all its smaller subsets inside.
LEMMA SmallerFirst ==
  ASSUME NEW S, IsFiniteSet(S), NEW G,
         \A s \in SUBSET S : (\A r \in SUBSET s : r # s => r \in G) => s \in G
  PROVE  S \in G
<1> DEFINE T == {n \in Nat : \E s \in SUBSET S : Cardinality(s) = n /\ s \notin G}
<1>2. ASSUME T # {} PROVE FALSE
  <2>1. T \subseteq Nat
    OBVIOUS
  <2> HIDE DEF T
  <2>2. PICK n \in T : \A m \in T : n <= m
    BY <1>2, <2>1, LeastNat
  <2>3. PICK s \in SUBSET S : Cardinality(s) = n /\ s \notin G /\ n \in Nat
    BY <2>2 DEF T
  <2>4. IsFiniteSet(s)
    BY <2>3, FS_Subset
  <2>5. PICK r \in SUBSET s : r # s /\ r \notin G
    BY <2>3
  <2>6. IsFiniteSet(r) /\ Cardinality(r) \in Nat /\ Cardinality(r) < n
    <3>1. IsFiniteSet(r) /\ Cardinality(r) <= n /\ Cardinality(r) # n
      BY <2>3, <2>4, <2>5, FS_Subset
    <3>2. Cardinality(r) \in Nat
      BY <3>1, FS_CardinalityType
    <3> QED BY <2>3, <3>1, <3>2
  <2>7. Cardinality(r) \in T
    BY <2>3, <2>5, <2>6 DEF T
  <2> QED BY <2>2, <2>3, <2>6, <2>7
<1>3. S \in G \/ Cardinality(S) \in T
  BY FS_CardinalityType
<1> QED BY <1>2, <1>3

\* So has one with the empty set that has, with a set, every one of an element
\* more.
LEMMA GrowingUp ==
  ASSUME NEW S, IsFiniteSet(S), NEW G, {} \in G,
         \A s \in G : \A x \in S \ s : s \cup {x} \in G
  PROVE  S \in G
<1>1. ASSUME NEW s \in SUBSET S, \A r \in SUBSET s : r # s => r \in G
      PROVE  s \in G
  <2>1. CASE s = {}
    BY <2>1
  <2>2. CASE s # {}
    <3>1. PICK x \in s : TRUE
      BY <2>2
    <3>2. s \ {x} \in G /\ x \in S \ (s \ {x})
      BY <1>1, <3>1
    <3>3. (s \ {x}) \cup {x} = s
      BY <3>1
    <3> QED BY <3>2, <3>3
  <2> QED BY <2>1, <2>2
<1> QED BY <1>1, SmallerFirst

\* What the sum of w over S computes, one element at a time.
First(s) == CHOOSE x \in s : TRUE
Totals(w, S, t) ==
  t = [s \in SUBSET S |-> IF s = {} THEN 0 ELSE w[First(s)] + t[s \ {First(s)}]]

\* The same, for the sets of a family only.
TotalsIn(w, F, t) ==
  t = [s \in F |-> IF s = {} THEN 0 ELSE w[First(s)] + t[s \ {First(s)}]]

\* Such a computation exists: it grows with the number of elements.
LEMMA TotalsExist ==
  ASSUME NEW w, NEW S, IsFiniteSet(S)
  PROVE  \E t : Totals(w, S, t)
<1> DEFINE U(n) == {s \in SUBSET S : Cardinality(s) <= n}
           N == {n \in Nat : \E t : TotalsIn(w, U(n), t)}
           K == {s \in SUBSET S : Cardinality(s) \in N}
<1>0. \A s \in SUBSET S : IsFiniteSet(s) /\ Cardinality(s) \in Nat
  BY FS_Subset, FS_CardinalityType
<1>1. 0 \in N
  <2>1. \A s \in U(0) : s = {}
    <3>1. \A s \in U(0) : Cardinality(s) = 0 /\ IsFiniteSet(s)
      BY <1>0
    <3> QED BY <3>1, FS_EmptySet
  <2>2. TotalsIn(w, U(0), [s \in U(0) |-> 0])
    BY <2>1 DEF TotalsIn
  <2> QED BY <2>2
<1>2. ASSUME NEW n \in N PROVE n + 1 \in N
  <2>1. PICK t : TotalsIn(w, U(n), t)
    BY <1>2
  <2> DEFINE u == [s \in U(n + 1) |-> IF s = {} THEN 0 ELSE w[First(s)] + t[s \ {First(s)}]]
  <2>2. n \in Nat
    BY <1>2
  <2>3. ASSUME NEW s \in U(n + 1), s # {}
        PROVE  s \ {First(s)} \in U(n) /\ s \ {First(s)} \in U(n + 1)
    <3>1. First(s) \in s
      BY <2>3 DEF First
    <3>2. Cardinality(s \ {First(s)}) = Cardinality(s) - 1
      BY <1>0, <3>1, FS_RemoveElement
    <3>3. Cardinality(s) \in Nat /\ Cardinality(s) <= n + 1
      BY <1>0
    <3>4. Cardinality(s \ {First(s)}) <= n /\ Cardinality(s \ {First(s)}) <= n + 1
      BY <2>2, <3>2, <3>3
    <3> QED BY <3>4
  <2>4. \A r \in U(n) : t[r] = IF r = {} THEN 0 ELSE w[First(r)] + t[r \ {First(r)}]
    <3> HIDE DEF U
    <3> QED BY <2>1 DEF TotalsIn
  <2>5. \A r \in U(n) : r \in U(n + 1)
    BY <1>0, <2>2
  <2> HIDE DEF U
  <2>6. \A r \in U(n) : u[r] = t[r]
    BY <2>4, <2>5
  <2>7. \A s \in U(n + 1) :
          u[s] = IF s = {} THEN 0 ELSE w[First(s)] + u[s \ {First(s)}]
    <3> TAKE s \in U(n + 1)
    <3>1. CASE s = {}
      BY <3>1
    <3>2. CASE s # {}
      <4>1. s \ {First(s)} \in U(n)
        BY <2>3, <3>2
      <4>2. u[s] = w[First(s)] + t[s \ {First(s)}]
        BY <3>2
      <4> HIDE DEF u
      <4> QED BY <2>6, <3>2, <4>1, <4>2
    <3> QED BY <3>1, <3>2
  <2>8. TotalsIn(w, U(n + 1), u)
    <3>1. u = [s \in U(n + 1) |-> u[s]]
      OBVIOUS
    <3> HIDE DEF u
    <3> QED BY <2>7, <3>1 DEF TotalsIn
  <2> HIDE DEF u
  <2>9. n + 1 \in Nat
    BY <2>2
  <2> QED BY <2>8, <2>9
<1>3. S \in K
  <2>1. K \subseteq SUBSET S /\ {} \in K
    BY <1>1, FS_EmptySet
  <2>2. ASSUME NEW s \in K, NEW x \in S \ s PROVE s \cup {x} \in K
    <3>1. IsFiniteSet(s) /\ Cardinality(s) \in N
      BY <1>0, <2>2
    <3>2. Cardinality(s \cup {x}) = Cardinality(s) + 1
      BY <2>2, <3>1, FS_AddElement
    <3> HIDE DEF N
    <3> QED BY <1>2, <2>2, <3>1, <3>2
  <2> HIDE DEF K
  <2> QED BY <2>1, <2>2, GrowingUp
<1>4. PICK t : TotalsIn(w, U(Cardinality(S)), t)
  BY <1>3
<1>5. U(Cardinality(S)) = SUBSET S
  <2>1. ASSUME NEW s \in SUBSET S PROVE Cardinality(s) <= Cardinality(S)
    BY FS_Subset
  <2> QED BY <2>1
<1> QED BY <1>4, <1>5 DEF TotalsIn, Totals

\* Two of them agree on the sets both are about.
LEMMA TotalsAgree ==
  ASSUME NEW w, NEW S, IsFiniteSet(S), NEW T, T \subseteq S,
         NEW t, Totals(w, S, t), NEW u, Totals(w, T, u)
  PROVE  t[T] = u[T]
<1> DEFINE K == {s \in SUBSET T : t[s] = u[s]}
<1>1. ASSUME NEW s \in SUBSET T, \A r \in SUBSET s : r # s => r \in K
      PROVE  s \in K
  <2>1. CASE s = {}
    BY <2>1 DEF Totals
  <2>2. CASE s # {}
    <3>1. First(s) \in s
      BY <2>2 DEF First
    <3>2. t[s \ {First(s)}] = u[s \ {First(s)}]
      BY <1>1, <3>1
    <3>3. t[s] = w[First(s)] + t[s \ {First(s)}]
      BY <2>2 DEF Totals
    <3>4. u[s] = w[First(s)] + u[s \ {First(s)}]
      BY <2>2 DEF Totals
    <3> QED BY <3>2, <3>3, <3>4
  <2> QED BY <2>1, <2>2
<1>2. IsFiniteSet(T)
  BY FS_Subset
<1> HIDE DEF K
<1>3. T \in K
  BY <1>1, <1>2, SmallerFirst
<1> QED BY <1>3 DEF K

\* The sum of the community modules is that computation.
LEMMA SumIs ==
  ASSUME NEW w, NEW S
  PROVE  SumFunctionOnSet(w, S) = (CHOOSE t : Totals(w, S, t))[S]
BY Zenon DEF SumFunctionOnSet, FoldFunctionOnSet, MapThenFoldSet, Totals, First

\* One element at a time, whichever comes first.
LEMMA SumFirst ==
  ASSUME NEW w, NEW S, IsFiniteSet(S), S # {}
  PROVE  SumFunctionOnSet(w, S) = w[First(S)] + SumFunctionOnSet(w, S \ {First(S)})
<1> DEFINE T == S \ {First(S)}
           t == CHOOSE t : Totals(w, S, t)
           u == CHOOSE u : Totals(w, T, u)
<1>1. IsFiniteSet(T) /\ T \subseteq S
  BY FS_Subset
<1>2. Totals(w, S, t)
  <2>1. \E x : Totals(w, S, x)
    BY TotalsExist
  <2> QED BY <2>1
<1> HIDE DEF T
<1>3. Totals(w, T, u)
  <2>1. \E x : Totals(w, T, x)
    BY <1>1, TotalsExist
  <2> QED BY <2>1
<1>4. SumFunctionOnSet(w, S) = t[S] /\ SumFunctionOnSet(w, T) = u[T]
  BY SumIs
<1> HIDE DEF t, u
<1>5. t[S] = w[First(S)] + t[T]
  BY <1>2 DEF Totals, T
<1>6. t[T] = u[T]
  BY <1>1, <1>2, <1>3, TotalsAgree
<1> QED BY <1>4, <1>5, <1>6 DEF T

\* The sum over no element.
LEMMA SumNone ==
  ASSUME NEW w
  PROVE  SumFunctionOnSet(w, {}) = 0
<1> DEFINE t == CHOOSE t : Totals(w, {}, t)
<1>1. Totals(w, {}, t)
  <2>1. IsFiniteSet({})
    BY FS_EmptySet
  <2>2. \E x : Totals(w, {}, x)
    BY <2>1, TotalsExist
  <2> QED BY <2>2
<1>2. SumFunctionOnSet(w, {}) = t[{}]
  BY SumIs
<1> HIDE DEF t
<1> QED BY <1>1, <1>2 DEF Totals

\* A sum of integers is one.
LEMMA SumInt ==
  ASSUME NEW w, NEW S, IsFiniteSet(S), \A x \in S : w[x] \in Int
  PROVE  SumFunctionOnSet(w, S) \in Int
<1> DEFINE K == {s \in SUBSET S : SumFunctionOnSet(w, s) \in Int}
<1>1. ASSUME NEW s \in SUBSET S, \A r \in SUBSET s : r # s => r \in K
      PROVE  s \in K
  <2>1. CASE s = {}
    BY <2>1, SumNone
  <2>2. CASE s # {}
    <3>1. First(s) \in s
      BY <2>2 DEF First
    <3>2. SumFunctionOnSet(w, s \ {First(s)}) \in Int /\ w[First(s)] \in Int
      BY <1>1, <3>1
    <3>3. IsFiniteSet(s)
      BY FS_Subset
    <3>4. SumFunctionOnSet(w, s) = w[First(s)] + SumFunctionOnSet(w, s \ {First(s)})
      BY <2>2, <3>3, SumFirst
    <3> QED BY <3>2, <3>4
  <2> QED BY <2>1, <2>2
<1> HIDE DEF K
<1>2. S \in K
  BY <1>1, SmallerFirst
<1> QED BY <1>2 DEF K

\* Any element may come first.
LEMMA SumRemove ==
  ASSUME NEW w, NEW S, IsFiniteSet(S), \A x \in S : w[x] \in Int, NEW x \in S
  PROVE  SumFunctionOnSet(w, S) = w[x] + SumFunctionOnSet(w, S \ {x})
<1> DEFINE Sum(s) == SumFunctionOnSet(w, s)
           K == {s \in SUBSET S : \A y \in s : Sum(s) = w[y] + Sum(s \ {y})}
<1>0. \A s \in SUBSET S : IsFiniteSet(s) /\ Sum(s) \in Int
  <2> TAKE s \in SUBSET S
  <2>1. IsFiniteSet(s) /\ \A y \in s : w[y] \in Int
    BY FS_Subset
  <2> QED BY <2>1, SumInt
<1>1. ASSUME NEW s \in SUBSET S, \A r \in SUBSET s : r # s => r \in K
      PROVE  s \in K
  <2> SUFFICES ASSUME NEW y \in s PROVE Sum(s) = w[y] + Sum(s \ {y})
    OBVIOUS
  <2> DEFINE c == First(s)
  <2>1. c \in s
    BY DEF First
  <2>2. Sum(s) = w[c] + Sum(s \ {c})
    BY <1>0, SumFirst
  <2> HIDE DEF c
  <2>3. CASE y = c
    BY <2>2, <2>3
  <2>4. CASE y # c
    <3> DEFINE rest == (s \ {c}) \ {y}
    <3>1. y \in s \ {c} /\ c \in s \ {y} /\ rest = (s \ {y}) \ {c}
      BY <2>1, <2>4
    <3>2. s \ {c} \in K /\ s \ {y} \in K
      BY <1>1, <2>1
    <3>3. Sum(s \ {c}) = w[y] + Sum(rest)
      BY <3>1, <3>2
    <3>4. Sum(s \ {y}) = w[c] + Sum(rest)
      BY <3>1, <3>2
    <3>5. Sum(rest) \in Int /\ w[y] \in Int /\ w[c] \in Int
      BY <1>0, <2>1
    <3> HIDE DEF rest, Sum
    <3> QED BY <2>2, <3>3, <3>4, <3>5
  <2> QED BY <2>3, <2>4
<1> HIDE DEF K, Sum
<1>2. S \in K
  BY <1>1, SmallerFirst
<1> QED BY <1>2 DEF K, Sum

\* One element more.
LEMMA SumAdd ==
  ASSUME NEW w, NEW S, IsFiniteSet(S), NEW x, x \notin S, w[x] \in Int,
         \A y \in S : w[y] \in Int
  PROVE  SumFunctionOnSet(w, S \cup {x}) = w[x] + SumFunctionOnSet(w, S)
<1> DEFINE T == S \cup {x}
<1>1. IsFiniteSet(T) /\ x \in T /\ T \ {x} = S /\ \A y \in T : w[y] \in Int
  BY FS_AddElement
<1> HIDE DEF T
<1>2. SumFunctionOnSet(w, T) = w[x] + SumFunctionOnSet(w, T \ {x})
  BY <1>1, SumRemove
<1> QED BY <1>1, <1>2 DEF T

\* The sum depends on the values over S alone.
LEMMA SumSame ==
  ASSUME NEW w, NEW v, NEW S, IsFiniteSet(S), \A x \in S : w[x] = v[x]
  PROVE  SumFunctionOnSet(w, S) = SumFunctionOnSet(v, S)
<1> DEFINE K == {s \in SUBSET S : SumFunctionOnSet(w, s) = SumFunctionOnSet(v, s)}
<1>1. ASSUME NEW s \in SUBSET S, \A r \in SUBSET s : r # s => r \in K
      PROVE  s \in K
  <2>1. CASE s = {}
    BY <2>1, SumNone
  <2>2. CASE s # {}
    <3>1. First(s) \in s
      BY <2>2 DEF First
    <3>2. SumFunctionOnSet(w, s \ {First(s)}) = SumFunctionOnSet(v, s \ {First(s)})
          /\ w[First(s)] = v[First(s)]
      BY <1>1, <3>1
    <3>3. IsFiniteSet(s)
      BY FS_Subset
    <3>4. /\ SumFunctionOnSet(w, s) = w[First(s)] + SumFunctionOnSet(w, s \ {First(s)})
          /\ SumFunctionOnSet(v, s) = v[First(s)] + SumFunctionOnSet(v, s \ {First(s)})
      BY <2>2, <3>3, SumFirst
    <3> QED BY <3>2, <3>4
  <2> QED BY <2>1, <2>2
<1> HIDE DEF K
<1>2. S \in K
  BY <1>1, SmallerFirst
<1> QED BY <1>2 DEF K

\* The sum over two disjoint sets.
LEMMA SumJoin ==
  ASSUME NEW w, NEW S, IsFiniteSet(S), NEW T, IsFiniteSet(T), S \cap T = {},
         \A x \in S \cup T : w[x] \in Int
  PROVE  SumFunctionOnSet(w, S \cup T) = SumFunctionOnSet(w, S) + SumFunctionOnSet(w, T)
<1> DEFINE Sum(s) == SumFunctionOnSet(w, s)
           K == {s \in SUBSET T : Sum(S \cup s) = Sum(S) + Sum(s)}
<1>0. Sum(S) \in Int
  BY SumInt
<1>1. {} \in K
  <2>1. S \cup {} = S
    OBVIOUS
  <2> QED BY <1>0, <2>1, SumNone
<1>2. ASSUME NEW s \in K, NEW x \in T \ s PROVE s \cup {x} \in K
  <2>1. IsFiniteSet(s) /\ IsFiniteSet(S \cup s) /\ s \in SUBSET T
    BY <1>2, FS_Subset, FS_Union
  <2>2. Sum(s \cup {x}) = w[x] + Sum(s)
    BY <2>1, SumAdd
  <2>3. Sum((S \cup s) \cup {x}) = w[x] + Sum(S \cup s)
    BY <2>1, SumAdd
  <2>4. (S \cup s) \cup {x} = S \cup (s \cup {x})
    OBVIOUS
  <2>5. Sum(s) \in Int /\ w[x] \in Int
    BY <2>1, SumInt
  <2>6. Sum(S \cup s) = Sum(S) + Sum(s)
    BY <1>2
  <2>7. s \cup {x} \in SUBSET T
    BY <2>1
  <2>8. Sum(S \cup (s \cup {x})) = Sum(S) + Sum(s \cup {x})
    <3> DEFINE a == Sum(S)
               b == Sum(s)
    <3>1. a \in Int /\ b \in Int
      BY <1>0, <2>5
    <3>2. Sum(S \cup (s \cup {x})) = w[x] + (a + b)
      BY Zenon, <2>3, <2>4, <2>6
    <3>3. Sum(s \cup {x}) = w[x] + b
      BY Zenon, <2>2
    <3> HIDE DEF Sum, a, b
    <3>4. w[x] + (a + b) = a + (w[x] + b)
      BY <2>5, <3>1
    <3> QED BY Zenon, <3>2, <3>3, <3>4 DEF a
  <2> QED BY <2>7, <2>8
<1> HIDE DEF K, Sum
<1>3. T \in K
  BY <1>1, <1>2, GrowingUp
<1> QED BY <1>3 DEF K, Sum

\* A sum of natural numbers is one.
LEMMA SumNat ==
  ASSUME NEW w, NEW S, IsFiniteSet(S), \A x \in S : w[x] \in Nat
  PROVE  SumFunctionOnSet(w, S) \in Nat
<1> DEFINE K == {s \in SUBSET S : SumFunctionOnSet(w, s) \in Nat}
<1>1. {} \in K
  BY SumNone
<1>2. ASSUME NEW s \in K, NEW x \in S \ s PROVE s \cup {x} \in K
  <2>1. IsFiniteSet(s) /\ w[x] \in Nat /\ \A y \in s : w[y] \in Int
    BY <1>2, FS_Subset
  <2>2. SumFunctionOnSet(w, s \cup {x}) = w[x] + SumFunctionOnSet(w, s)
    BY <1>2, <2>1, SumAdd
  <2> QED BY <1>2, <2>1, <2>2
<1> HIDE DEF K
<1>3. S \in K
  BY <1>1, <1>2, GrowingUp
<1> QED BY <1>3 DEF K

\* One part more, or one value moved.
LEMMA SumMoved ==
  ASSUME NEW w, NEW v, NEW S, IsFiniteSet(S), NEW x \in S, NEW delta \in Int,
         \A y \in S : w[y] \in Int, v[x] = w[x] + delta, \A y \in S : y # x => v[y] = w[y]
  PROVE  SumFunctionOnSet(v, S) = SumFunctionOnSet(w, S) + delta
<1> DEFINE T == S \ {x}
<1>1. IsFiniteSet(T) /\ \A y \in T : v[y] = w[y] /\ w[y] \in Int
  BY FS_Subset
<1>2. SumFunctionOnSet(v, T) = SumFunctionOnSet(w, T) /\ SumFunctionOnSet(w, T) \in Int
  BY <1>1, SumSame, SumInt
<1>3. \A y \in S : v[y] \in Int
  OBVIOUS
<1>4. /\ SumFunctionOnSet(v, S) = v[x] + SumFunctionOnSet(v, S \ {x})
      /\ SumFunctionOnSet(w, S) = w[x] + SumFunctionOnSet(w, S \ {x})
  BY <1>3, SumRemove
<1> QED BY <1>2, <1>4 DEF T

\* The elements that g sends to y.
Group(S, g, y) == {x \in S : g[x] = y}

\* What S sums up to, it sums up to in groups.
LEMMA SumGrouped ==
  ASSUME NEW w, NEW S, IsFiniteSet(S), \A x \in S : w[x] \in Int,
         NEW T, IsFiniteSet(T), NEW g, \A x \in S : g[x] \in T,
         NEW v, \A y \in T : v[y] = SumFunctionOnSet(w, Group(S, g, y))
  PROVE  SumFunctionOnSet(v, T) = SumFunctionOnSet(w, S)
<1> DEFINE Within(t) == {x \in S : g[x] \in t}
           K == {t \in SUBSET T : SumFunctionOnSet(v, t) = SumFunctionOnSet(w, Within(t))}
<1>1. {} \in K
  <2>1. Within({}) = {}
    OBVIOUS
  <2> QED BY <2>1, SumNone
<1>2. ASSUME NEW t \in K, NEW y \in T \ t PROVE t \cup {y} \in K
  <2> DEFINE here == Group(S, g, y)
  <2>1. IsFiniteSet(t) /\ IsFiniteSet(Within(t)) /\ IsFiniteSet(here)
    BY <1>2, FS_Subset DEF Group
  <2>2. Within(t \cup {y}) = Within(t) \cup here /\ Within(t) \cap here = {}
    BY <1>2 DEF Group
  <2>3. v[y] = SumFunctionOnSet(w, here) /\ \A z \in t : v[z] \in Int
    <3>1. ASSUME NEW z \in T PROVE v[z] \in Int
      <4>1. IsFiniteSet(Group(S, g, z)) /\ Group(S, g, z) \subseteq S
        BY FS_Subset DEF Group
      <4>2. SumFunctionOnSet(w, Group(S, g, z)) \in Int
        BY <4>1, SumInt
      <4> QED BY <4>2
    <3> QED BY <1>2, <3>1
  <2>4. SumFunctionOnSet(w, here) \in Int /\ SumFunctionOnSet(w, Within(t)) \in Int
    <3>1. (\A x \in here : w[x] \in Int) /\ (\A x \in Within(t) : w[x] \in Int)
      BY DEF Group
    <3> HIDE DEF here, Within
    <3> QED BY <2>1, <3>1, SumInt
  <2>5. SumFunctionOnSet(v, t \cup {y}) = v[y] + SumFunctionOnSet(v, t)
    BY <1>2, <2>1, <2>3, <2>4, SumAdd
  <2>6. SumFunctionOnSet(w, Within(t) \cup here) =
          SumFunctionOnSet(w, Within(t)) + SumFunctionOnSet(w, here)
    BY <2>1, <2>2, SumJoin
  <2>7. SumFunctionOnSet(v, t) = SumFunctionOnSet(w, Within(t))
    BY <1>2
  <2>8. SumFunctionOnSet(v, t \cup {y}) = SumFunctionOnSet(w, Within(t \cup {y}))
    <3> DEFINE a == SumFunctionOnSet(w, Within(t))
               b == SumFunctionOnSet(w, here)
    <3>1. a \in Int /\ b \in Int
      BY <2>4
    <3>2. SumFunctionOnSet(w, Within(t \cup {y})) = a + b
      BY Zenon, <2>2, <2>6
    <3>3. SumFunctionOnSet(v, t \cup {y}) = b + a
      BY Zenon, <2>3, <2>5, <2>7
    <3> HIDE DEF Within, here, a, b
    <3>4. a + b = b + a
      BY <3>1
    <3> QED BY Zenon, <3>2, <3>3, <3>4
  <2> QED BY <1>2, <2>8
<1>3. T \in K
  <2> HIDE DEF K
  <2> QED BY <1>1, <1>2, GrowingUp
<1>4. Within(T) = S
  OBVIOUS
<1> QED BY <1>3, <1>4

\* The sum over a single element.
LEMMA SumOne ==
  ASSUME NEW w, NEW x, w[x] \in Int
  PROVE  SumFunctionOnSet(w, {x}) = w[x]
<1>1. IsFiniteSet({}) /\ {} \cup {x} = {x}
  BY FS_EmptySet
<1>2. SumFunctionOnSet(w, {} \cup {x}) = w[x] + SumFunctionOnSet(w, {})
  BY <1>1, SumAdd
<1> QED BY <1>1, <1>2, SumNone

\* A sum of zeros.
LEMMA SumZero ==
  ASSUME NEW w, NEW S, IsFiniteSet(S), \A x \in S : w[x] = 0
  PROVE  SumFunctionOnSet(w, S) = 0
<1> DEFINE K == {s \in SUBSET S : SumFunctionOnSet(w, s) = 0}
<1>1. {} \in K
  BY SumNone
<1>2. ASSUME NEW s \in K, NEW x \in S \ s PROVE s \cup {x} \in K
  <2>1. IsFiniteSet(s) /\ w[x] = 0 /\ \A y \in s : w[y] \in Int
    BY <1>2, FS_Subset
  <2>2. SumFunctionOnSet(w, s \cup {x}) = w[x] + SumFunctionOnSet(w, s)
    BY <1>2, <2>1, SumAdd
  <2> QED BY <1>2, <2>1, <2>2
<1> HIDE DEF K
<1>3. S \in K
  BY <1>1, <1>2, GrowingUp
<1> QED BY <1>3 DEF K

-----------------------------------------------------------------------------
(* The tightest of some budgets. *)

Limits == Nat \cup {None}

\* A limit of some of L is no higher than n.
LEMMA LowestIs ==
  ASSUME NEW L, L \subseteq Limits
  PROVE  /\ Lowest(L) \in Limits
         /\ \A n \in Nat : (Lowest(L) # None /\ Lowest(L) <= n) <=> \E x \in L : x # None /\ x <= n
<1>1. CASE L \subseteq {None}
  <2>1. Lowest(L) = None BY <1>1 DEF Lowest
  <2> QED BY <1>1, <2>1 DEF Limits
<1>2. CASE ~(L \subseteq {None})
  <2> DEFINE M == L \ {None}
             m == Min(M)
  <2>1. M \subseteq Nat /\ M # {} BY <1>2 DEF Limits
  <2>2. Lowest(L) = m BY <1>2 DEF Lowest
  <2> HIDE DEF M
  <2>3. \E x \in M : \A y \in M : x <= y BY <2>1, LeastNat
  <2>4. m \in M /\ \A y \in M : m <= y BY <2>3 DEF Min
  <2> HIDE DEF m
  <2>5. m \in Nat BY <2>1, <2>4
  <2>6. m # None BY <2>5 DEF None
  <2>7. ASSUME NEW n \in Nat PROVE m <= n <=> \E x \in L : x # None /\ x <= n
    <3>1. \A y \in M : y \in Nat BY <2>1
    <3>2. \A x \in L : x # None => x \in M BY DEF M
    <3>3. m \in L BY <2>4 DEF M
    <3> QED BY <2>4, <2>5, <2>6, <2>7, <3>1, <3>2, <3>3
  <2> QED BY <2>2, <2>5, <2>6, <2>7 DEF Limits
<1> QED BY <1>1, <1>2

\* Some budget of S bounds d by n.
Under(S, d, n) == \E b \in S : b[d] # None /\ b[d] <= n
Rejects(S) == \E b \in S : b.reject

LEMMA TightestIs ==
  ASSUME NEW S, S \subseteq Budgets
  PROVE  /\ Tightest(S) \in Budgets
         /\ \A d \in Dims, n \in Nat :
              (Tightest(S)[d] # None /\ Tightest(S)[d] <= n) <=> Under(S, d, n)
         /\ Tightest(S).reject <=> Rejects(S)
<1> DEFINE tokens == {b.tokens : b \in S}
           usd == {b.usd : b \in S}
           t == Tightest(S)
<1>1. tokens \subseteq Limits /\ usd \subseteq Limits BY DEF Budgets, Limits
<1>2. t = [tokens |-> Lowest(tokens), usd |-> Lowest(usd), reject |-> Rejects(S)]
  BY DEF Tightest, Rejects
<1>3. Rejects(S) \in BOOLEAN BY DEF Rejects
<1>4. Lowest(tokens) \in Limits /\ Lowest(usd) \in Limits BY <1>1, LowestIs
<1>5. ASSUME NEW n \in Nat
      PROVE  /\ (Lowest(tokens) # None /\ Lowest(tokens) <= n) <=> Under(S, "tokens", n)
             /\ (Lowest(usd) # None /\ Lowest(usd) <= n) <=> Under(S, "usd", n)
  <2>1. (Lowest(tokens) # None /\ Lowest(tokens) <= n) <=> \E x \in tokens : x # None /\ x <= n
    <3> HIDE DEF tokens
    <3> QED BY <1>1, LowestIs
  <2>2. (Lowest(usd) # None /\ Lowest(usd) <= n) <=> \E x \in usd : x # None /\ x <= n
    <3> HIDE DEF usd
    <3> QED BY <1>1, LowestIs
  <2>3. (\E x \in tokens : x # None /\ x <= n) <=> Under(S, "tokens", n) BY DEF Under
  <2>4. (\E x \in usd : x # None /\ x <= n) <=> Under(S, "usd", n) BY DEF Under
  <2> QED BY <2>1, <2>2, <2>3, <2>4
<1> HIDE DEF tokens, usd, t
<1>6. t \in Budgets /\ t["tokens"] = Lowest(tokens) /\ t["usd"] = Lowest(usd)
      /\ t.reject = Rejects(S)
  BY <1>2, <1>3, <1>4 DEF Budgets, Limits
<1>7. \A d \in Dims, n \in Nat : (t[d] # None /\ t[d] <= n) <=> Under(S, d, n)
  BY <1>5, <1>6 DEF Dims
<1> QED BY <1>6, <1>7 DEF t

\* Sets of budgets that bound alike have the same tightest one.
LEMMA BoundAlike ==
  ASSUME NEW S, NEW T, S \subseteq Budgets, T \subseteq Budgets,
         \A d \in Dims, n \in Nat : Under(S, d, n) <=> Under(T, d, n),
         Rejects(S) <=> Rejects(T)
  PROVE  Tightest(S) = Tightest(T)
<1> DEFINE a == Tightest(S)
           b == Tightest(T)
<1>1. /\ a \in Budgets
      /\ \A d \in Dims, n \in Nat : (a[d] # None /\ a[d] <= n) <=> Under(S, d, n)
      /\ a.reject <=> Rejects(S)
  BY TightestIs
<1>2. /\ b \in Budgets
      /\ \A d \in Dims, n \in Nat : (b[d] # None /\ b[d] <= n) <=> Under(T, d, n)
      /\ b.reject <=> Rejects(T)
  BY TightestIs
<1> HIDE DEF a, b
<1>3. ASSUME NEW d \in Dims PROVE a[d] = b[d]
  <2>1. \A n \in Nat : (a[d] # None /\ a[d] <= n) <=> (b[d] # None /\ b[d] <= n)
    BY <1>1, <1>2
  <2>2. a[d] \in Limits /\ b[d] \in Limits BY <1>1, <1>2 DEF Budgets, Dims, Limits
  <2>3. a[d] # None => b[d] # None /\ b[d] <= a[d] BY <2>1, <2>2 DEF Limits
  <2>4. b[d] # None => a[d] # None /\ a[d] <= b[d] BY <2>1, <2>2 DEF Limits
  <2> QED BY <2>2, <2>3, <2>4 DEF Limits, None
<1>4. a.tokens = b.tokens /\ a.usd = b.usd BY <1>3 DEF Dims
<1>5. a.reject = b.reject BY <1>1, <1>2 DEF Budgets
<1>6. a = [tokens |-> a.tokens, usd |-> a.usd, reject |-> a.reject]
      /\ b = [tokens |-> b.tokens, usd |-> b.usd, reject |-> b.reject]
  BY <1>1, <1>2 DEF Budgets
<1> QED BY <1>4, <1>5, <1>6 DEF a, b

LEMMA TightestOfNone == Tightest({}) = NoBudget
BY DEF Tightest, Lowest, NoBudget

LEMMA TightestOfOne ==
  ASSUME NEW b \in Budgets
  PROVE  Tightest({b}) = b
<1> DEFINE t == Tightest({b})
<1>1. /\ t \in Budgets
      /\ \A d \in Dims, n \in Nat : (t[d] # None /\ t[d] <= n) <=> Under({b}, d, n)
      /\ t.reject <=> Rejects({b})
  BY TightestIs
<1> HIDE DEF t
<1>2. \A d \in Dims, n \in Nat : (t[d] # None /\ t[d] <= n) <=> (b[d] # None /\ b[d] <= n)
  BY <1>1 DEF Under
<1>3. ASSUME NEW d \in Dims PROVE t[d] = b[d]
  <2>1. t[d] \in Limits /\ b[d] \in Limits BY <1>1 DEF Budgets, Dims, Limits
  <2>2. t[d] # None => b[d] # None /\ b[d] <= t[d] BY <1>2, <2>1 DEF Limits
  <2>3. b[d] # None => t[d] # None /\ t[d] <= b[d] BY <1>2, <2>1 DEF Limits
  <2> QED BY <2>1, <2>2, <2>3 DEF Limits, None
<1>4. t.tokens = b.tokens /\ t.usd = b.usd BY <1>3 DEF Dims
<1>5. t.reject = b.reject BY <1>1 DEF Rejects, Budgets
<1>6. t = [tokens |-> t.tokens, usd |-> t.usd, reject |-> t.reject]
      /\ b = [tokens |-> b.tokens, usd |-> b.usd, reject |-> b.reject]
  BY <1>1 DEF Budgets
<1> QED BY <1>4, <1>5, <1>6 DEF t

\* Sets of budgets may be tightened one by one first.
LEMMA TightestInTurn ==
  ASSUME NEW Q, Q \subseteq Budgets, NEW P, \A S \in P : S \subseteq Budgets
  PROVE  Tightest(Q \cup {Tightest(S) : S \in P}) = Tightest(Q \cup UNION P)
<1> DEFINE T == Q \cup {Tightest(S) : S \in P}
           U == Q \cup UNION P
<1>1. \A S \in P : /\ Tightest(S) \in Budgets
                   /\ \A d \in Dims, n \in Nat :
                        (Tightest(S)[d] # None /\ Tightest(S)[d] <= n) <=> Under(S, d, n)
                   /\ Tightest(S).reject <=> Rejects(S)
  BY TightestIs
<1>2. T \subseteq Budgets /\ U \subseteq Budgets BY <1>1
<1>3. ASSUME NEW d \in Dims, NEW n \in Nat PROVE Under(T, d, n) <=> Under(U, d, n)
  <2>1. Under(T, d, n) <=> Under(Q, d, n) \/ \E S \in P : Under(S, d, n)
    BY <1>1 DEF Under
  <2>2. Under(U, d, n) <=> Under(Q, d, n) \/ \E S \in P : Under(S, d, n)
    BY DEF Under
  <2> QED BY <2>1, <2>2
<1>4. Rejects(T) <=> Rejects(U) BY <1>1 DEF Rejects
<1> HIDE DEF T, U
<1> QED BY <1>2, <1>3, <1>4, BoundAlike DEF T, U

LEMMA TightestAfter ==
  ASSUME NEW S, S \subseteq Budgets, NEW Q, Q \subseteq Budgets
  PROVE  Tightest({Tightest(S)} \cup Q) = Tightest(S \cup Q)
<1>1. Tightest(Q \cup {Tightest(s) : s \in {S}}) = Tightest(Q \cup UNION {S})
  <2>1. \A s \in {S} : s \subseteq Budgets OBVIOUS
  <2> QED BY <2>1, TightestInTurn
<1>2. Q \cup {Tightest(s) : s \in {S}} = {Tightest(S)} \cup Q /\ Q \cup UNION {S} = S \cup Q
  OBVIOUS
<1> QED BY <1>1, <1>2

\* Smaller values sum up to less.
LEMMA SumLess ==
  ASSUME NEW w, NEW v, NEW S, IsFiniteSet(S), \A x \in S : w[x] \in Int /\ v[x] \in Int /\ w[x] <= v[x]
  PROVE  SumFunctionOnSet(w, S) <= SumFunctionOnSet(v, S)
<1> DEFINE K == {s \in SUBSET S : SumFunctionOnSet(w, s) <= SumFunctionOnSet(v, s)}
<1>1. {} \in K
  BY SumNone
<1>2. ASSUME NEW s \in K, NEW x \in S \ s PROVE s \cup {x} \in K
  <2>1. IsFiniteSet(s) /\ \A y \in s : w[y] \in Int /\ v[y] \in Int
    BY <1>2, FS_Subset
  <2>2. /\ SumFunctionOnSet(w, s \cup {x}) = w[x] + SumFunctionOnSet(w, s)
        /\ SumFunctionOnSet(v, s \cup {x}) = v[x] + SumFunctionOnSet(v, s)
    BY <1>2, <2>1, SumAdd
  <2>3. SumFunctionOnSet(w, s) \in Int /\ SumFunctionOnSet(v, s) \in Int
    BY <2>1, SumInt
  <2> QED BY <1>2, <2>2, <2>3
<1>3. S \in K
  <2> HIDE DEF K
  <2> QED BY <1>1, <1>2, GrowingUp
<1> QED BY <1>3

\* There are finitely many of what finitely many are mapped to.
LEMMA ImageIsFinite ==
  ASSUME NEW R, IsFiniteSet(R), NEW to
  PROVE  IsFiniteSet({to[r] : r \in R})
<1> DEFINE Im(s) == {to[r] : r \in s}
           K == {s \in SUBSET R : IsFiniteSet(Im(s))}
<1>1. {} \in K
  <2>1. Im({}) = {} OBVIOUS
  <2> QED BY <2>1, FS_EmptySet
<1>2. ASSUME NEW s \in K, NEW x \in R \ s PROVE s \cup {x} \in K
  <2>1. Im(s \cup {x}) = Im(s) \cup {to[x]} OBVIOUS
  <2>2. IsFiniteSet(Im(s)) /\ s \cup {x} \in SUBSET R BY <1>2
  <2> HIDE DEF Im
  <2>3. IsFiniteSet(Im(s) \cup {to[x]}) BY <2>2, FS_AddElement
  <2> QED BY <2>1, <2>2, <2>3
<1>3. R \in K
  <2> HIDE DEF K
  <2> QED BY <1>1, <1>2, GrowingUp
<1> QED BY <1>3

\* A sum over R is one over what R is mapped to, one to one.
LEMMA SumOver ==
  ASSUME NEW R, IsFiniteSet(R), NEW to, \A q, r \in R : to[q] = to[r] => q = r,
         NEW w, NEW v, \A r \in R : v[r] \in Int /\ w[to[r]] = v[r]
  PROVE  SumFunctionOnSet(w, {to[r] : r \in R}) = SumFunctionOnSet(v, R)
<1> DEFINE Im(s) == {to[r] : r \in s}
           K == {s \in SUBSET R : SumFunctionOnSet(w, Im(s)) = SumFunctionOnSet(v, s)}
<1>1. {} \in K
  <2>1. Im({}) = {} OBVIOUS
  <2> QED BY <2>1, SumNone
<1>2. ASSUME NEW s \in K, NEW x \in R \ s PROVE s \cup {x} \in K
  <2>1. IsFiniteSet(s) /\ \A y \in s : v[y] \in Int
    BY <1>2, FS_Subset
  <2>2. IsFiniteSet(Im(s)) BY <2>1, ImageIsFinite
  <2>3. to[x] \notin Im(s) /\ Im(s \cup {x}) = Im(s) \cup {to[x]}
    BY <1>2
  <2>4. \A y \in Im(s) : w[y] \in Int
    BY <1>2
  <2>5. w[to[x]] = v[x] /\ v[x] \in Int BY <1>2
  <2>6. SumFunctionOnSet(w, Im(s)) = SumFunctionOnSet(v, s) BY <1>2
  <2>8. s \cup {x} \in SUBSET R BY <1>2
  <2> HIDE DEF Im
  <2>7. /\ SumFunctionOnSet(w, Im(s) \cup {to[x]}) = w[to[x]] + SumFunctionOnSet(w, Im(s))
        /\ SumFunctionOnSet(v, s \cup {x}) = v[x] + SumFunctionOnSet(v, s)
    BY <1>2, <2>1, <2>2, <2>3, <2>4, <2>5, SumAdd
  <2> QED BY <2>3, <2>5, <2>6, <2>7, <2>8
<1>3. R \in K
  <2> HIDE DEF K
  <2> QED BY <1>1, <1>2, GrowingUp
<1> QED BY <1>3

\* So many are the ones R is mapped to.
LEMMA AsMany ==
  ASSUME NEW R, IsFiniteSet(R), NEW to, \A q, r \in R : to[q] = to[r] => q = r
  PROVE  Cardinality({to[r] : r \in R}) = Cardinality(R)
<1> DEFINE Im(s) == {to[r] : r \in s}
           K == {s \in SUBSET R : Cardinality(Im(s)) = Cardinality(s)}
<1>1. {} \in K
  <2>1. Im({}) = {} OBVIOUS
  <2> QED BY <2>1
<1>2. ASSUME NEW s \in K, NEW x \in R \ s PROVE s \cup {x} \in K
  <2>1. IsFiniteSet(s) BY <1>2, FS_Subset
  <2>2. IsFiniteSet(Im(s)) BY <2>1, ImageIsFinite
  <2>3. to[x] \notin Im(s) /\ Im(s \cup {x}) = Im(s) \cup {to[x]}
    BY <1>2
  <2>4. Cardinality(Im(s)) = Cardinality(s) /\ s \cup {x} \in SUBSET R BY <1>2
  <2> HIDE DEF Im
  <2>5. Cardinality(Im(s) \cup {to[x]}) = Cardinality(Im(s)) + 1
        /\ Cardinality(s \cup {x}) = Cardinality(s) + 1
    BY <1>2, <2>1, <2>2, <2>3, FS_AddElement
  <2> QED BY <2>3, <2>4, <2>5
<1>3. R \in K
  <2> HIDE DEF K
  <2> QED BY <1>1, <1>2, GrowingUp
<1> QED BY <1>3

\* Of two disjoint sets there are as many elements as of both.
LEMMA Together ==
  ASSUME NEW S, IsFiniteSet(S), NEW T, IsFiniteSet(T), S \cap T = {}
  PROVE  Cardinality(S \cup T) = Cardinality(S) + Cardinality(T)
<1>1. Cardinality(S \cup T) = Cardinality(S) + Cardinality(T) - Cardinality(S \cap T)
  BY FS_Union
<1>2. Cardinality(S \cap T) = 0 BY FS_EmptySet
<1>3. Cardinality(S) \in Nat /\ Cardinality(T) \in Nat BY FS_CardinalityType
<1> QED BY <1>1, <1>2, <1>3

\* There is an element of S that is not in a part of it iff there are more.
LEMMA SomeMore ==
  ASSUME NEW S, IsFiniteSet(S), NEW T, T \subseteq S
  PROVE  Cardinality(S) - Cardinality(T) > 0 <=> \E x \in S : x \notin T
<1>1. IsFiniteSet(T) /\ Cardinality(T) <= Cardinality(S)
      /\ (Cardinality(S) = Cardinality(T) => S = T)
  BY FS_Subset
<1>2. Cardinality(S) \in Nat /\ Cardinality(T) \in Nat BY <1>1, FS_CardinalityType
<1> QED BY <1>1, <1>2
-----------------------------------------------------------------------------
(* What an aggregate stands for. *)

Kept(F, c) == {f \in F : ChainIds(f.keep) = c}
Unestimated(F, d) == {f \in F : NoAmount(f.e, d)}
Unpriced(F) == {f \in F : f.e.state # "released" /\ UnpricedUsd(f.e)}

\* The records folded into the aggregate a, whose scopes are c.
SumsUp(a, c, G) ==
  /\ ChainIds(a.chain) = c
  /\ \A i \in DOMAIN c : a.chain[i].budget = Tightest({f.keep[i].budget : f \in G})
  /\ \A d \in Dims : /\ a.committed[d] = Charged(G, d)
                     /\ a.unestimated[d] = Cardinality(Unestimated(G, d))
  /\ a.unpriced = Cardinality(Unpriced(G))

Dropped(f) == f.keep = <<>> /\ f.e.state = "released"
ScopeSeqs == Seq([id : STRING \ {Whole}, budget : Budgets])
Folding(A, F) ==
  /\ IsFiniteSet(F) /\ IsFiniteSet(DOMAIN A)
  /\ \A f \in F : IsRecord(f.e) /\ f.keep \in ScopeSeqs
  /\ \A f \in F : ChainIds(f.keep) \in DOMAIN A \/ Dropped(f)
  /\ \A c \in DOMAIN A : SumsUp(A[c], c, Kept(F, c))

LedgerFolds ==
  /\ IsFiniteSet(DOMAIN entries) /\ IsFiniteSet(DOMAIN disk.entries)
  /\ Folding(aggs, folded) /\ Folding(disk.aggs, disk.folded)

LEMMA ChargeIs ==
  ASSUME LedgerAssumption, NEW e, IsRecord(e), NEW d \in Dims
  PROVE  ChargeOf(e, d) \in Nat
<1>1. e.in.est \in Quantities /\ e.actual \in Quantities BY DEF IsRecord, LedgerAssumption
<1>2. e.in.est[d] \in Nat \cup {None} /\ e.actual[d] \in Nat \cup {None} BY <1>1, QuantityIs
<1> QED BY <1>2 DEF ChargeOf, OrZero, None

LEMMA ChargedIs ==
  ASSUME LedgerAssumption, NEW F, IsFiniteSet(F), \A f \in F : IsRecord(f.e), NEW d \in Dims
  PROVE  Charged(F, d) \in Nat
<1> DEFINE w == [f \in F |-> ChargeOf(f.e, d)]
<1>1. \A f \in F : w[f] \in Nat BY ChargeIs
<1> HIDE DEF w
<1>2. SumFunctionOnSet(w, F) \in Nat BY <1>1, SumNat
<1> QED BY <1>2 DEF Charged, w

\* What two parts of the records are charged is charged to the whole.
Apart(F, G) ==
  /\ IsFiniteSet(F) /\ IsFiniteSet(G) /\ F \cap G = {}
  /\ \A f \in F \cup G : IsRecord(f.e)
AddUp(F, G, d) == Charged(F \cup G, d) = Charged(F, d) + Charged(G, d)
LEMMA ChargedJoin ==
  ASSUME LedgerAssumption, NEW F, NEW G, Apart(F, G), NEW d \in Dims
  PROVE  AddUp(F, G, d)
<1> DEFINE w == [f \in F \cup G |-> ChargeOf(f.e, d)]
           u == [f \in F |-> ChargeOf(f.e, d)]
           v == [f \in G |-> ChargeOf(f.e, d)]
<1>5. IsFiniteSet(F) /\ IsFiniteSet(G) /\ F \cap G = {} BY DEF Apart
<1>1. /\ \A f \in F \cup G : w[f] \in Int
      /\ \A f \in F : u[f] = w[f]
      /\ \A f \in G : v[f] = w[f]
  <2>1. \A f \in F \cup G : ChargeOf(f.e, d) \in Nat BY ChargeIs DEF Apart
  <2> QED BY <2>1
<1>4. Charged(F \cup G, d) = SumFunctionOnSet(w, F \cup G) /\ Charged(F, d) = SumFunctionOnSet(u, F)
      /\ Charged(G, d) = SumFunctionOnSet(v, G)
  BY Zenon DEF Charged
<1> HIDE DEF w, u, v
<1>2. SumFunctionOnSet(w, F \cup G) = SumFunctionOnSet(w, F) + SumFunctionOnSet(w, G)
  BY <1>1, <1>5, SumJoin
<1>3. SumFunctionOnSet(u, F) = SumFunctionOnSet(w, F) /\ SumFunctionOnSet(v, G) = SumFunctionOnSet(w, G)
  BY <1>1, <1>5, SumSame
<1> QED BY <1>2, <1>3, <1>4 DEF AddUp

\* What was dropped counts for nothing.
LEMMA DroppedIsNothing ==
  ASSUME NEW F, IsFiniteSet(F), \A f \in F : Dropped(f), NEW d \in Dims
  PROVE  Charged(F, d) = 0 /\ Unestimated(F, d) = {} /\ Unpriced(F) = {}
<1> DEFINE w == [f \in F |-> ChargeOf(f.e, d)]
<1>1. \A f \in F : w[f] = 0 BY DEF Dropped, ChargeOf
<1>3. Charged(F, d) = SumFunctionOnSet(w, F) BY Zenon DEF Charged
<1> HIDE DEF w
<1>2. SumFunctionOnSet(w, F) = 0 BY <1>1, SumZero
<1> QED BY <1>2, <1>3 DEF Unestimated, Unpriced, NoAmount, Dropped

\* Which scopes a chain is charged to is a matter of their ids.
LEMMA InScopeIs ==
  ASSUME NEW chain, NEW c, ChainIds(chain) = c, NEW s
  PROVE  /\ InScope(chain, s) <=> s = Whole \/ \E i \in DOMAIN c : c[i] = s
         /\ DOMAIN chain = DOMAIN c /\ \A i \in DOMAIN c : chain[i].id = c[i]
BY DEF ChainIds, InScope

LEMMA BudgetAt ==
  ASSUME NEW chain \in ScopeSeqs, NEW i \in DOMAIN chain
  PROVE  chain[i].budget \in Budgets
<1> DEFINE Scopes == [id : STRING \ {Whole}, budget : Budgets]
<1>1. chain \in Seq(Scopes) BY Zenon DEF ScopeSeqs
<1> HIDE DEF Scopes
<1>2. DOMAIN chain = 1..Len(chain) BY <1>1, LenProperties
<1>3. chain[i] \in Scopes BY <1>1, <1>2, ElementOfSeq
<1> QED BY <1>3 DEF Scopes

\* H is folded into what a stands for.
LEMMA MoreSumsUp ==
  ASSUME LedgerAssumption, NEW a, NEW b, NEW c, NEW G, IsFiniteSet(G), NEW H, IsFiniteSet(H),
         G \cap H = {}, \A f \in G \cup H : IsRecord(f.e) /\ f.keep \in ScopeSeqs /\ ChainIds(f.keep) = c,
         SumsUp(a, c, G), ChainIds(b.chain) = c,
         \A i \in DOMAIN c :
           b.chain[i].budget = Tightest({a.chain[i].budget} \cup {f.keep[i].budget : f \in H}),
         \A d \in Dims : /\ b.committed[d] = a.committed[d] + Charged(H, d)
                         /\ b.unestimated[d] = a.unestimated[d] + Cardinality(Unestimated(H, d)),
         b.unpriced = a.unpriced + Cardinality(Unpriced(H))
  PROVE  SumsUp(b, c, G \cup H)
<1>1. ASSUME NEW i \in DOMAIN c
      PROVE  b.chain[i].budget = Tightest({f.keep[i].budget : f \in G \cup H})
  <2> DEFINE P == {f.keep[i].budget : f \in G}
             Q == {f.keep[i].budget : f \in H}
  <2>1. ASSUME NEW f \in G \cup H PROVE f.keep[i].budget \in Budgets
    <3>1. f.keep \in ScopeSeqs /\ DOMAIN f.keep = DOMAIN c BY DEF ChainIds
    <3> QED BY <1>1, <3>1, BudgetAt
  <2>2. P \subseteq Budgets /\ Q \subseteq Budgets BY <2>1
  <2>3. a.chain[i].budget = Tightest(P) BY <1>1 DEF SumsUp
  <2>4. b.chain[i].budget = Tightest({Tightest(P)} \cup Q) BY <1>1, <2>3
  <2>5. P \cup Q = {f.keep[i].budget : f \in G \cup H} OBVIOUS
  <2> HIDE DEF P, Q
  <2>6. Tightest({Tightest(P)} \cup Q) = Tightest(P \cup Q) BY <2>2, TightestAfter
  <2> QED BY <2>4, <2>5, <2>6
<1>4. IsFiniteSet(G) /\ IsFiniteSet(H) /\ G \cap H = {} /\ LedgerAssumption
      /\ \A f \in G \cup H : IsRecord(f.e)
  OBVIOUS
<1>2. ASSUME NEW d \in Dims
      PROVE  /\ b.committed[d] = Charged(G \cup H, d)
             /\ b.unestimated[d] = Cardinality(Unestimated(G \cup H, d))
  <2>1. Charged(G \cup H, d) = Charged(G, d) + Charged(H, d) 
    <3>1. Apart(G, H) BY <1>4 DEF Apart
    <3>2. AddUp(G, H, d) BY <3>1, ChargedJoin
    <3> QED BY <3>2 DEF AddUp
  <2>2. Unestimated(G \cup H, d) = Unestimated(G, d) \cup Unestimated(H, d)
        /\ Unestimated(G, d) \cap Unestimated(H, d) = {}
        /\ Unestimated(G, d) \subseteq G /\ Unestimated(H, d) \subseteq H
    BY DEF Unestimated
  <2>5. IsFiniteSet(Unestimated(G, d)) /\ IsFiniteSet(Unestimated(H, d)) BY <2>2, FS_Subset
  <2>3. Cardinality(Unestimated(G \cup H, d)) =
          Cardinality(Unestimated(G, d)) + Cardinality(Unestimated(H, d))
    BY <2>2, <2>5, Together
  <2>4. a.committed[d] = Charged(G, d) /\ a.unestimated[d] = Cardinality(Unestimated(G, d))
    BY DEF SumsUp
  <2> QED BY <2>1, <2>3, <2>4
<1>3. b.unpriced = Cardinality(Unpriced(G \cup H))
  <2>2. Unpriced(G \cup H) = Unpriced(G) \cup Unpriced(H) /\ Unpriced(G) \cap Unpriced(H) = {}
        /\ Unpriced(G) \subseteq G /\ Unpriced(H) \subseteq H
    BY DEF Unpriced
  <2>5. IsFiniteSet(Unpriced(G)) /\ IsFiniteSet(Unpriced(H)) BY <2>2, FS_Subset
  <2>3. Cardinality(Unpriced(G \cup H)) = Cardinality(Unpriced(G)) + Cardinality(Unpriced(H))
    BY <2>2, <2>5, Together
  <2>4. a.unpriced = Cardinality(Unpriced(G)) BY DEF SumsUp
  <2> QED BY <2>3, <2>4
<1> QED BY <1>1, <1>2, <1>3 DEF SumsUp

LEMMA DroppedHere ==
  ASSUME NEW f, Dropped(f), NEW c, ChainIds(f.keep) = c
  PROVE  DOMAIN c = {}
BY DEF Dropped, ChainIds

LEMMA DroppedMore ==
  ASSUME LedgerAssumption, NEW a, NEW c, NEW G, IsFiniteSet(G), NEW H, IsFiniteSet(H),
         G \cap H = {}, \A f \in G \cup H : IsRecord(f.e) /\ f.keep \in ScopeSeqs /\ ChainIds(f.keep) = c,
         SumsUp(a, c, G), \A f \in H : Dropped(f)
  PROVE  SumsUp(a, c, G \cup H)
<1>1. CASE H = {}
  <2>1. G \cup H = G BY <1>1
  <2> QED BY <2>1
<1>2. CASE H # {}
  <2>1. DOMAIN c = {} BY <1>2, DroppedHere
  <2>2. \A d \in Dims : Charged(H, d) = 0 /\ Unestimated(H, d) = {} /\ Unpriced(H) = {}
    BY DroppedIsNothing
  <2>3. Cardinality({}) = 0 BY FS_EmptySet
  <2>4. ASSUME NEW d \in Dims
        PROVE  /\ a.committed[d] = a.committed[d] + Charged(H, d)
               /\ a.unestimated[d] = a.unestimated[d] + Cardinality(Unestimated(H, d))
    <3>1. a.committed[d] = Charged(G, d) /\ a.unestimated[d] = Cardinality(Unestimated(G, d))
      BY DEF SumsUp
    <3>5. \A f \in G : IsRecord(f.e) OBVIOUS
    <3>2. Charged(G, d) \in Nat BY <3>5, ChargedIs
    <3>6. Charged(H, d) = 0 /\ Cardinality(Unestimated(H, d)) = 0 BY <2>2, <2>3
    <3>3. Unestimated(G, d) \subseteq G BY DEF Unestimated
    <3>4. Cardinality(Unestimated(G, d)) \in Nat BY <3>3, FS_Subset, FS_CardinalityType
    <3> QED BY <3>1, <3>2, <3>4, <3>6
  <2>5. a.unpriced = a.unpriced + Cardinality(Unpriced(H))
    <3>1. a.unpriced = Cardinality(Unpriced(G)) BY DEF SumsUp
    <3>2. Unpriced(G) \subseteq G BY DEF Unpriced
    <3>3. Cardinality(Unpriced(G)) \in Nat BY <3>2, FS_Subset, FS_CardinalityType
    <3>4. "usd" \in Dims BY DEF Dims
    <3>5. Cardinality(Unpriced(H)) = 0 BY <2>2, <2>3, <3>4
    <3> QED BY <3>1, <3>3, <3>5
  <2>6. ChainIds(a.chain) = c BY DEF SumsUp
  <2> QED BY <2>1, <2>4, <2>5, <2>6, MoreSumsUp
<1> QED BY <1>1, <1>2

\* What was folded before there is an aggregate of these scopes.
LEMMA NoneYet ==
  ASSUME NEW A, NEW F, Folding(A, F), NEW chain, ChainIds(chain) \notin DOMAIN A
  PROVE  SumsUp(NoAggregate(chain), ChainIds(chain), Kept(F, ChainIds(chain)))
<1> DEFINE c == ChainIds(chain)
           G == Kept(F, c)
           a == NoAggregate(chain)
<1>0. c \notin DOMAIN A OBVIOUS
<1>1. DOMAIN c = DOMAIN chain /\ \A i \in DOMAIN c : c[i] = chain[i].id BY DEF ChainIds
<1>2. c = [i \in DOMAIN c |-> c[i]] BY DEF ChainIds
<1>3. /\ a.chain = [i \in DOMAIN chain |-> [id |-> chain[i].id, budget |-> NoBudget]]
      /\ a.committed = [d \in Dims |-> 0] /\ a.unestimated = [d \in Dims |-> 0] /\ a.unpriced = 0
  BY DEF NoAggregate
<1> HIDE DEF c, a
<1>4. ChainIds(a.chain) = c /\ \A i \in DOMAIN c : a.chain[i].budget = NoBudget
  BY <1>1, <1>2, <1>3 DEF ChainIds
<1>5. IsFiniteSet(G)
  <2>1. IsFiniteSet(F) /\ G \subseteq F BY DEF Folding, Kept
  <2> QED BY <2>1, FS_Subset
<1>6. \A f \in G : Dropped(f) /\ ChainIds(f.keep) = c BY <1>0 DEF Folding, Kept
<1> HIDE DEF G
<1>7. ASSUME NEW i \in DOMAIN c PROVE a.chain[i].budget = Tightest({f.keep[i].budget : f \in G})
  <2>1. G = {} BY <1>6, <1>7, DroppedHere
  <2>2. {f.keep[i].budget : f \in G} = {} BY <2>1
  <2> QED BY <1>4, <1>7, <2>2, TightestOfNone
<1>8. \A d \in Dims : Charged(G, d) = 0 /\ Unestimated(G, d) = {} /\ Unpriced(G) = {}
  BY <1>5, <1>6, DroppedIsNothing
<1>9. Cardinality({}) = 0 BY FS_EmptySet
<1>10. \A d \in Dims : a.committed[d] = Charged(G, d)
                       /\ a.unestimated[d] = Cardinality(Unestimated(G, d))
  BY <1>3, <1>8, <1>9
<1>11. a.unpriced = Cardinality(Unpriced(G))
  <2>1. "usd" \in Dims BY DEF Dims
  <2> QED BY <1>3, <1>8, <1>9, <2>1
<1> QED BY <1>4, <1>7, <1>10, <1>11 DEF SumsUp, c, a, G

-----------------------------------------------------------------------------
(* What a compaction folds. *)

\* The records R, as they are folded.
FoldedAs(new, m, R) == {[n |-> m, e |-> new[r].e, keep |-> new[r].chain] : r \in R}
Foldable(new, R, c) ==
  /\ IsFiniteSet(R)
  /\ \A r \in R : IsRecord(new[r].e) /\ new[r].chain \in ScopeSeqs /\ ChainIds(new[r].chain) = c
  /\ \A q, r \in R : new[q].e = new[r].e => q = r
Totalled(b, old, c, H) ==
  /\ ChainIds(b.chain) = c
  /\ \A i \in DOMAIN c :
       b.chain[i].budget = Tightest({old[i].budget} \cup {f.keep[i].budget : f \in H})
  /\ \A d \in Dims : /\ b.committed[d] = Charged(H, d)
                     /\ b.unestimated[d] = Cardinality(Unestimated(H, d))
  /\ b.unpriced = Cardinality(Unpriced(H))

LEMMA FoldInTotals ==
  ASSUME LedgerAssumption, NEW new, NEW m, NEW R, NEW c, Foldable(new, R, c),
         NEW old, ChainIds(old) = c
  PROVE  Totalled(FoldIn(old, new, R), old, c, FoldedAs(new, m, R))
<1> DEFINE b == FoldIn(old, new, R)
           H == FoldedAs(new, m, R)
           to == [r \in R |-> [n |-> m, e |-> new[r].e, keep |-> new[r].chain]]
           Without(d) == {r \in R : NoAmount(new[r].e, d)}
           NoPriceYet == {r \in R : new[r].e.state # "released" /\ UnpricedUsd(new[r].e)}
           amount(d) == [r \in R |-> ChargeOf(new[r].e, d)]
           charge(d) == [f \in H |-> ChargeOf(f.e, d)]
<1>1. DOMAIN old = DOMAIN c /\ \A i \in DOMAIN c : old[i].id = c[i] BY DEF ChainIds
<1>2. c = [i \in DOMAIN c |-> c[i]] BY DEF ChainIds
<1>3. /\ b.chain = [i \in DOMAIN old |->
                     [id |-> old[i].id,
                      budget |-> Tightest({k[i].budget : k \in {old} \cup {new[r].chain : r \in R}})]]
      /\ \A d \in Dims : b.committed[d] = SumFunctionOnSet(amount(d), R)
                         /\ b.unestimated[d] = Cardinality(Without(d))
      /\ b.unpriced = Cardinality(NoPriceYet)
  BY DEF FoldIn
<1>4. IsFiniteSet(R) /\ \A r \in R : IsRecord(new[r].e)
  BY DEF Foldable
<1>5. \A q, r \in R : to[q] = to[r] => q = r
  <2> SUFFICES ASSUME NEW q \in R, NEW r \in R, to[q] = to[r] PROVE q = r OBVIOUS
  <2>1. to[q].e = new[q].e /\ to[r].e = new[r].e OBVIOUS
  <2> QED BY <2>1 DEF Foldable
<1>6. H = {to[r] : r \in R} BY DEF FoldedAs
<1>7. \A r \in R : to[r].e = new[r].e /\ to[r].keep = new[r].chain OBVIOUS
<1>8. \A d \in Dims : Charged(H, d) = SumFunctionOnSet(charge(d), H) BY Zenon DEF Charged
<1>9. ASSUME NEW d \in Dims PROVE Unestimated(H, d) = {to[r] : r \in Without(d)}
  BY <1>6, <1>7 DEF Unestimated
<1>10. Unpriced(H) = {to[r] : r \in NoPriceYet}
  BY <1>6, <1>7 DEF Unpriced
<1>11. Without("usd") \subseteq R /\ \A d \in Dims : Without(d) \subseteq R OBVIOUS
<1>12. ASSUME NEW S, S \subseteq R PROVE Cardinality({to[r] : r \in S}) = Cardinality(S)
  <2> HIDE DEF to
  <2>1. IsFiniteSet(S) BY <1>4, <1>12, FS_Subset
  <2>2. \A q, r \in S : to[q] = to[r] => q = r BY <1>5, <1>12
  <2> QED BY ONLY <2>1, <2>2, AsMany
<1>14. Cardinality({to[r] : r \in NoPriceYet}) = Cardinality(NoPriceYet)
  <2>1. NoPriceYet \subseteq R OBVIOUS
  <2> HIDE DEF to, NoPriceYet
  <2> QED BY <2>1, <1>12
<1>13. ASSUME NEW d \in Dims
       PROVE  \A r \in R : amount(d)[r] \in Int /\ charge(d)[to[r]] = amount(d)[r]
  <2> SUFFICES ASSUME NEW r \in R PROVE amount(d)[r] \in Int /\ charge(d)[to[r]] = amount(d)[r] OBVIOUS
  <2>1. ChargeOf(new[r].e, d) \in Nat BY <1>4, ChargeIs
  <2>2. to[r] \in H /\ to[r].e = new[r].e BY <1>6, <1>7
  <2>3. amount(d)[r] = ChargeOf(new[r].e, d) OBVIOUS
  <2> HIDE DEF H, to
  <2>4. charge(d)[to[r]] = ChargeOf(to[r].e, d) BY <2>2
  <2> QED BY <2>1, <2>2, <2>3, <2>4
<1>15. ASSUME NEW i \in DOMAIN c
       PROVE  /\ b.chain[i].id = c[i]
              /\ b.chain[i].budget = Tightest({old[i].budget} \cup {f.keep[i].budget : f \in H})
  <2> DEFINE A == {k[i].budget : k \in {old} \cup {new[r].chain : r \in R}}
             B == {f.keep[i].budget : f \in H}
  <2>1. A = {old[i].budget} \cup {new[r].chain[i].budget : r \in R} OBVIOUS
  <2>2. B = {new[r].chain[i].budget : r \in R}
    <3> HIDE DEF to
    <3> QED BY <1>6, <1>7
  <2>3. A = {old[i].budget} \cup B BY <2>1, <2>2
  <2>4. b.chain[i] = [id |-> old[i].id, budget |-> Tightest(A)] BY <1>1, <1>3, <1>15
  <2> HIDE DEF A, b
  <2> QED BY <1>1, <1>15, <2>3, <2>4
<1>16. DOMAIN b.chain = DOMAIN c BY <1>1, <1>3
<1> HIDE DEF b, H, to, Without, NoPriceYet, amount, charge
<1>17. ChainIds(b.chain) = c BY <1>2, <1>15, <1>16 DEF ChainIds
<1>18. ASSUME NEW d \in Dims
       PROVE  b.committed[d] = Charged(H, d) /\ b.unestimated[d] = Cardinality(Unestimated(H, d))
  <2>1. SumFunctionOnSet(charge(d), {to[r] : r \in R}) = SumFunctionOnSet(amount(d), R)
    <3>1. \A r \in R : amount(d)[r] \in Int /\ charge(d)[to[r]] = amount(d)[r]
      BY <1>13, <1>18
    <3>2. IsFiniteSet(R) BY <1>4
    <3>3. ASSUME NEW w, NEW v, \A r \in R : v[r] \in Int /\ w[to[r]] = v[r]
          PROVE  SumFunctionOnSet(w, {to[r] : r \in R}) = SumFunctionOnSet(v, R)
      BY ONLY <3>2, <1>5, <3>3, SumOver
    <3> QED BY ONLY <3>1, <3>3
  <2>2. Cardinality({to[r] : r \in Without(d)}) = Cardinality(Without(d))
    <3>1. Without(d) \subseteq R BY <1>11, <1>18
    <3> QED BY ONLY <3>1, <1>12
  <2> QED BY <1>3, <1>6, <1>8, <1>9, <2>1, <2>2
<1>19. b.unpriced = Cardinality(Unpriced(H))
  BY <1>3, <1>10, <1>14
<1>20. Totalled(b, old, c, H) BY <1>15, <1>17, <1>18, <1>19 DEF Totalled
<1> QED BY <1>20 DEF b, H

\* Adding to the aggregate a what the records R come to.
LEMMA FoldedInto ==
  ASSUME LedgerAssumption, NEW a, NEW c, NEW G, IsFiniteSet(G), SumsUp(a, c, G),
         \A f \in G : IsRecord(f.e) /\ f.keep \in ScopeSeqs /\ ChainIds(f.keep) = c,
         NEW new, NEW m, NEW R, Foldable(new, R, c), G \cap FoldedAs(new, m, R) = {}
  PROVE  SumsUp(PlusAggregate(a, FoldIn(a.chain, new, R)), c, G \cup FoldedAs(new, m, R))
<1> DEFINE H == FoldedAs(new, m, R)
           old == a.chain
           b == FoldIn(old, new, R)
           sum == PlusAggregate(a, b)
           to == [r \in R |-> [n |-> m, e |-> new[r].e, keep |-> new[r].chain]]
<1>1. ChainIds(old) = c BY DEF SumsUp
<1>2. Totalled(b, old, c, H) BY <1>1, FoldInTotals
<1>3. IsFiniteSet(H)
  <2>1. H = {to[r] : r \in R} BY DEF FoldedAs
  <2>2. IsFiniteSet(R) BY DEF Foldable
  <2> HIDE DEF to, H
  <2> QED BY <2>1, <2>2, ImageIsFinite
<1>4. \A f \in H : IsRecord(f.e) /\ f.keep \in ScopeSeqs /\ ChainIds(f.keep) = c
  BY DEF Foldable, FoldedAs
<1>5. /\ sum.chain = b.chain /\ sum.unpriced = a.unpriced + b.unpriced
      /\ \A d \in Dims : sum.committed[d] = a.committed[d] + b.committed[d]
                         /\ sum.unestimated[d] = a.unestimated[d] + b.unestimated[d]
  BY DEF PlusAggregate
<1>6. G \cap H = {} OBVIOUS
<1> HIDE DEF H, b, sum
<1>7. \A f \in G \cup H : IsRecord(f.e) /\ f.keep \in ScopeSeqs /\ ChainIds(f.keep) = c
  BY <1>4
<1>8. ChainIds(sum.chain) = c BY <1>2, <1>5 DEF Totalled
<1>9. \A i \in DOMAIN c :
        sum.chain[i].budget = Tightest({a.chain[i].budget} \cup {f.keep[i].budget : f \in H})
  BY <1>2, <1>5 DEF Totalled
<1>10. \A d \in Dims : /\ sum.committed[d] = a.committed[d] + Charged(H, d)
                       /\ sum.unestimated[d] = a.unestimated[d] + Cardinality(Unestimated(H, d))
  BY <1>2, <1>5 DEF Totalled
<1>11. sum.unpriced = a.unpriced + Cardinality(Unpriced(H))
  BY <1>2, <1>5 DEF Totalled
<1>12. SumsUp(sum, c, G \cup H)
  BY <1>3, <1>6, <1>7, <1>8, <1>9, <1>10, <1>11, MoreSumsUp
<1> QED BY <1>12 DEF sum, b, H

\* The records R with the scopes c left.
Left(new, R, c) == {r \in R : ChainIds(new[r].chain) = c}
Counting(new, R) == {q \in R : new[q].chain # <<>> \/ new[q].e.state # "released"}
FoldKeys(new, R) == {ChainIds(new[r].chain) : r \in Counting(new, R)}
FoldTo(A, new, R, c) ==
  IF c \in DOMAIN A THEN A[c]
  ELSE NoAggregate(new[CHOOSE r \in R : ChainIds(new[r].chain) = c].chain)

FoldedTo(A, B, new, R) ==
  /\ DOMAIN B = DOMAIN A \cup FoldKeys(new, R)
  /\ \A c \in DOMAIN B :
       B[c] = IF c \notin FoldKeys(new, R) THEN A[c]
              ELSE PlusAggregate(FoldTo(A, new, R, c),
                     FoldIn(FoldTo(A, new, R, c).chain, new, Left(new, R, c)))

LEMMA FoldingFolds ==
  ASSUME LedgerAssumption, NEW A, NEW F, Folding(A, F), NEW new, NEW m, NEW R, IsFiniteSet(R),
         \A r \in R : IsRecord(new[r].e) /\ new[r].chain \in ScopeSeqs,
         \A q, r \in R : new[q].e = new[r].e => q = r,
         \A r \in R, f \in F : f.e # new[r].e,
         NEW B, FoldedTo(A, B, new, R)
  PROVE  Folding(B, F \cup FoldedAs(new, m, R))
<1> DEFINE keys == FoldKeys(new, R)
           G(c) == Kept(F, c)
           H(c) == FoldedAs(new, m, Left(new, R, c))
           all == FoldedAs(new, m, R)
<1>1. IsFiniteSet(F) /\ IsFiniteSet(DOMAIN A) /\ \A f \in F : IsRecord(f.e) /\ f.keep \in ScopeSeqs
  BY DEF Folding
<1>2. \A f \in all : \E r \in R : f = [n |-> m, e |-> new[r].e, keep |-> new[r].chain]
  BY DEF FoldedAs
<1>3. \A f \in all : IsRecord(f.e) /\ f.keep \in ScopeSeqs
  BY <1>2
<1>4. F \cap all = {} BY <1>2
<1>5. ASSUME NEW c PROVE Kept(F \cup all, c) = G(c) \cup H(c)
  BY DEF Kept, FoldedAs, Left
<1>6. IsFiniteSet(all)
  <2> DEFINE to == [r \in R |-> [n |-> m, e |-> new[r].e, keep |-> new[r].chain]]
  <2>1. all = {to[r] : r \in R} BY DEF FoldedAs
  <2> HIDE DEF to
  <2> QED BY <2>1, ImageIsFinite
<1>7. IsFiniteSet(keys)
  <2> DEFINE C == Counting(new, R)
             to == [r \in R |-> ChainIds(new[r].chain)]
  <2>1. C \subseteq R BY DEF Counting
  <2>4. keys = {ChainIds(new[r].chain) : r \in C} BY DEF FoldKeys
  <2>5. \A r \in C : to[r] = ChainIds(new[r].chain) BY <2>1
  <2>2. keys = {to[r] : r \in C}
    <3> HIDE DEF keys, to, C
    <3> QED BY <2>4, <2>5
  <2>3. IsFiniteSet(C) BY <2>1, FS_Subset
  <2> HIDE DEF to, C
  <2> QED BY <2>2, <2>3, ImageIsFinite
<1>8. ASSUME NEW c
      PROVE  /\ IsFiniteSet(G(c)) /\ IsFiniteSet(H(c)) /\ G(c) \cap H(c) = {}
             /\ \A f \in G(c) \cup H(c) :
                  IsRecord(f.e) /\ f.keep \in ScopeSeqs /\ ChainIds(f.keep) = c
  <2>1. G(c) \subseteq F /\ H(c) \subseteq all BY DEF Kept, FoldedAs, Left
  <2>2. \A f \in G(c) \cup H(c) : ChainIds(f.keep) = c BY DEF Kept, FoldedAs, Left
  <2> HIDE DEF G, H, all
  <2>3. IsFiniteSet(G(c)) /\ IsFiniteSet(H(c)) BY <1>1, <1>6, <2>1, FS_Subset
  <2> QED BY <1>1, <1>3, <1>4, <2>1, <2>2, <2>3
<1>9. IsFiniteSet(F \cup all) /\ IsFiniteSet(DOMAIN B)
  <2>1. DOMAIN B = DOMAIN A \cup keys BY DEF FoldedTo
  <2> HIDE DEF keys, all
  <2>2. IsFiniteSet(F \cup all) BY <1>1, <1>6, FS_Union
  <2>3. IsFiniteSet(DOMAIN A \cup keys) BY <1>1, <1>7, FS_Union
  <2> QED BY <2>1, <2>2, <2>3
<1>10. ASSUME NEW f \in F \cup all PROVE ChainIds(f.keep) \in DOMAIN B \/ Dropped(f)
  <2>1. DOMAIN B = DOMAIN A \cup keys BY DEF FoldedTo
  <2>2. CASE f \in F BY <2>1, <2>2 DEF Folding
  <2>3. CASE f \in all
    <3>1. PICK r \in R : f = [n |-> m, e |-> new[r].e, keep |-> new[r].chain] BY <1>2, <2>3
    <3>2. f.e = new[r].e /\ f.keep = new[r].chain BY <3>1
    <3>3. CASE r \in Counting(new, R) BY <2>1, <3>2, <3>3 DEF FoldKeys
    <3>4. CASE r \notin Counting(new, R) BY <3>2, <3>4 DEF Counting, Dropped
    <3> QED BY <3>3, <3>4
  <2> QED BY <1>10, <2>2, <2>3
<1>11. ASSUME NEW c \in keys PROVE SumsUp(FoldTo(A, new, R, c), c, G(c))
  <2>1. CASE c \in DOMAIN A BY <2>1 DEF FoldTo, Folding
  <2>2. CASE c \notin DOMAIN A
    <3> DEFINE r == CHOOSE r \in R : ChainIds(new[r].chain) = c
    <3>1. \E q \in R : ChainIds(new[q].chain) = c BY <1>11 DEF FoldKeys, Counting
    <3>2. r \in R /\ ChainIds(new[r].chain) = c BY <3>1
    <3>3. FoldTo(A, new, R, c) = NoAggregate(new[r].chain) BY <2>2 DEF FoldTo
    <3> HIDE DEF r, G, keys
    <3>4. PICK chain : chain = new[r].chain OBVIOUS
    <3>5. SumsUp(NoAggregate(chain), ChainIds(chain), Kept(F, ChainIds(chain)))
      BY <2>2, <3>2, <3>4, NoneYet
    <3> QED BY <3>2, <3>3, <3>4, <3>5 DEF G
  <2> QED BY <2>1, <2>2
<1>12. ASSUME NEW c \in DOMAIN B PROVE SumsUp(B[c], c, Kept(F \cup all, c))
  <2>1. CASE c \in keys
    <3> DEFINE a == FoldTo(A, new, R, c)
               L == Left(new, R, c)
    <3>1. B[c] = PlusAggregate(a, FoldIn(a.chain, new, L)) BY <1>12, <2>1 DEF FoldedTo
    <3>2. SumsUp(a, c, G(c)) BY <1>11, <2>1
    <3>3. Foldable(new, L, c)
      <4>1. L \subseteq R /\ \A r \in L : ChainIds(new[r].chain) = c BY DEF Left
      <4> HIDE DEF L
      <4>2. IsFiniteSet(L) BY <4>1, FS_Subset
      <4> QED BY <4>1, <4>2 DEF Foldable
    <3>4. /\ IsFiniteSet(G(c)) /\ G(c) \cap FoldedAs(new, m, L) = {}
          /\ \A f \in G(c) : IsRecord(f.e) /\ f.keep \in ScopeSeqs /\ ChainIds(f.keep) = c
      BY <1>8
    <3> HIDE DEF a, L, G
    <3>5. SumsUp(PlusAggregate(a, FoldIn(a.chain, new, L)), c, G(c) \cup FoldedAs(new, m, L))
      BY <3>2, <3>3, <3>4, FoldedInto
    <3>6. Kept(F \cup all, c) = G(c) \cup FoldedAs(new, m, L) BY <1>5 DEF L
    <3> QED BY <3>1, <3>5, <3>6
  <2>2. CASE c \notin keys
    <3>1. c \in DOMAIN A /\ B[c] = A[c] BY <1>12, <2>2 DEF FoldedTo
    <3>2. SumsUp(A[c], c, G(c)) BY <3>1 DEF Folding
    <3>3. \A f \in H(c) : Dropped(f)
      BY <2>2 DEF FoldedAs, Left, FoldKeys, Counting, Dropped
    <3>4. /\ IsFiniteSet(G(c)) /\ IsFiniteSet(H(c)) /\ G(c) \cap H(c) = {}
          /\ \A f \in G(c) \cup H(c) :
               IsRecord(f.e) /\ f.keep \in ScopeSeqs /\ ChainIds(f.keep) = c
      BY <1>8
    <3> HIDE DEF G, H
    <3>5. SumsUp(A[c], c, G(c) \cup H(c)) BY <3>2, <3>3, <3>4, DroppedMore
    <3> QED BY <1>5, <3>1, <3>5
  <2> QED BY <2>1, <2>2
<1>13. \A f \in F \cup all : IsRecord(f.e) /\ f.keep \in ScopeSeqs BY <1>1, <1>3
<1> HIDE DEF all
<1> QED BY <1>9, <1>10, <1>12, <1>13 DEF Folding, all

LEMMA AncestorsFit ==
  ASSUME LedgerAssumption, LedgerInv, NEW s \in Compacted, NEW r \in CompactedIn(s)
  PROVE  Ancestors(entries[r].in.chain, s) \in ScopeSeqs
<1> DEFINE c == entries[r].in.chain
           i == PositionOf(c, s)
           Scopes == [id : STRING \ {Whole}, budget : Budgets]
<1>1. r \in DOMAIN entries /\ InScope(c, s) BY DEF CompactedIn
<1>2. IsRecord(entries[r]) BY <1>1 DEF LedgerInv, Books
<1>3. s # Whole BY DEF LedgerAssumption
<1>4. i \in DOMAIN c BY <1>1, <1>3 DEF InScope, PositionOf
<1>5. c \in Seq(Scopes) BY <1>2 DEF IsRecord, LedgerAssumption
<1>6. Ancestors(c, s) = SubSeq(c, 1, i - 1) BY DEF Ancestors
<1>8. ScopeSeqs = Seq(Scopes) BY Zenon DEF ScopeSeqs
<1> HIDE DEF c, i, Scopes
<1>7. SubSeq(c, 1, i - 1) \in Seq(Scopes)
  <2>1. DOMAIN c = 1..Len(c) /\ Len(c) \in Nat BY <1>5, LenProperties
  <2>2. 1 \in Int /\ i - 1 \in Int /\ \A j \in 1..(i - 1) : j \in 1..Len(c) BY <1>4, <2>1
  <2>3. \A j \in 1..(i - 1) : c[j] \in Scopes BY <1>5, <2>2, ElementOfSeq
  <2> QED BY <2>2, <2>3, SubSeqProperties
<1> QED BY <1>6, <1>7, <1>8 DEF c

LEMMA CompactFolds ==
  ASSUME LedgerAssumption, LedgerInv, LedgerFolds, NEW s \in Compacted, Compact(s)
  PROVE  LedgerFolds'
<1> DEFINE R == CompactedIn(s)
           new == [r \in R |-> [e |-> entries[r], chain |-> Ancestors(entries[r].in.chain, s)]]
           m == Cardinality(folded)
<1>1. aggs' = [c \in DOMAIN aggs \cup FoldKeys(new, R) |->
                 IF c \notin FoldKeys(new, R) THEN aggs[c]
                 ELSE PlusAggregate(FoldTo(aggs, new, R, c),
                        FoldIn(FoldTo(aggs, new, R, c).chain, new, Left(new, R, c)))]
  BY Zenon DEF Compact, FoldKeys, Counting, FoldTo, Left
<1>2. folded' = folded \cup {[n |-> m, e |-> entries[r], keep |-> new[r].chain] : r \in R}
  BY Zenon DEF Compact
<1>3. entries' = [r \in DOMAIN entries \ R |-> entries[r]] /\ disk' = disk BY Zenon DEF Compact, unsaved
<1>4. \A r \in R : new[r].e = entries[r] /\ new[r].chain = Ancestors(entries[r].in.chain, s) OBVIOUS
<1>5. R \subseteq DOMAIN entries BY DEF CompactedIn
<1>6. \A r \in R : Ancestors(entries[r].in.chain, s) \in ScopeSeqs BY AncestorsFit
<1>7. \A r \in R : IsRecord(entries[r]) /\ entries[r].in.id = r BY <1>5 DEF LedgerInv, Books
<1> HIDE DEF R, new, m
<1>8. FoldedTo(aggs, aggs', new, R) BY <1>1 DEF FoldedTo
<1>9. folded' = folded \cup FoldedAs(new, m, R) BY <1>2, <1>4 DEF FoldedAs
<1>10. IsFiniteSet(R) /\ IsFiniteSet(DOMAIN entries')
  <2>1. IsFiniteSet(DOMAIN entries) /\ DOMAIN entries' \subseteq DOMAIN entries
    BY <1>3 DEF LedgerFolds
  <2> QED BY <1>5, <2>1, FS_Subset
<1>11. \A r \in R : IsRecord(new[r].e) /\ new[r].chain \in ScopeSeqs BY <1>4, <1>6, <1>7
<1>12. \A q, r \in R : new[q].e = new[r].e => q = r BY <1>4, <1>7
<1>13. \A r \in R, f \in folded : f.e # new[r].e BY <1>4, <1>5, <1>7 DEF LedgerInv, Books
<1>14. Folding(aggs, folded) BY DEF LedgerFolds
<1>15. PICK A, F : A = aggs /\ F = folded OBVIOUS
<1>16. Folding(A, F) /\ FoldedTo(A, aggs', new, R) /\ \A r \in R, f \in F : f.e # new[r].e
  BY <1>8, <1>13, <1>14, <1>15
<1>17. Folding(aggs', F \cup FoldedAs(new, m, R))
  BY <1>10, <1>11, <1>12, <1>16, FoldingFolds
<1>18. Folding(aggs', folded') BY <1>9, <1>15, <1>17
<1>19. Folding(aggs, folded)' BY <1>18 DEF Folding
<1>20. IsFiniteSet(DOMAIN disk.entries)' /\ Folding(disk.aggs, disk.folded)'
  BY <1>3 DEF LedgerFolds, Folding
<1> QED BY <1>10, <1>19, <1>20 DEF LedgerFolds

\* A step that folds nothing and adds records one by one.
Unfolding == UNCHANGED <<aggs, folded, disk>> /\ IsFiniteSet(DOMAIN entries')

LEMMA UnfoldingFolds == ASSUME LedgerFolds, Unfolding PROVE LedgerFolds'
BY DEF LedgerFolds, Unfolding, Folding

LEMMA StaysUnfolding ==
  ASSUME LedgerFolds, UNCHANGED local, UNCHANGED disk
  PROVE  Unfolding
BY DEF LedgerFolds, Unfolding, local

LEMMA SavesUnfolding ==
  ASSUME NEW E, NEW A, Saving(E, A), IsFiniteSet(DOMAIN E), UNCHANGED disk
  PROVE  Unfolding
BY DEF Saving, Unfolding

LEMMA AddsUnfolding ==
  ASSUME LedgerFolds, NEW r, NEW e, NEW A, Saving(With(entries, r, e), A), UNCHANGED disk
  PROVE  Unfolding
<1>1. IsFiniteSet(DOMAIN entries \cup {r}) BY FS_AddElement DEF LedgerFolds
<1>2. DOMAIN With(entries, r, e) = DOMAIN entries \cup {r} BY DEF With
<1> QED BY <1>1, <1>2, SavesUnfolding

LEMMA EditsUnfolding ==
  ASSUME LedgerFolds, NEW r, NEW e, NEW A, Saving([entries EXCEPT ![r] = e], A), UNCHANGED disk
  PROVE  Unfolding
<1>1. DOMAIN [entries EXCEPT ![r] = e] = DOMAIN entries /\ IsFiniteSet(DOMAIN entries)
  BY DEF LedgerFolds
<1> QED BY <1>1, SavesUnfolding

LEMMA FinitelyMany ==
  ASSUME LedgerFolds, NEW fresh, NEW n \in Nat
  PROVE  IsFiniteSet(DOMAIN entries \cup {fresh[i].id : i \in 1..n})
<1> DEFINE to == [i \in 1..n |-> fresh[i].id]
<1>1. IsFiniteSet(1..n) BY FS_Interval
<1>2. {fresh[i].id : i \in 1..n} = {to[i] : i \in 1..n} OBVIOUS
<1> HIDE DEF to
<1>3. IsFiniteSet({to[i] : i \in 1..n}) BY <1>1, ImageIsFinite
<1> QED BY <1>2, <1>3, FS_Union DEF LedgerFolds

LEMMA AftersUnfolding ==
  ASSUME LedgerFolds, NEW fresh, NEW n \in Nat, NEW A, Saving(After(fresh, n), A), UNCHANGED disk
  PROVE  Unfolding
<1>1. DOMAIN After(fresh, n) = DOMAIN entries \cup {fresh[i].id : i \in 1..n} BY DEF After
<1>2. IsFiniteSet(DOMAIN entries \cup {fresh[i].id : i \in 1..n})
  BY ONLY LedgerFolds, n \in Nat, FinitelyMany
<1>3. IsFiniteSet(DOMAIN After(fresh, n)) BY ONLY <1>1, <1>2
<1> QED BY <1>3, SavesUnfolding

LEMMA WithdrawsUnfolding ==
  ASSUME LedgerFolds, NEW fresh, NEW n \in Nat, NEW kept, Withdraw(fresh, n, kept), UNCHANGED disk
  PROVE  Unfolding
<1>1. CASE UNCHANGED local BY <1>1, StaysUnfolding
<1>2. CASE Saving(Withdrawn(fresh, n, kept), {})
  <2>1. DOMAIN Withdrawn(fresh, n, kept) = DOMAIN entries \cup {fresh[i].id : i \in 1..n}
    BY DEF Withdrawn
  <2>2. IsFiniteSet(DOMAIN entries \cup {fresh[i].id : i \in 1..n})
    BY ONLY LedgerFolds, n \in Nat, FinitelyMany
  <2>3. IsFiniteSet(DOMAIN Withdrawn(fresh, n, kept)) BY ONLY <2>1, <2>2
  <2> QED BY <1>2, <2>3, SavesUnfolding
<1> QED BY <1>1, <1>2 DEF Withdraw

LEMMA SettlesUnfolding ==
  ASSUME LedgerFolds, NEW r, NEW e, Settling(r, e), UNCHANGED disk
  PROVE  Unfolding
<1>1. CASE UNCHANGED local BY <1>1, StaysUnfolding
<1>2. CASE Saving([entries EXCEPT ![r] = e], {r}) BY <1>2, EditsUnfolding
<1> QED BY <1>1, <1>2 DEF Settling

LEMMA ReserveManyUnfolds ==
  ASSUME LedgerAssumption, LedgerFolds, NEW batch \in Batches, ReserveMany(batch)
  PROVE  Unfolding
<1>0. PICK fresh : fresh = Fresh(batch) OBVIOUS
<1>00. PICK n : n = AdmittedInTurn(fresh) OBVIOUS
<1>1. fresh \in Seq(Offers) BY <1>0, FreshIs
<1>2. Len(fresh) \in Nat BY <1>1
<1>3. n \in Nat BY <1>00, <1>2, InTurn
<1>4. disk' = disk BY DEF ReserveMany, unsaved
<1>5. \/ Withdraw(fresh, n, {})
      \/ UNCHANGED local
      \/ Saving(After(fresh, n), {batch[i].id : i \in DOMAIN batch})
  BY <1>0, <1>00 DEF ReserveMany
<1> QED BY <1>3, <1>4, <1>5, WithdrawsUnfolding, StaysUnfolding, AftersUnfolding

LEMMA BatchUnfolds ==
  ASSUME LedgerInv, LedgerFolds,
         \/ BatchReserve \/ UndoRelease
         \/ \E effect \in BOOLEAN : BatchReserveFails(effect) \/ UndoFails(effect)
  PROVE  Unfolding
<1>1. disk' = disk BY DEF BatchReserve, UndoRelease, BatchReserveFails, UndoFails, unsaved
<1>2. \/ op.kind = "batch" /\ (UNCHANGED local \/ Saving(After(op.fresh, op.done + 1), op.ids))
      \/ op.kind = "undo" /\ (UNCHANGED local \/ \E kept : Withdraw(op.fresh, op.made, kept))
  BY DEF BatchReserve, UndoRelease, BatchReserveFails, UndoFails, Undo, Undone
<1>3. CASE UNCHANGED local BY <1>1, <1>3, StaysUnfolding
<1>4. CASE op.kind = "batch" /\ Saving(After(op.fresh, op.done + 1), op.ids)
  <2>1. op.done + 1 \in Nat BY <1>4, PlacedFits
  <2>2. PICK fresh, n, A : fresh = op.fresh /\ n = op.done + 1 /\ A = op.ids OBVIOUS
  <2>3. n \in Nat /\ Saving(After(fresh, n), A) BY <1>4, <2>1, <2>2
  <2> QED BY <1>1, <2>3, AftersUnfolding
<1>5. CASE op.kind = "undo" /\ \E kept : Withdraw(op.fresh, op.made, kept)
  <2>1. op.made \in Nat BY <1>5, PlacedFits
  <2>2. PICK kept : Withdraw(op.fresh, op.made, kept) BY <1>5
  <2>3. PICK fresh, n : fresh = op.fresh /\ n = op.made OBVIOUS
  <2>4. n \in Nat /\ Withdraw(fresh, n, kept) BY <2>1, <2>2, <2>3
  <2> QED BY <1>1, <2>4, WithdrawsUnfolding
<1> QED BY <1>2, <1>3, <1>4, <1>5

LEMMA RecordUnfolds ==
  ASSUME LedgerInv, LedgerFolds, NEW r,
         \/ \E amounts \in Settlements : Settle(r, amounts)
         \/ \E tokens \in Usages, price \in Prices : SettleUsage(r, tokens, price)
         \/ MarkUnknown(r) \/ Release(r)
  PROVE  Unfolding
<1>1. CASE \E amounts \in Settlements : Settle(r, amounts)
  BY <1>1, SettlesUnfolding DEF Settle, unsaved
<1>2. CASE \E tokens \in Usages, price \in Prices : SettleUsage(r, tokens, price)
  <2>1. PICK tokens \in Usages, price \in Prices : SettleUsage(r, tokens, price) BY <1>2
  <2>2. disk' = disk /\ \E e : Settling(r, e) BY <2>1 DEF SettleUsage, unsaved
  <2> QED BY <2>2, SettlesUnfolding
<1>3. CASE MarkUnknown(r)
  <2>1. disk' = disk /\ DOMAIN entries' = DOMAIN entries /\ UNCHANGED <<aggs, folded>>
    BY <1>3 DEF MarkUnknown, unsaved, Saving
  <2> QED BY <2>1 DEF Unfolding, LedgerFolds
<1>4. CASE Release(r)
  <2>1. disk' = disk /\ DOMAIN entries' = DOMAIN entries /\ UNCHANGED <<aggs, folded>>
    BY <1>4 DEF Release, unsaved, Saving, local
  <2> QED BY <2>1 DEF Unfolding, LedgerFolds
<1> QED BY <1>1, <1>2, <1>3, <1>4

LEMMA AdmitUnfolds ==
  ASSUME LedgerFolds, NEW in, Reserve(in) \/ Adopt(in)
  PROVE  Unfolding
<1>1. /\ disk' = disk
      /\ \/ UNCHANGED local \/ Saving(entries, {in.id})
         \/ Saving(With(entries, in.id, Reserved(in)), {in.id})
  BY DEF Reserve, Adopt, unsaved
<1>2. CASE Saving(entries, {in.id}) BY <1>1, <1>2, SavesUnfolding DEF LedgerFolds
<1>3. CASE Saving(With(entries, in.id, Reserved(in)), {in.id}) BY <1>1, <1>3, AddsUnfolding
<1> QED BY <1>1, <1>2, <1>3, StaysUnfolding

LEMMA StoreUnfolds ==
  ASSUME LedgerFolds,
         \/ StoreReserve \/ StoreClose
         \/ \E effect \in BOOLEAN : StoreReserveFails(effect) \/ StoreCloseFails(effect)
         \/ \E r \in Ids, how \in SweepHow : Sweep(r, how)
  PROVE  Unfolding
<1>1. CASE StoreReserve
  <2>1. /\ disk' = disk
        /\ UNCHANGED local \/ Saving(With(entries, op.in.id, Reserved(op.in)), {op.in.id})
    BY <1>1 DEF StoreReserve, unsaved
  <2>2. PICK r, e : r = op.in.id /\ e = Reserved(op.in) OBVIOUS
  <2>3. UNCHANGED local \/ Saving(With(entries, r, e), {r}) BY <2>1, <2>2
  <2> QED BY <2>1, <2>3, StaysUnfolding, AddsUnfolding
<1>2. CASE StoreClose
  <2>1. disk' = disk /\ Saving([entries EXCEPT ![op.next.in.id] = op.next], {op.next.in.id})
    BY <1>2 DEF StoreClose, unsaved
  <2>2. PICK r, e : r = op.next.in.id /\ e = op.next OBVIOUS
  <2>3. Saving([entries EXCEPT ![r] = e], {r}) BY <2>1, <2>2
  <2> QED BY <2>1, <2>3, EditsUnfolding
<1>3. CASE \E effect \in BOOLEAN : StoreReserveFails(effect) \/ StoreCloseFails(effect)
  BY <1>3, StaysUnfolding DEF StoreReserveFails, StoreCloseFails, unsaved
<1>4. CASE \E r \in Ids, how \in SweepHow : Sweep(r, how)
  BY <1>4, StaysUnfolding DEF Sweep
<1> QED BY <1>1, <1>2, <1>3, <1>4

LEMMA SavedFolds ==
  ASSUME LedgerFolds, Persist \/ (\E effect \in BOOLEAN : PersistFails(effect)) \/ Restart
  PROVE  LedgerFolds'
<1>1. CASE Restart
  BY <1>1 DEF Restart, LedgerFolds, Folding
<1>2. CASE Persist \/ \E effect \in BOOLEAN : PersistFails(effect)
  <2>1. UNCHANGED <<entries, aggs, folded>> /\ (disk' = disk \/ disk' = Snapshot)
    BY <1>2 DEF Persist, PersistFails, local
  <2>2. Snapshot.entries = entries /\ Snapshot.aggs = aggs /\ Snapshot.folded = folded
    BY DEF Snapshot
  <2> QED BY <2>1, <2>2 DEF LedgerFolds, Folding
<1> QED BY <1>1, <1>2

LEMMA LedgerFoldsOn ==
  ASSUME LedgerAssumption, LedgerInv, LedgerFolds, [LedgerNext]_ledgerVars
  PROVE  LedgerFolds'
<1>1. CASE UNCHANGED ledgerVars BY <1>1 DEF ledgerVars, LedgerFolds, Folding
<1>2. CASE \E in : Reserve(in) \/ Adopt(in) BY <1>2, AdmitUnfolds, UnfoldingFolds
<1>3. CASE \E batch \in Batches : ReserveMany(batch) BY <1>3, ReserveManyUnfolds, UnfoldingFolds
<1>4. CASE \E r : \/ \E amounts \in Settlements : Settle(r, amounts)
                  \/ \E tokens \in Usages, price \in Prices : SettleUsage(r, tokens, price)
                  \/ MarkUnknown(r) \/ Release(r)
  BY <1>4, RecordUnfolds, UnfoldingFolds
<1>5. CASE \E s \in Compacted : Compact(s) BY <1>5, CompactFolds
<1>6. CASE \/ StoreReserve \/ StoreClose
           \/ \E effect \in BOOLEAN : StoreReserveFails(effect) \/ StoreCloseFails(effect)
           \/ \E r \in Ids, how \in SweepHow : Sweep(r, how)
  BY <1>6, StoreUnfolds, UnfoldingFolds
<1>7. CASE \/ BatchReserve \/ UndoRelease
           \/ \E effect \in BOOLEAN : BatchReserveFails(effect) \/ UndoFails(effect)
  BY <1>7, BatchUnfolds, UnfoldingFolds
<1>8. CASE Persist \/ (\E effect \in BOOLEAN : PersistFails(effect)) \/ Restart
  BY <1>8, SavedFolds
<1> QED BY <1>1, <1>2, <1>3, <1>4, <1>5, <1>6, <1>7, <1>8, Zenon DEF LedgerNext

LEMMA LedgerFoldsFirst == ASSUME LedgerInit PROVE LedgerFolds
<1>1. /\ entries = NoFunction /\ aggs = NoFunction /\ folded = {}
      /\ disk.entries = NoFunction /\ disk.aggs = NoFunction /\ disk.folded = {}
  BY DEF LedgerInit, EmptySnapshot
<1>2. DOMAIN NoFunction = {} BY DEF NoFunction
<1>3. IsFiniteSet({}) BY FS_EmptySet
<1> QED BY <1>1, <1>2, <1>3 DEF LedgerFolds, Folding

\* An aggregate stands for the records folded into it: their charges, how many
\* hold no estimate or have no price, and the tightest budgets they were named
\* with, through every further compaction, failed write and restart
\* (budget-ledger.ts, compact and fold).
THEOREM FoldsStand == LedgerSpec => []LedgerFolds
<1>1. LedgerInit => LedgerFolds BY LedgerFoldsFirst
<1>2. LedgerInv /\ LedgerFolds /\ [LedgerNext]_ledgerVars => LedgerFolds'
  BY LedgerFoldsOn, LedgerAssumption
<1> QED BY <1>1, <1>2, LedgerStands, PTL DEF LedgerSpec

-----------------------------------------------------------------------------
(* What the aggregates say is what the folded records say. *)

InOf(F, s) == {f \in F : InScope(f.keep, s)}
FailsClosed(G, d) == \E f \in G : HoldsNoEstimate(f.e, d)

\* The same of aggregates.
AggregateCharge(A, s, d) ==
  SumFunctionOnSet([c \in DOMAIN A |-> A[c].committed[d]],
                   {c \in DOMAIN A : InScope(A[c].chain, s)})
AggregateFails(A, s, d) == \E c \in DOMAIN A : InScope(A[c].chain, s) /\ FoldsNoEstimate(A[c], d)
AggregateBudgets(A, s) == UNION {BudgetsIn(A[c].chain, s) : c \in DOMAIN A}

\* An aggregate is charged to the scopes of the records it stands for.
LEMMA ScopesAlike ==
  ASSUME NEW A, NEW F, Folding(A, F), NEW s
  PROVE  /\ \A c \in DOMAIN A : \A f \in Kept(F, c) : InScope(A[c].chain, s) <=> InScope(f.keep, s)
         /\ \A c \in DOMAIN A : InScope(A[c].chain, s) => Kept(F, c) \subseteq InOf(F, s)
         /\ \A f \in F : ChainIds(f.keep) \in DOMAIN A => f \in Kept(F, ChainIds(f.keep))
<1>1. ASSUME NEW c \in DOMAIN A, NEW f \in Kept(F, c)
      PROVE  InScope(A[c].chain, s) <=> InScope(f.keep, s)
  <2>1. ChainIds(A[c].chain) = c /\ ChainIds(f.keep) = c BY <1>1 DEF Folding, SumsUp, Kept
  <2>2. PICK a, k : a = A[c].chain /\ k = f.keep OBVIOUS
  <2>3. InScope(a, s) <=> s = Whole \/ \E i \in DOMAIN c : c[i] = s BY <2>1, <2>2, InScopeIs
  <2>4. InScope(k, s) <=> s = Whole \/ \E i \in DOMAIN c : c[i] = s BY <2>1, <2>2, InScopeIs
  <2> QED BY <2>2, <2>3, <2>4
<1>2. \A c : Kept(F, c) \subseteq F BY DEF Kept
<1>3. \A c \in DOMAIN A : InScope(A[c].chain, s) => Kept(F, c) \subseteq InOf(F, s)
  BY <1>1, <1>2 DEF InOf
<1>4. \A f \in F : f \in Kept(F, ChainIds(f.keep)) BY DEF Kept
<1> QED BY <1>1, <1>3, <1>4

LEMMA AggregatesCharge ==
  ASSUME LedgerAssumption, NEW A, NEW F, Folding(A, F), NEW s, NEW d \in Dims
  PROVE  AggregateCharge(A, s, d) = Charged(InOf(F, s), d)
<1> DEFINE v == [c \in DOMAIN A |-> A[c].committed[d]]
           T == {c \in DOMAIN A : InScope(A[c].chain, s)}
           w == [f \in F |-> ChargeOf(f.e, d)]
           g == [f \in F |-> ChainIds(f.keep)]
           S == {f \in InOf(F, s) : ChainIds(f.keep) \in DOMAIN A}
           D == {f \in InOf(F, s) : ChainIds(f.keep) \notin DOMAIN A}
<1>1. IsFiniteSet(F) /\ IsFiniteSet(DOMAIN A) /\ \A f \in F : IsRecord(f.e) BY DEF Folding
<1>2. /\ InOf(F, s) = S \cup D /\ S \cap D = {}
      /\ S \subseteq F /\ D \subseteq F /\ T \subseteq DOMAIN A
  BY DEF InOf
<1>3. IsFiniteSet(S) /\ IsFiniteSet(D) /\ IsFiniteSet(T)
  <2> HIDE DEF S, D, T
  <2> QED BY <1>1, <1>2, FS_Subset
<1>4. \A f \in F : w[f] = ChargeOf(f.e, d) /\ w[f] \in Nat BY <1>1, ChargeIs
<1>5. ASSUME NEW G, IsFiniteSet(G), G \subseteq F PROVE Charged(G, d) = SumFunctionOnSet(w, G)
  <2> DEFINE u == [f \in G |-> ChargeOf(f.e, d)]
  <2>1. Charged(G, d) = SumFunctionOnSet(u, G) BY Zenon DEF Charged
  <2>2. \A f \in G : u[f] = w[f] BY <1>4, <1>5
  <2> HIDE DEF u, w
  <2>3. SumFunctionOnSet(u, G) = SumFunctionOnSet(w, G) BY <1>5, <2>2, SumSame
  <2> QED BY <2>1, <2>3
<1>6. \A f \in S : g[f] \in T
  <2> SUFFICES ASSUME NEW f \in S PROVE ChainIds(f.keep) \in T BY <1>2
  <2>1. f \in Kept(F, ChainIds(f.keep)) /\ InScope(f.keep, s) BY <1>2, ScopesAlike DEF InOf
  <2> QED BY <2>1, ScopesAlike
<1>7. ASSUME NEW c \in T PROVE v[c] = SumFunctionOnSet(w, Group(S, g, c))
  <2>1. v[c] = A[c].committed[d] OBVIOUS
  <2>2. A[c].committed[d] = Charged(Kept(F, c), d) BY DEF Folding, SumsUp
  <2>3. Kept(F, c) = Group(S, g, c)
    <3>1. \A f \in Kept(F, c) : f \in InOf(F, s) /\ f \in F /\ ChainIds(f.keep) = c
      BY ScopesAlike DEF Kept
    <3>2. \A f \in F : g[f] = ChainIds(f.keep) OBVIOUS
    <3>3. \A f \in Kept(F, c) : f \in S /\ g[f] = c BY <3>1, <3>2
    <3>4. \A f \in Group(S, g, c) : f \in Kept(F, c) BY <1>2, <3>2 DEF Group, Kept
    <3> QED BY <3>3, <3>4 DEF Group
  <2>4. Kept(F, c) \subseteq F BY DEF Kept
  <2>5. IsFiniteSet(Kept(F, c)) BY <1>1, <2>4, FS_Subset
  <2> QED BY <1>5, <2>1, <2>2, <2>3, <2>4, <2>5
<1>8. \A f \in D : Dropped(f) BY <1>2 DEF Folding
<1>9. Charged(D, d) = 0 BY <1>3, <1>8, DroppedIsNothing
<1>10. \A f \in S \cup D : IsRecord(f.e) BY <1>1, <1>2
<1> HIDE DEF S, D, T, w, v, g
<1>11. \A f \in S : w[f] \in Int BY <1>2, <1>4
<1>12. SumFunctionOnSet(v, T) = SumFunctionOnSet(w, S) BY <1>3, <1>6, <1>7, <1>11, SumGrouped
<1>13. Charged(S, d) = SumFunctionOnSet(w, S) BY <1>2, <1>3, <1>5
<1>14. Charged(InOf(F, s), d) = Charged(S, d) + Charged(D, d)
  <2>1. Apart(S, D) BY <1>2, <1>3, <1>10 DEF Apart
  <2>2. AddUp(S, D, d) BY <2>1, ChargedJoin
  <2> QED BY <1>2, <2>2 DEF AddUp
<1>15. Charged(S, d) \in Nat BY <1>3, <1>10, ChargedIs
<1>16. SumFunctionOnSet(v, T) = Charged(InOf(F, s), d) BY <1>9, <1>12, <1>13, <1>14, <1>15
<1> QED BY <1>16, Zenon DEF v, T, AggregateCharge

\* An aggregate fails closed where one of its records would.
LEMMA AggregateUnreserved ==
  ASSUME LedgerAssumption, NEW a, NEW c, NEW K, IsFiniteSet(K), SumsUp(a, c, K),
         \A f \in K : IsRecord(f.e), NEW d \in Dims
  PROVE  FoldsNoEstimate(a, d) <=> \E f \in K : HoldsNoEstimate(f.e, d)
<1> DEFINE U == Unestimated(K, d)
           P == Unpriced(K)
<1>1. U \subseteq K /\ P \subseteq K BY DEF Unestimated, Unpriced
<1>2. IsFiniteSet(U) /\ IsFiniteSet(P) BY <1>1, FS_Subset
<1>3. a.unestimated[d] = Cardinality(U) /\ a.unpriced = Cardinality(P) BY DEF SumsUp
<1>4. Cardinality(U) \in Nat /\ Cardinality(P) \in Nat BY <1>2, FS_CardinalityType
<1>5. CASE d = "tokens"
  <2>1. Cardinality({}) = 0 BY FS_EmptySet
  <2>2. Cardinality(U) - Cardinality({}) > 0 <=> \E f \in U : f \notin {}
    <3>1. {} \subseteq U OBVIOUS
    <3> QED BY <1>2, <3>1, SomeMore
  <2>3. FoldsNoEstimate(a, d) <=> \E f \in U : f \notin {}
    BY <1>3, <1>4, <1>5, <2>1, <2>2 DEF FoldsNoEstimate
  <2>4. \A f \in K : HoldsNoEstimate(f.e, d) <=> f \in U
    BY <1>5 DEF HoldsNoEstimate, Unestimated
  <2> QED BY <1>1, <2>3, <2>4
<1>6. CASE d = "usd"
  <2>1. P \subseteq U
    <3> SUFFICES ASSUME NEW f \in P PROVE f \in U OBVIOUS
    <3>1. f \in K /\ f.e.state # "released" /\ UnpricedUsd(f.e) BY DEF Unpriced
    <3>2. IsRecord(f.e) BY <3>1
    <3>3. f.e.in.est.usd = None BY <3>1, <3>2 DEF IsRecord
    <3>4. f.e.actual.usd = None BY <3>1 DEF UnpricedUsd
    <3>5. f.e.in.est \in Quantities /\ f.e.actual \in Quantities
      BY <3>2 DEF IsRecord, LedgerAssumption
    <3>6. NoAmount(f.e, d) BY <1>6, <3>1, <3>3, <3>4, <3>5 DEF NoAmount, Quantities
    <3> QED BY <3>1, <3>6 DEF Unestimated
  <2>2. Cardinality(U) - Cardinality(P) > 0 <=> \E f \in U : f \notin P
    <3> HIDE DEF U, P
    <3> QED BY <1>2, <2>1, SomeMore
  <2>3. FoldsNoEstimate(a, d) <=> \E f \in U : f \notin P
    <3> HIDE DEF U, P
    <3> QED BY <1>3, <1>6, <2>2 DEF FoldsNoEstimate
  <2>4. \A f \in K : HoldsNoEstimate(f.e, d) <=> f \in U /\ f \notin P
    BY <1>6 DEF HoldsNoEstimate, Unestimated, Unpriced, NoAmount
  <2> HIDE DEF U, P
  <2> QED BY <1>1, <2>3, <2>4
<1> QED BY <1>5, <1>6 DEF Dims

LEMMA AggregatesUnreserved ==
  ASSUME LedgerAssumption, NEW A, NEW F, Folding(A, F), NEW s, NEW d \in Dims
  PROVE  AggregateFails(A, s, d) <=> FailsClosed(InOf(F, s), d)
<1>1. IsFiniteSet(F) /\ \A f \in F : IsRecord(f.e) BY DEF Folding
<1>2. ASSUME NEW c \in DOMAIN A
      PROVE  FoldsNoEstimate(A[c], d) <=> \E f \in Kept(F, c) : HoldsNoEstimate(f.e, d)
  <2>1. PICK a : a = A[c] OBVIOUS
  <2>2. Kept(F, c) \subseteq F BY DEF Kept
  <2>3. IsFiniteSet(Kept(F, c)) /\ \A f \in Kept(F, c) : IsRecord(f.e) BY <1>1, <2>2, FS_Subset
  <2>4. SumsUp(a, c, Kept(F, c)) BY <2>1 DEF Folding
  <2>5. FoldsNoEstimate(a, d) <=> \E f \in Kept(F, c) : HoldsNoEstimate(f.e, d)
    BY <2>3, <2>4, AggregateUnreserved
  <2> QED BY <2>1, <2>5
<1>3. ASSUME NEW c \in DOMAIN A, InScope(A[c].chain, s), FoldsNoEstimate(A[c], d)
      PROVE  \E f \in InOf(F, s) : HoldsNoEstimate(f.e, d)
  <2>1. Kept(F, c) \subseteq InOf(F, s) BY <1>3, ScopesAlike
  <2> QED BY <1>2, <1>3, <2>1
<1>4. ASSUME NEW f \in InOf(F, s), HoldsNoEstimate(f.e, d)
      PROVE  \E c \in DOMAIN A : InScope(A[c].chain, s) /\ FoldsNoEstimate(A[c], d)
  <2>1. f \in F /\ InScope(f.keep, s) BY DEF InOf
  <2>2. ChainIds(f.keep) \in DOMAIN A
    BY <1>4, <2>1 DEF Folding, Dropped, HoldsNoEstimate, NoAmount
  <2>3. f \in Kept(F, ChainIds(f.keep)) BY <2>1, <2>2, ScopesAlike
  <2>4. InScope(A[ChainIds(f.keep)].chain, s) BY <2>1, <2>2, <2>3, ScopesAlike
  <2> QED BY <1>2, <1>4, <2>2, <2>3, <2>4
<1> QED BY <1>3, <1>4 DEF AggregateFails, FailsClosed

LEMMA NamedFit ==
  ASSUME NEW F, \A f \in F : f.keep \in ScopeSeqs, NEW s
  PROVE  Named(F, s) \subseteq Budgets
<1>1. ASSUME NEW f \in F, NEW i \in DOMAIN f.keep PROVE f.keep[i].budget \in Budgets
  <2>1. PICK k : k = f.keep OBVIOUS
  <2> QED BY <2>1, BudgetAt
<1> QED BY <1>1 DEF Named, BudgetsIn

TightestAlike(A, F, s, Q) ==
  Tightest(Q \cup AggregateBudgets(A, s)) = Tightest(Q \cup Named(InOf(F, s), s))

\* An aggregate's budget for a scope is the tightest its records name for it.
LEMMA AggregatesTightest ==
  ASSUME NEW A, NEW F, Folding(A, F), NEW s, NEW Q, Q \subseteq Budgets
  PROVE  TightestAlike(A, F, s, Q)
<1> DEFINE at(c, i) == {f.keep[i].budget : f \in Kept(F, c)}
           Here == {x \in UNION {{<<c, i>> : i \in DOMAIN c} : c \in DOMAIN A} : x[1][x[2]] = s}
           P == {at(x[1], x[2]) : x \in Here}
           N == Named(InOf(F, s), s)
<1>1. \A f \in F : f.keep \in ScopeSeqs BY DEF Folding
<1>2. ASSUME NEW c \in DOMAIN A
      PROVE  /\ DOMAIN A[c].chain = DOMAIN c
             /\ \A i \in DOMAIN c : A[c].chain[i].id = c[i]
             /\ \A i \in DOMAIN c : A[c].chain[i].budget = Tightest(at(c, i))
  <2>1. ChainIds(A[c].chain) = c BY DEF Folding, SumsUp
  <2>2. \A i \in DOMAIN c : A[c].chain[i].budget = Tightest(at(c, i)) BY DEF Folding, SumsUp
  <2> HIDE DEF at
  <2> QED BY <2>1, <2>2 DEF ChainIds
<1>3. ASSUME NEW c \in DOMAIN A, NEW f \in Kept(F, c)
      PROVE  /\ f \in F /\ DOMAIN f.keep = DOMAIN c /\ \A i \in DOMAIN c : f.keep[i].id = c[i]
  <2>1. f \in F /\ ChainIds(f.keep) = c BY DEF Kept
  <2> QED BY <2>1 DEF ChainIds
<1>4. UNION {BudgetsIn(A[c].chain, s) : c \in DOMAIN A} = {Tightest(S) : S \in P}
  <2>1. ASSUME NEW c \in DOMAIN A, NEW i \in DOMAIN A[c].chain, A[c].chain[i].id = s
        PROVE  A[c].chain[i].budget \in {Tightest(S) : S \in P}
    <3>1. i \in DOMAIN c /\ c[i] = s BY <1>2, <2>1
    <3>2. <<c, i>> \in Here BY <3>1
    <3>3. at(c, i) \in P
      <4> HIDE DEF at, Here
      <4> QED BY <3>2
    <3> HIDE DEF P, at
    <3> QED BY <1>2, <3>1, <3>3
  <2>2. ASSUME NEW S \in P
        PROVE  \E c \in DOMAIN A : \E i \in DOMAIN A[c].chain :
                 A[c].chain[i].id = s /\ A[c].chain[i].budget = Tightest(S)
    <3>1. PICK x \in Here : S = at(x[1], x[2])
      <4> HIDE DEF at, Here
      <4> QED OBVIOUS
    <3>2. PICK c \in DOMAIN A : \E i \in DOMAIN c : x = <<c, i>> OBVIOUS
    <3>3. PICK i \in DOMAIN c : x = <<c, i>> BY <3>2
    <3>4. c[i] = s /\ S = at(c, i) BY <3>1, <3>3
    <3> HIDE DEF at, P, Here
    <3>5. i \in DOMAIN A[c].chain /\ A[c].chain[i].id = s /\ A[c].chain[i].budget = Tightest(S)
      BY <1>2, <3>4
    <3> QED BY <3>5
  <2> HIDE DEF P
  <2> QED BY <2>1, <2>2 DEF BudgetsIn
<1>5. UNION P = N
  <2>1. ASSUME NEW x \in Here, NEW f \in Kept(F, x[1]) PROVE f.keep[x[2]].budget \in N
    <3>1. PICK c \in DOMAIN A : \E i \in DOMAIN c : x = <<c, i>> OBVIOUS
    <3>2. PICK i \in DOMAIN c : x = <<c, i>> BY <3>1
    <3>3. c[i] = s /\ f \in Kept(F, c) BY <2>1, <3>2
    <3>4. f \in F /\ i \in DOMAIN f.keep /\ f.keep[i].id = s BY <1>3, <3>3
    <3>5. f \in InOf(F, s) BY <3>4 DEF InOf, InScope
    <3> QED BY <3>2, <3>4, <3>5 DEF Named, BudgetsIn
  <2>2. ASSUME NEW f \in InOf(F, s), NEW i \in DOMAIN f.keep, f.keep[i].id = s
        PROVE  f.keep[i].budget \in UNION P
    <3>1. f \in F BY DEF InOf
    <3> DEFINE c == ChainIds(f.keep)
    <3>2. c \in DOMAIN A BY <2>2, <3>1 DEF Folding, Dropped
    <3>3. i \in DOMAIN c /\ c[i] = s BY <2>2 DEF ChainIds
    <3>4. f \in Kept(F, c) BY <3>1 DEF Kept
    <3> HIDE DEF c
    <3>5. <<c, i>> \in Here BY <3>2, <3>3
    <3>6. f.keep[i].budget \in at(c, i) BY <3>4
    <3>7. at(c, i) \in P
      <4> HIDE DEF at, Here
      <4> QED BY <3>5
    <3> HIDE DEF at, P
    <3> QED BY <3>6, <3>7
  <2>3. N \subseteq UNION P
    <3> HIDE DEF P
    <3> QED BY <2>2 DEF Named, BudgetsIn
  <2>4. UNION P \subseteq N
    <3> HIDE DEF N, Here
    <3> QED BY <2>1
  <2> QED BY <2>3, <2>4
<1>6. N \subseteq Budgets
  <2>1. \A f \in InOf(F, s) : f.keep \in ScopeSeqs BY <1>1 DEF InOf
  <2> QED BY <2>1, NamedFit
<1>7. \A S \in P : S \subseteq Budgets
  <2> HIDE DEF P, N
  <2> QED BY <1>5, <1>6
<1> HIDE DEF P, N
<1>8. Tightest(Q \cup {Tightest(S) : S \in P}) = Tightest(Q \cup UNION P)
  BY <1>7, TightestInTurn
<1> QED BY <1>4, <1>5, <1>8 DEF N, AggregateBudgets, TightestAlike

-----------------------------------------------------------------------------
(* What the ledger counts is what it was ever charged. *)

Recorded(E) == {[n |-> -1, e |-> E[r], keep |-> E[r].in.chain] : r \in DOMAIN E}
Ledger(E, F) == Recorded(E) \cup F
Sound(E, F) ==
  /\ IsFiniteSet(DOMAIN E) /\ Folding(aggs, F)
  /\ \A r \in DOMAIN E : IsRecord(E[r]) /\ E[r].in.id = r
  /\ \A f \in F : f.e.in.id \notin DOMAIN E

LEMMA WrittenIs ==
  ASSUME LedgerAssumption, NEW E, NEW F, Sound(E, F), NEW s
  PROVE  /\ InOf(Ledger(E, F), s) = InOf(Recorded(E), s) \cup InOf(F, s)
         /\ IsFiniteSet(InOf(Recorded(E), s)) /\ IsFiniteSet(InOf(F, s))
         /\ \A f \in InOf(Ledger(E, F), s) : IsRecord(f.e) /\ f.keep \in ScopeSeqs
         /\ InOf(Recorded(E), s) \cap InOf(F, s) = {}
<1> DEFINE to == [r \in DOMAIN E |-> [n |-> -1, e |-> E[r], keep |-> E[r].in.chain]]
<1>1. Recorded(E) = {to[r] : r \in DOMAIN E} BY DEF Recorded
<1>2. \A r \in DOMAIN E : to[r].e = E[r] /\ to[r].keep = E[r].in.chain OBVIOUS
<1> HIDE DEF to
<1>3. IsFiniteSet(Recorded(E)) /\ IsFiniteSet(F)
  <2>1. IsFiniteSet({to[r] : r \in DOMAIN E}) BY ImageIsFinite DEF Sound
  <2> QED BY <1>1, <2>1 DEF Sound, Folding
<1>4. IsFiniteSet(InOf(Recorded(E), s)) /\ IsFiniteSet(InOf(F, s))
  <2>1. InOf(Recorded(E), s) \subseteq Recorded(E) /\ InOf(F, s) \subseteq F BY DEF InOf
  <2> QED BY <1>3, <2>1, FS_Subset
<1>5. \A f \in Recorded(E) : IsRecord(f.e) /\ f.keep \in ScopeSeqs /\ f.e.in.id \in DOMAIN E
  <2> SUFFICES ASSUME NEW r \in DOMAIN E
               PROVE  IsRecord(E[r]) /\ E[r].in.chain \in ScopeSeqs /\ E[r].in.id \in DOMAIN E
    BY <1>1, <1>2
  <2>1. IsRecord(E[r]) /\ E[r].in.id = r BY DEF Sound
  <2>2. E[r].in \in Offers \cup Adopted BY <2>1 DEF IsRecord
  <2>3. E[r].in.chain \in ScopeSeqs BY <2>2 DEF LedgerAssumption, ScopeSeqs
  <2> QED BY <2>1, <2>3
<1>6. \A f \in F : IsRecord(f.e) /\ f.keep \in ScopeSeqs /\ f.e.in.id \notin DOMAIN E
  BY DEF Sound, Folding
<1>7. InOf(Ledger(E, F), s) = InOf(Recorded(E), s) \cup InOf(F, s) BY DEF InOf, Ledger
<1> QED BY <1>4, <1>5, <1>6, <1>7 DEF InOf

Counts(E, F, s, d) == Committed(E, s, d) = Charged(InOf(Ledger(E, F), s), d)
Bounded(E, F, s, own) == Effective(E, s, own) = Tightest({own} \cup Named(InOf(Ledger(E, F), s), s))

LEMMA CommittedIs ==
  ASSUME LedgerAssumption, NEW E, NEW F, Sound(E, F), NEW s, NEW d \in Dims
  PROVE  Counts(E, F, s, d)
<1> DEFINE to == [r \in DOMAIN E |-> [n |-> -1, e |-> E[r], keep |-> E[r].in.chain]]
           R == {r \in DOMAIN E : InScope(E[r].in.chain, s)}
           L == InOf(Recorded(E), s)
           v == [r \in DOMAIN E |-> ChargeOf(E[r], d)]
           w == [f \in L |-> ChargeOf(f.e, d)]
           K == InOf(F, s)
<1>1. \A r \in DOMAIN E : to[r].e = E[r] /\ to[r].keep = E[r].in.chain OBVIOUS
<1>2. L = {to[r] : r \in R}
  <2>1. Recorded(E) = {to[r] : r \in DOMAIN E} BY DEF Recorded
  <2> HIDE DEF to
  <2> QED BY <1>1, <2>1 DEF InOf
<1>3. \A q, r \in R : to[q] = to[r] => q = r
  <2> SUFFICES ASSUME NEW q \in R, NEW r \in R, to[q] = to[r] PROVE q = r OBVIOUS
  <2>1. E[q] = E[r] BY <1>1
  <2> QED BY <2>1 DEF Sound
<1>4. IsFiniteSet(R) BY FS_Subset DEF Sound
<1>5. \A r \in R : v[r] \in Int /\ w[to[r]] = v[r]
  <2> SUFFICES ASSUME NEW r \in R PROVE v[r] \in Int /\ w[to[r]] = v[r] OBVIOUS
  <2>1. IsRecord(E[r]) BY DEF Sound
  <2>2. ChargeOf(E[r], d) \in Nat BY <2>1, ChargeIs
  <2>3. v[r] = ChargeOf(E[r], d) OBVIOUS
  <2>4. to[r] \in L BY <1>2
  <2> HIDE DEF to, L
  <2>5. w[to[r]] = ChargeOf(to[r].e, d) BY <2>4
  <2> QED BY <1>1, <2>2, <2>3, <2>5
<1>6. Charged(L, d) = SumFunctionOnSet(w, L) BY Zenon DEF Charged
<1>7. Committed(E, s, d) = SumFunctionOnSet(v, R) + AggregateCharge(aggs, s, d)
  BY Zenon DEF Committed, AggregateCharge
<1>8. AggregateCharge(aggs, s, d) = Charged(K, d)
  <2>1. PICK A : A = aggs OBVIOUS
  <2>2. Folding(A, F) BY <2>1 DEF Sound
  <2>3. AggregateCharge(A, s, d) = Charged(InOf(F, s), d)
    BY <2>2, AggregatesCharge
  <2> QED BY <2>1, <2>3
<1>9. Apart(L, K) /\ InOf(Ledger(E, F), s) = L \cup K
  BY WrittenIs DEF Apart
<1> HIDE DEF to, R, L, K, v, w
<1>10. SumFunctionOnSet(w, {to[r] : r \in R}) = SumFunctionOnSet(v, R)
  BY <1>3, <1>4, <1>5, SumOver
<1>11. AddUp(L, K, d) BY <1>9, ChargedJoin
<1>12. Charged(L \cup K, d) = Charged(L, d) + Charged(K, d) BY <1>11 DEF AddUp
<1> QED BY <1>2, <1>6, <1>7, <1>8, <1>9, <1>10, <1>12 DEF Counts

LEMMA UnreservedIs ==
  ASSUME LedgerAssumption, NEW E, NEW F, Sound(E, F), NEW s, NEW d \in Dims
  PROVE  Unreserved(E, s, d) <=> FailsClosed(InOf(Ledger(E, F), s), d)
<1>1. PICK A : A = aggs OBVIOUS
<1>2. Folding(A, F) BY <1>1 DEF Sound
<1>3. AggregateFails(A, s, d) <=> FailsClosed(InOf(F, s), d)
  BY <1>2, AggregatesUnreserved
<1>4. (\E r \in DOMAIN E : InScope(E[r].in.chain, s) /\ HoldsNoEstimate(E[r], d))
        <=> FailsClosed(InOf(Recorded(E), s), d)
  <2>1. ASSUME NEW r \in DOMAIN E, InScope(E[r].in.chain, s), HoldsNoEstimate(E[r], d)
        PROVE  FailsClosed(InOf(Recorded(E), s), d)
    <3> DEFINE f == [n |-> -1, e |-> E[r], keep |-> E[r].in.chain]
    <3>1. f \in Recorded(E) BY DEF Recorded
    <3>2. f.e = E[r] /\ f.keep = E[r].in.chain OBVIOUS
    <3> HIDE DEF f
    <3> QED BY <2>1, <3>1, <3>2 DEF FailsClosed, InOf
  <2>2. ASSUME NEW f \in InOf(Recorded(E), s), HoldsNoEstimate(f.e, d)
        PROVE  \E r \in DOMAIN E : InScope(E[r].in.chain, s) /\ HoldsNoEstimate(E[r], d)
    <3>1. f \in Recorded(E) /\ InScope(f.keep, s) BY DEF InOf
    <3>2. PICK r \in DOMAIN E : f = [n |-> -1, e |-> E[r], keep |-> E[r].in.chain]
      BY <3>1 DEF Recorded
    <3>3. f.e = E[r] /\ f.keep = E[r].in.chain BY <3>2
    <3> QED BY <2>2, <3>1, <3>3
  <2> QED BY <2>1, <2>2 DEF FailsClosed
<1>5. InOf(Ledger(E, F), s) = InOf(Recorded(E), s) \cup InOf(F, s) BY DEF InOf, Ledger
<1>6. FailsClosed(InOf(Ledger(E, F), s), d) <=>
        FailsClosed(InOf(Recorded(E), s), d) \/ FailsClosed(InOf(F, s), d)
  BY <1>5 DEF FailsClosed
<1> QED BY <1>1, <1>3, <1>4, <1>6 DEF Unreserved, AggregateFails

LEMMA EffectiveIs ==
  ASSUME LedgerAssumption, NEW E, NEW F, Sound(E, F), NEW s, NEW own \in Budgets
  PROVE  Bounded(E, F, s, own)
<1> DEFINE Q == {own} \cup UNION {BudgetsIn(E[r].in.chain, s) : r \in DOMAIN E}
<1>1. PICK A : A = aggs OBVIOUS
<1>2. Folding(A, F) BY <1>1 DEF Sound
<1>3. UNION {BudgetsIn(E[r].in.chain, s) : r \in DOMAIN E} = Named(InOf(Recorded(E), s), s)
  <2>1. Named(InOf(Recorded(E), s), s) = Named(Recorded(E), s)
    BY DEF Named, BudgetsIn, InOf, InScope
  <2>2. {BudgetsIn(f.keep, s) : f \in Recorded(E)} = {BudgetsIn(E[r].in.chain, s) : r \in DOMAIN E}
    <3> DEFINE to == [r \in DOMAIN E |-> [n |-> -1, e |-> E[r], keep |-> E[r].in.chain]]
    <3>1. Recorded(E) = {to[r] : r \in DOMAIN E} BY DEF Recorded
    <3>2. \A r \in DOMAIN E : to[r].keep = E[r].in.chain OBVIOUS
    <3> HIDE DEF to
    <3> QED BY <3>1, <3>2
  <2> QED BY <2>1, <2>2 DEF Named
<1>4. Named(InOf(Ledger(E, F), s), s) = Named(InOf(Recorded(E), s), s) \cup Named(InOf(F, s), s)
  <2>1. InOf(Ledger(E, F), s) = InOf(Recorded(E), s) \cup InOf(F, s) BY DEF InOf, Ledger
  <2> QED BY <2>1 DEF Named
<1>5. Q \subseteq Budgets
  <2>1. \A f \in InOf(Recorded(E), s) : f.keep \in ScopeSeqs BY WrittenIs
  <2>2. Named(InOf(Recorded(E), s), s) \subseteq Budgets BY <2>1, NamedFit
  <2> QED BY <1>3, <2>2
<1>6. Effective(E, s, own) = Tightest(Q \cup AggregateBudgets(aggs, s))
  <2> DEFINE x == UNION {BudgetsIn(E[r].in.chain, s) : r \in DOMAIN E}
             y == UNION {BudgetsIn(aggs[c].chain, s) : c \in DOMAIN aggs}
  <2>1. Effective(E, s, own) = Tightest({own} \cup x \cup y) BY DEF Effective
  <2>2. Q = {own} \cup x /\ AggregateBudgets(aggs, s) = y BY DEF AggregateBudgets
  <2> HIDE DEF Q, x, y
  <2> QED BY <2>1, <2>2
<1> HIDE DEF Q
<1>7. Tightest(Q \cup AggregateBudgets(A, s)) = Tightest(Q \cup Named(InOf(F, s), s))
  <2>1. TightestAlike(A, F, s, Q) BY <1>2, <1>5, AggregatesTightest
  <2> QED BY <2>1 DEF TightestAlike
<1>8. Q \cup Named(InOf(F, s), s) = {own} \cup Named(InOf(Ledger(E, F), s), s)
  BY <1>3, <1>4 DEF Q
<1> QED BY <1>1, <1>6, <1>7, <1>8 DEF Bounded

LEMMA EntriesSound ==
  ASSUME LedgerInv, LedgerFolds
  PROVE  /\ Sound(entries, folded) /\ Accounts = Ledger(entries, folded)
         /\ \A s : In(s) = InOf(Ledger(entries, folded), s)
<1>1. Sound(entries, folded) BY DEF LedgerInv, LedgerFolds, Books, Sound
<1>2. Accounts = Ledger(entries, folded) BY DEF Accounts, Ledger, Recorded
<1> QED BY <1>1, <1>2 DEF In, InOf

\* Compaction is invisible to the bounds that live on: what they commit, what
\* they fail closed for, and the tightest budget they were named with are those
\* of every record ever charged to them (budget-ledger.ts, compact and fold).
THEOREM FoldedTruly == LedgerSpec => []FoldingKeepsAccounts
<1>1. LedgerInv /\ LedgerFolds => FoldingKeepsAccounts
  <2> SUFFICES ASSUME LedgerInv, LedgerFolds, NEW s \in Bounds
               PROVE  /\ \A d \in Dims :
                           /\ Committed(entries, s, d) = Charged(In(s), d)
                           /\ Unreserved(entries, s, d) <=>
                                \E f \in In(s) : HoldsNoEstimate(f.e, d)
                      /\ Effective(entries, s, NoBudget) = Tightest(Named(In(s), s))
    BY DEF FoldingKeepsAccounts
  <2>1. Sound(entries, folded) /\ In(s) = InOf(Ledger(entries, folded), s) BY EntriesSound
  <2>2. PICK E, F : E = entries /\ F = folded OBVIOUS
  <2>3. Sound(E, F) BY <2>1, <2>2
  <2>4. ASSUME NEW d \in Dims
        PROVE  /\ Committed(E, s, d) = Charged(InOf(Ledger(E, F), s), d)
               /\ Unreserved(E, s, d) <=> \E f \in InOf(Ledger(E, F), s) : HoldsNoEstimate(f.e, d)
    <3>1. Counts(E, F, s, d) BY <2>3, CommittedIs, LedgerAssumption
    <3>2. Unreserved(E, s, d) <=> FailsClosed(InOf(Ledger(E, F), s), d)
      BY <2>3, UnreservedIs, LedgerAssumption
    <3> QED BY <3>1, <3>2 DEF FailsClosed, Counts
  <2>5. NoBudget \in Budgets BY DEF NoBudget, Budgets
  <2>10. Bounded(E, F, s, NoBudget) BY <2>3, <2>5, EffectiveIs, LedgerAssumption
  <2>6. Effective(E, s, NoBudget) = Tightest({NoBudget} \cup Named(InOf(Ledger(E, F), s), s))
    BY <2>10 DEF Bounded
  <2> DEFINE Q == Named(InOf(Ledger(E, F), s), s)
  <2>7. Q \subseteq Budgets
    <3>1. \A f \in InOf(Ledger(E, F), s) : f.keep \in ScopeSeqs
      BY <2>3, WrittenIs, LedgerAssumption
    <3> QED BY <3>1, NamedFit
  <2> HIDE DEF Q
  <2>8. Tightest({Tightest({})} \cup Q) = Tightest({} \cup Q)
    <3>1. {} \subseteq Budgets OBVIOUS
    <3> QED BY <2>7, <3>1, TightestAfter
  <2>9. Tightest({NoBudget} \cup Q) = Tightest(Q) BY <2>8, TightestOfNone
  <2> QED BY <2>1, <2>2, <2>4, <2>6, <2>9 DEF Q
<1> QED BY <1>1, LedgerStands, FoldsStand, PTL

-----------------------------------------------------------------------------
(* What an admission says of the accounts. *)

Account(in) == [n |-> -1, e |-> Reserved(in), keep |-> in.chain]
Dismissed(in) == [n |-> -1, e |-> Released(Reserved(in)), keep |-> in.chain]
Promised(fresh, n) == {Account(fresh[i]) : i \in 1..n}

\* The ledger's own budget bounds the ledger itself alone.
OwnIn(s) == IF s = Whole THEN {Budget} ELSE {}
Cap(L, in, s) == Tightest(OwnIn(s) \cup Named(InOf(L, s), s) \cup BudgetsIn(in.chain, s))

\* The bound of s admits the attempt beside the accounts L.
FitsIn(in, L, s) ==
  /\ ~(in.unaccounted /\ Cap(L, in, s).reject)
  /\ \A d \in Dims : Cap(L, in, s)[d] # None =>
       /\ in.est[d] = None => d = "usd" /\ in.unpriced /\ ~Cap(L, in, s).reject
       /\ ~FailsClosed(InOf(L, s), d)
       /\ Charged(InOf(L, s), d) + OrZero(in.est[d]) <= Cap(L, in, s)[d]
Passed(in, L) == \A s : InScope(in.chain, s) => FitsIn(in, L, s)

\* What AdmittedWithinEveryBound asks of an attempt and one of its bounds, for
\* the accounts L before a step and M after it.
StaysWithin(L, M, in, s) ==
  LET cap == Tightest(OwnIn(s) \cup Named(InOf(M, s), s))
  IN /\ \A d \in {x \in Dims : cap[x] # None} :
          Charged(InOf(M, s), d) <= cap[d] /\ \A f \in InOf(M, s) : ~HoldsNoEstimate(f.e, d)
     /\ Cap(L, in, s).reject =>
          ~in.unaccounted /\ \A d \in {x \in Dims : Cap(L, in, s)[x] # None} : in.est[d] # None

IsLedger(L) == IsFiniteSet(L) /\ \A f \in L : IsRecord(f.e) /\ f.keep \in ScopeSeqs
Distinct(fresh, n) ==
  /\ \A i \in 1..n : fresh[i] \in Offers
  /\ \A i, j \in 1..n : fresh[i].id = fresh[j].id => i = j
NewTo(L, fresh, n) == \A f \in L, i \in 1..n : f.e.in.id # fresh[i].id
\* The marks h leave each attempt reserved or released.
Marks(h, fresh, n) ==
  DOMAIN h = 1..n /\ \A i \in 1..n : h[i] \in {Account(fresh[i]), Dismissed(fresh[i])}

LEMMA AccountIs ==
  ASSUME LedgerAssumption, NEW in \in Offers, NEW f \in {Account(in), Dismissed(in)}
  PROVE  /\ IsRecord(f.e) /\ f.e.in = in /\ f.keep = in.chain /\ f.keep \in ScopeSeqs
         /\ \A d \in Dims : ChargeOf(f.e, d) \in Nat /\ ChargeOf(f.e, d) <= OrZero(in.est[d])
         /\ f = Account(in) => \A d \in Dims : ChargeOf(f.e, d) = OrZero(in.est[d])
         /\ \A d \in Dims : HoldsNoEstimate(f.e, d) =>
              in.est[d] = None /\ ~(d = "usd" /\ in.unpriced) /\ HoldsNoEstimate(Account(in).e, d)
<1> DEFINE e == Reserved(in)
<1>1. IsRecord(e) /\ e.in = in /\ e.state = "reserved" BY ReservedIs
<1>2. e.actual = Unknown /\ e.unpriced = in.unpriced BY DEF Reserved
<1>3. \A d \in Dims : Unknown[d] = None BY DEF Dims, Unknown
<1>9. Unknown.usd = None BY DEF Unknown
<1> HIDE DEF e
<1>4. IsRecord(Released(e)) /\ Released(e).in = in /\ Released(e).state = "released"
  BY <1>1, ReleasedIs
<1>5. in.chain \in ScopeSeqs BY DEF LedgerAssumption, ScopeSeqs
<1>6. \A d \in Dims : ChargeOf(e, d) = OrZero(in.est[d]) BY <1>1, <1>2, <1>3 DEF ChargeOf
<1>7. \A d \in Dims : ChargeOf(e, d) \in Nat BY <1>1, ChargeIs
<1>8. \A d \in Dims : HoldsNoEstimate(e, d) => in.est[d] = None /\ ~(d = "usd" /\ in.unpriced)
  BY <1>1, <1>2, <1>9 DEF HoldsNoEstimate, NoAmount, UnpricedUsd
<1>10. Account(in).e = e /\ Account(in).keep = in.chain BY DEF Account, e
<1>11. CASE f = Account(in)
  BY <1>1, <1>5, <1>6, <1>7, <1>8, <1>10, <1>11
<1>12. CASE f = Dismissed(in) /\ f # Account(in)
  <2>1. f.e = Released(e) /\ f.keep = in.chain BY <1>12 DEF Dismissed, e
  <2>2. \A d \in Dims : ChargeOf(f.e, d) = 0 /\ ~HoldsNoEstimate(f.e, d)
    BY <1>4, <2>1 DEF ChargeOf, HoldsNoEstimate, NoAmount
  <2>3. \A d \in Dims : OrZero(in.est[d]) \in Nat BY <1>6, <1>7
  <2> QED BY <1>4, <1>5, <1>12, <2>1, <2>2, <2>3
<1> QED BY <1>11, <1>12

\* The accounts added by marks, and what they are charged in a scope.
Inside(fresh, n, s) == {i \in 1..n : InScope(fresh[i].chain, s)}
MarkCharge(h, I, d) == SumFunctionOnSet([i \in I |-> ChargeOf(h[i].e, d)], I)
Marked(h, I) == {h[i] : i \in I}
Grown(L, h, I, s, d) ==
  Charged(InOf(L, s) \cup Marked(h, I), d) = Charged(InOf(L, s), d) + MarkCharge(h, I, d)

LEMMA MarksCharge ==
  ASSUME LedgerAssumption, NEW L, IsLedger(L), NEW fresh, NEW n \in Nat, Distinct(fresh, n),
         NewTo(L, fresh, n), NEW h, Marks(h, fresh, n), NEW I, I \subseteq 1..n, NEW s, NEW d \in Dims
  PROVE  Grown(L, h, I, s, d)
<1> DEFINE v == [i \in I |-> ChargeOf(h[i].e, d)]
           H == {h[i] : i \in I}
           w == [f \in H |-> ChargeOf(f.e, d)]
           K == InOf(L, s)
<1>1. ASSUME NEW i \in I
      PROVE  IsRecord(h[i].e) /\ h[i].e.in = fresh[i] /\ ChargeOf(h[i].e, d) \in Nat
  <2>1. fresh[i] \in Offers /\ h[i] \in {Account(fresh[i]), Dismissed(fresh[i])}
    BY DEF Distinct, Marks
  <2>2. PICK in, f : in = fresh[i] /\ f = h[i] OBVIOUS
  <2>3. IsRecord(f.e) /\ f.e.in = in /\ ChargeOf(f.e, d) \in Nat BY <2>1, <2>2, AccountIs
  <2> QED BY <2>2, <2>3
<1>2. \A i, j \in I : h[i] = h[j] => i = j BY <1>1 DEF Distinct
<1>3. IsFiniteSet(I)
  <2>1. IsFiniteSet(1..n) BY FS_Interval
  <2> QED BY <2>1, FS_Subset
<1>4. \A i \in I : v[i] \in Int /\ w[h[i]] = v[i] BY <1>1
<1>5. Charged(H, d) = SumFunctionOnSet(w, H) BY Zenon DEF Charged
<1>6. MarkCharge(h, I, d) = SumFunctionOnSet(v, I) BY Zenon DEF MarkCharge
<1>7. Apart(K, H)
  <2>1. IsFiniteSet(H) BY ONLY <1>3, ImageIsFinite DEF H
  <2>2. K \subseteq L /\ IsFiniteSet(L) BY DEF InOf, IsLedger
  <2>3. IsFiniteSet(K) BY <2>2, FS_Subset
  <2>4. \A f \in K : \A i \in I : f # h[i] BY <1>1, <2>2 DEF NewTo
  <2>5. \A f \in K : IsRecord(f.e) BY <2>2 DEF IsLedger
  <2>6. \A f \in H : IsRecord(f.e) BY <1>1
  <2>7. K \cap H = {} BY <2>4
  <2> HIDE DEF K, H
  <2> QED BY <2>1, <2>3, <2>5, <2>6, <2>7 DEF Apart
<1>8. Marked(h, I) = H BY DEF Marked
<1> HIDE DEF K, w, v
<1>9. SumFunctionOnSet(w, {h[i] : i \in I}) = SumFunctionOnSet(v, I) BY ONLY <1>2, <1>3, <1>4, SumOver
<1> HIDE DEF H
<1>10. AddUp(K, H, d) BY <1>7, ChargedJoin
<1>11. Charged(K \cup H, d) = Charged(K, d) + Charged(H, d) BY <1>10 DEF AddUp
<1>12. Charged(H, d) = MarkCharge(h, I, d) BY <1>5, <1>6, <1>9 DEF H
<1> QED BY <1>8, <1>11, <1>12 DEF Grown, K

\* The accounts after some attempts of a batch, in one scope.
Asked(fresh, I, s) == UNION {BudgetsIn(fresh[i].chain, s) : i \in I}
Extends(L, M, fresh, h, I, s) ==
  /\ InOf(M, s) = InOf(L, s) \cup Marked(h, I)
  /\ Named(InOf(M, s), s) = Named(InOf(L, s), s) \cup Asked(fresh, I, s)

LEMMA MarksIn ==
  ASSUME NEW L, NEW fresh, NEW n \in Nat, NEW h, Marks(h, fresh, n), NEW s, NEW t \in 0..n
  PROVE  /\ Inside(fresh, t, s) \subseteq 1..n
         /\ Extends(L, L \cup Marked(h, 1..t), fresh, h, Inside(fresh, t, s), s)
<1> DEFINE I == Inside(fresh, t, s)
           M == L \cup Marked(h, 1..t)
<1>0. M = L \cup {h[i] : i \in 1..t} BY DEF Marked
<1>1. \A i \in 1..t : i \in 1..n OBVIOUS
<1>2. ASSUME NEW i \in 1..t PROVE h[i].keep = fresh[i].chain
  BY <1>1 DEF Marks, Account, Dismissed
<1>3. I \subseteq 1..n /\ \A i \in I : i \in 1..t /\ InScope(fresh[i].chain, s)
  BY <1>1 DEF Inside
<1>4. \A i \in 1..t : InScope(fresh[i].chain, s) => i \in I BY DEF Inside
<1>5. Marked(h, I) = {h[i] : i \in I} BY DEF Marked
<1> HIDE DEF I, M
<1>6. InOf(M, s) = InOf(L, s) \cup {h[i] : i \in I}
  <2>1. \A f \in InOf(L, s) \cup {h[i] : i \in I} : f \in M /\ InScope(f.keep, s)
    BY <1>0, <1>2, <1>3 DEF InOf
  <2>2. \A f \in M : InScope(f.keep, s) => f \in InOf(L, s) \cup {h[i] : i \in I}
    BY <1>0, <1>2, <1>4 DEF InOf
  <2> QED BY <2>1, <2>2 DEF InOf
<1>7. Named(InOf(M, s), s) =
        Named(InOf(L, s), s) \cup UNION {BudgetsIn(fresh[i].chain, s) : i \in I}
  <2>1. {BudgetsIn(f.keep, s) : f \in {h[i] : i \in I}} = {BudgetsIn(fresh[i].chain, s) : i \in I}
    BY <1>2, <1>3
  <2> QED BY <1>6, <2>1 DEF Named
<1> QED BY <1>3, <1>5, <1>6, <1>7 DEF I, M, Extends, Asked

LEMMA LastIn ==
  ASSUME NEW n \in Nat, NEW I, I \subseteq 1..n, I # {}
  PROVE  \E j \in I : \A i \in I : i <= j
<1> DEFINE T == {n - i : i \in I}
<1>1. T \subseteq Nat /\ T # {}
  <2>1. \A i \in I : i \in 1..n OBVIOUS
  <2>2. \A i \in 1..n : n - i \in Nat OBVIOUS
  <2>3. \A i \in I : n - i \in Nat BY <2>1, <2>2
  <2>4. PICK i \in I : TRUE OBVIOUS
  <2>5. n - i \in T OBVIOUS
  <2> QED BY <2>3, <2>5
<1>2. PICK m \in T : \A x \in T : m <= x BY <1>1, LeastNat
<1>3. PICK j \in I : m = n - j OBVIOUS
<1>4. ASSUME NEW i \in I PROVE i <= j
  <2>1. n - j <= n - i BY <1>2, <1>3
  <2> QED BY <2>1
<1> QED BY <1>4

\* A budget named for a bound binds it ever after.
LEMMA MoreBinds ==
  ASSUME NEW S, NEW T, S \subseteq T, T \subseteq Budgets
  PROVE  /\ Tightest(S).reject => Tightest(T).reject
         /\ \A d \in Dims : Tightest(S)[d] # None => Tightest(T)[d] # None
<1>1. S \subseteq Budgets OBVIOUS
<1>2. /\ Tightest(S) \in Budgets
      /\ \A d \in Dims, m \in Nat :
           (Tightest(S)[d] # None /\ Tightest(S)[d] <= m) <=> Under(S, d, m)
      /\ Tightest(S).reject <=> Rejects(S)
  BY <1>1, TightestIs
<1>3. /\ \A d \in Dims, m \in Nat :
           (Tightest(T)[d] # None /\ Tightest(T)[d] <= m) <=> Under(T, d, m)
      /\ Tightest(T).reject <=> Rejects(T)
  BY TightestIs
<1>4. Rejects(S) => Rejects(T) BY DEF Rejects
<1>5. \A d, m : Under(S, d, m) => Under(T, d, m) BY DEF Under
<1>6. ASSUME NEW d \in Dims, Tightest(S)[d] # None PROVE Tightest(T)[d] # None
  <2>1. Tightest(S)[d] \in Nat BY <1>2, <1>6 DEF Budgets, Dims
  <2>2. PICK m \in Nat : m = Tightest(S)[d] BY <2>1
  <2>3. Under(S, d, m) BY <1>2, <1>6, <2>2
  <2> QED BY <1>3, <1>5, <2>3
<1> QED BY <1>2, <1>3, <1>4, <1>6

LEMMA CapFits ==
  ASSUME LedgerAssumption, NEW L, IsLedger(L), NEW s, NEW in \in Offers \cup Adopted
  PROVE  /\ Named(InOf(L, s), s) \subseteq Budgets /\ BudgetsIn(in.chain, s) \subseteq Budgets
         /\ OwnIn(s) \subseteq Budgets
<1>1. \A f \in InOf(L, s) : f.keep \in ScopeSeqs BY DEF InOf, IsLedger
<1>2. Named(InOf(L, s), s) \subseteq Budgets BY <1>1, NamedFit
<1>3. BudgetsIn(in.chain, s) \subseteq Budgets
  <2>1. PICK k : k = in.chain OBVIOUS
  <2>2. k \in ScopeSeqs BY <2>1 DEF LedgerAssumption, ScopeSeqs
  <2>3. \A i \in DOMAIN k : k[i].budget \in Budgets BY <2>2, BudgetAt
  <2> QED BY <2>1, <2>3 DEF BudgetsIn
<1>4. OwnIn(s) \subseteq Budgets BY DEF OwnIn, LedgerAssumption
<1> QED BY <1>2, <1>3, <1>4

InTurnPassed(L, fresh, n) == \A i \in 1..n : Passed(fresh[i], L \cup Promised(fresh, i - 1))

LEMMA LedgerGrows ==
  ASSUME LedgerAssumption, NEW L, IsLedger(L), NEW fresh, NEW n \in Nat, Distinct(fresh, n),
         NEW h, Marks(h, fresh, n), NEW t \in 0..n
  PROVE  IsLedger(L \cup Marked(h, 1..t))
<1>1. IsFiniteSet(1..t) BY FS_Interval
<1>2. IsFiniteSet({h[i] : i \in 1..t}) BY ONLY <1>1, ImageIsFinite
<1>3. IsFiniteSet(L \cup {h[i] : i \in 1..t}) BY <1>2, FS_Union DEF IsLedger
<1>4. ASSUME NEW i \in 1..t PROVE IsRecord(h[i].e) /\ h[i].keep \in ScopeSeqs
  <2>1. i \in 1..n OBVIOUS
  <2>2. fresh[i] \in Offers /\ h[i] \in {Account(fresh[i]), Dismissed(fresh[i])}
    BY <2>1 DEF Distinct, Marks
  <2>3. PICK in, f : in = fresh[i] /\ f = h[i] OBVIOUS
  <2>4. IsRecord(f.e) /\ f.keep \in ScopeSeqs BY <2>2, <2>3, AccountIs
  <2> QED BY <2>3, <2>4
<1> QED BY <1>3, <1>4 DEF IsLedger, Marked

\* The marks are charged no more than what was promised.
LEMMA MarksLess ==
  ASSUME LedgerAssumption, NEW fresh, NEW n \in Nat, Distinct(fresh, n),
         NEW h, Marks(h, fresh, n), NEW p, p = [i \in 1..n |-> Account(fresh[i])],
         NEW J, J \subseteq 1..n, NEW j \in 1..n, j \notin J, NEW d \in Dims
  PROVE  /\ MarkCharge(h, J \cup {j}, d) \in Int /\ MarkCharge(p, J, d) \in Int
         /\ OrZero(fresh[j].est[d]) \in Nat
         /\ MarkCharge(h, J \cup {j}, d) <= MarkCharge(p, J, d) + OrZero(fresh[j].est[d])
<1> DEFINE I == J \cup {j}
           v == [i \in I |-> ChargeOf(h[i].e, d)]
           w == [i \in I |-> ChargeOf(p[i].e, d)]
           u == [i \in J |-> ChargeOf(p[i].e, d)]
<1>1. ASSUME NEW i \in 1..n
      PROVE  /\ ChargeOf(h[i].e, d) \in Nat /\ ChargeOf(p[i].e, d) \in Nat
             /\ ChargeOf(p[i].e, d) = OrZero(fresh[i].est[d])
             /\ ChargeOf(h[i].e, d) <= ChargeOf(p[i].e, d)
  <2>1. fresh[i] \in Offers /\ h[i] \in {Account(fresh[i]), Dismissed(fresh[i])}
        /\ p[i] = Account(fresh[i])
    BY DEF Distinct, Marks
  <2>2. PICK in, f, g : in = fresh[i] /\ f = h[i] /\ g = p[i] OBVIOUS
  <2>3. in \in Offers /\ f \in {Account(in), Dismissed(in)} /\ g = Account(in) BY <2>1, <2>2
  <2>4. ChargeOf(f.e, d) \in Nat /\ ChargeOf(f.e, d) <= OrZero(in.est[d]) BY <2>3, AccountIs
  <2>5. ChargeOf(g.e, d) \in Nat /\ ChargeOf(g.e, d) = OrZero(in.est[d]) BY <2>3, AccountIs
  <2> QED BY <2>2, <2>4, <2>5
<1>2. IsFiniteSet(I) /\ IsFiniteSet(J) /\ I \subseteq 1..n
  <2>1. IsFiniteSet(1..n) BY FS_Interval
  <2> QED BY <2>1, FS_Subset
<1>3. \A i \in I : v[i] \in Int /\ w[i] \in Int /\ v[i] <= w[i]
  <2> SUFFICES ASSUME NEW i \in I PROVE v[i] \in Int /\ w[i] \in Int /\ v[i] <= w[i] OBVIOUS
  <2>1. i \in 1..n BY <1>2
  <2>2. v[i] = ChargeOf(h[i].e, d) /\ w[i] = ChargeOf(p[i].e, d) OBVIOUS
  <2> QED BY <1>1, <2>1, <2>2
<1>4. \A i \in J : w[i] = u[i] /\ w[i] \in Int
  <2> SUFFICES ASSUME NEW i \in J PROVE w[i] = u[i] /\ w[i] \in Int OBVIOUS
  <2> QED BY <1>3
<1>5. w[j] \in Int /\ w[j] = OrZero(fresh[j].est[d]) /\ OrZero(fresh[j].est[d]) \in Nat
  <2>1. w[j] = ChargeOf(p[j].e, d) OBVIOUS
  <2> QED BY <1>1, <2>1
<1>6. MarkCharge(h, I, d) = SumFunctionOnSet(v, I) BY Zenon DEF MarkCharge
<1>7. MarkCharge(p, J, d) = SumFunctionOnSet(u, J) BY Zenon DEF MarkCharge
<1>8. I = J \cup {j} OBVIOUS
<1> HIDE DEF v, w, u, I
<1>9. SumFunctionOnSet(v, I) <= SumFunctionOnSet(w, I) BY ONLY <1>2, <1>3, SumLess
<1>10. SumFunctionOnSet(w, J) = SumFunctionOnSet(u, J) BY ONLY <1>2, <1>4, SumSame
<1>11. SumFunctionOnSet(w, J \cup {j}) = w[j] + SumFunctionOnSet(w, J)
  <2>1. \A y \in J : w[y] \in Int BY <1>4
  <2>2. IsFiniteSet(J) /\ j \notin J /\ w[j] \in Int BY <1>2, <1>5
  <2> QED BY ONLY <2>1, <2>2, SumAdd
<1>12. SumFunctionOnSet(v, I) \in Int /\ SumFunctionOnSet(w, J) \in Int
  <2>1. \A i \in I : v[i] \in Int BY <1>3
  <2>2. \A i \in J : w[i] \in Int BY <1>4
  <2>3. SumFunctionOnSet(v, I) \in Int BY ONLY <1>2, <2>1, SumInt
  <2>4. SumFunctionOnSet(w, J) \in Int BY ONLY <1>2, <2>2, SumInt
  <2> QED BY <2>3, <2>4
<1> QED BY ONLY <1>5, <1>6, <1>7, <1>8, <1>9, <1>10, <1>11, <1>12

\* Attempts admitted each after the ones before it stay within a bound of any of
\* them: the last of them in that bound was checked against all its budgets.
LEMMA TurnsStay ==
  ASSUME LedgerAssumption, NEW L, IsLedger(L), NEW fresh, NEW n \in Nat, Distinct(fresh, n),
         NewTo(L, fresh, n), InTurnPassed(L, fresh, n), NEW h, Marks(h, fresh, n),
         NEW k \in 1..n, NEW s, InScope(fresh[k].chain, s)
  PROVE  StaysWithin(L, L \cup Marked(h, 1..n), fresh[k], s)
<1> DEFINE p == [i \in 1..n |-> Account(fresh[i])]
           M == L \cup Marked(h, 1..n)
           I == Inside(fresh, n, s)
<1>1. Marks(p, fresh, n) BY DEF Marks
<1>2. \A t \in 0..n : Promised(fresh, t) = Marked(p, 1..t)
  <2> SUFFICES ASSUME NEW t \in 0..n PROVE Promised(fresh, t) = Marked(p, 1..t) OBVIOUS
  <2>1. \A i \in 1..t : i \in 1..n OBVIOUS
  <2>2. \A i \in 1..t : p[i] = Account(fresh[i]) BY <2>1
  <2> QED BY <2>2 DEF Promised, Marked
<1>3. I \subseteq 1..n /\ Extends(L, M, fresh, h, I, s)
  <2>1. n \in 0..n OBVIOUS
  <2> HIDE DEF p
  <2> QED BY ONLY n \in Nat, Marks(h, fresh, n), <2>1, MarksIn
<1>4. k \in I BY DEF Inside
<1>5. PICK j \in I : \A i \in I : i <= j BY <1>3, <1>4, LastIn
<1> DEFINE J == Inside(fresh, j - 1, s)
           P == L \cup Promised(fresh, j - 1)
<1>6. j \in 1..n /\ j - 1 \in 0..n BY <1>3
<1>7. J \subseteq 1..n /\ I = J \cup {j} /\ j \notin J
  <2>1. \A i \in I : i \in J \cup {j} BY <1>3, <1>5, <1>6 DEF Inside
  <2>2. \A i \in J : i \in I /\ i # j BY <1>6 DEF Inside
  <2> QED BY <1>3, <2>1, <2>2
<1>8. P = L \cup Marked(p, 1..j-1) BY <1>2, <1>6
<1>9. Extends(L, P, fresh, p, J, s)
  <2> HIDE DEF p
  <2>1. Extends(L, L \cup Marked(p, 1..j-1), fresh, p, J, s)
    BY ONLY n \in Nat, <1>1, <1>6, MarksIn
  <2> QED BY <1>8, <2>1
<1>10. FitsIn(fresh[j], P, s)
  <2>1. Passed(fresh[j], P) BY <1>6 DEF InTurnPassed
  <2>2. InScope(fresh[j].chain, s) BY DEF Inside
  <2> QED BY <2>1, <2>2 DEF Passed
<1>11. Cap(P, fresh[j], s) = Tightest(OwnIn(s) \cup Named(InOf(M, s), s))
  <2>1. Asked(fresh, I, s) = Asked(fresh, J, s) \cup BudgetsIn(fresh[j].chain, s)
    BY <1>7 DEF Asked
  <2>2. Named(InOf(M, s), s) = Named(InOf(P, s), s) \cup BudgetsIn(fresh[j].chain, s)
    <3> HIDE DEF M, P, I, J
    <3> QED BY <1>3, <1>9, <2>1 DEF Extends
  <2>3. OwnIn(s) \cup Named(InOf(M, s), s) = OwnIn(s) \cup Named(InOf(P, s), s) \cup BudgetsIn(fresh[j].chain, s) BY <2>2
  <2> HIDE DEF M, P, I, J
  <2> QED BY <2>3 DEF Cap
<1>12. ASSUME NEW d \in Dims, Cap(P, fresh[j], s)[d] # None
       PROVE  Charged(InOf(M, s), d) <= Cap(P, fresh[j], s)[d]
  <2>1. Grown(L, h, I, s, d) BY <1>3, MarksCharge
  <2>2. Grown(L, p, J, s, d)
    <3> HIDE DEF p
    <3> QED BY <1>1, <1>7, MarksCharge
  <2>3. Charged(InOf(M, s), d) = Charged(InOf(L, s), d) + MarkCharge(h, J \cup {j}, d)
    <3> HIDE DEF M, I
    <3> QED BY <1>3, <1>7, <2>1 DEF Grown, Extends
  <2>4. Charged(InOf(P, s), d) = Charged(InOf(L, s), d) + MarkCharge(p, J, d)
    <3> HIDE DEF P, p
    <3> QED BY <1>9, <2>2 DEF Grown, Extends
  <2>5. /\ MarkCharge(h, J \cup {j}, d) \in Int /\ MarkCharge(p, J, d) \in Int
        /\ OrZero(fresh[j].est[d]) \in Nat
        /\ MarkCharge(h, J \cup {j}, d) <= MarkCharge(p, J, d) + OrZero(fresh[j].est[d])
    <3> HIDE DEF J
    <3> QED BY <1>6, <1>7, MarksLess
  <2>6. Charged(InOf(L, s), d) \in Nat
    <3>1. InOf(L, s) \subseteq L /\ IsFiniteSet(L) BY DEF InOf, IsLedger
    <3>2. IsFiniteSet(InOf(L, s)) BY <3>1, FS_Subset
    <3>3. \A f \in InOf(L, s) : IsRecord(f.e) BY <3>1 DEF IsLedger
    <3> QED BY <3>2, <3>3, ChargedIs
  <2>7. Charged(InOf(P, s), d) + OrZero(fresh[j].est[d]) <= Cap(P, fresh[j], s)[d]
    BY <1>10, <1>12 DEF FitsIn
  <2>8. Cap(P, fresh[j], s)[d] \in Int
    <3>1. IsLedger(P) BY <1>1, <1>6, <1>8, LedgerGrows
    <3>2. Cap(P, fresh[j], s) \in Budgets
      <4>1. fresh[j] \in Offers \cup Adopted BY <1>6 DEF Distinct
      <4> HIDE DEF P
      <4>2. /\ Named(InOf(P, s), s) \subseteq Budgets /\ BudgetsIn(fresh[j].chain, s) \subseteq Budgets
            /\ OwnIn(s) \subseteq Budgets
        <5>1. PICK in : in = fresh[j] OBVIOUS
        <5> QED BY <3>1, <4>1, <5>1, CapFits
      <4> QED BY <4>2, TightestIs DEF Cap
    <3> QED BY <3>2 DEF Budgets, Dims, None
  <2> HIDE DEF M, P, p, J
  <2> QED BY ONLY <2>3, <2>4, <2>5, <2>6, <2>7, <2>8
<1>13. ASSUME NEW d \in Dims, Cap(P, fresh[j], s)[d] # None, NEW f \in InOf(M, s)
       PROVE  ~HoldsNoEstimate(f.e, d)
  <2>1. ~FailsClosed(InOf(P, s), d) BY <1>10, <1>13 DEF FitsIn
  <2>2. InOf(P, s) = InOf(L, s) \cup Marked(p, J) /\ InOf(M, s) = InOf(L, s) \cup Marked(h, I)
    <3> HIDE DEF P, M, p, I, J
    <3> QED BY <1>3, <1>9 DEF Extends
  <2>3. CASE f \in InOf(L, s) BY <2>1, <2>2, <2>3 DEF FailsClosed
  <2>4. CASE f \in Marked(h, I)
    <3>1. PICK i \in I : f = h[i] BY <2>4 DEF Marked
    <3>2. i \in 1..n BY <1>3
    <3>3. fresh[i] \in Offers /\ f \in {Account(fresh[i]), Dismissed(fresh[i])}
      BY <3>1, <3>2 DEF Distinct, Marks
    <3>4. HoldsNoEstimate(f.e, d) =>
            fresh[i].est[d] = None /\ ~(d = "usd" /\ fresh[i].unpriced)
            /\ HoldsNoEstimate(Account(fresh[i]).e, d)
      <4>1. PICK in, g : in = fresh[i] /\ g = f OBVIOUS
      <4>2. in \in Offers /\ g \in {Account(in), Dismissed(in)} BY <3>3, <4>1
      <4>3. HoldsNoEstimate(g.e, d) =>
              in.est[d] = None /\ ~(d = "usd" /\ in.unpriced)
              /\ HoldsNoEstimate(Account(in).e, d)
        BY ONLY LedgerAssumption, <4>2, d \in Dims, AccountIs
      <4> QED BY ONLY <4>1, <4>3
    <3>5. CASE i = j
      <4>1. fresh[j].est[d] = None => d = "usd" /\ fresh[j].unpriced
        BY <1>10, <1>13 DEF FitsIn
      <4> QED BY <3>4, <3>5, <4>1
    <3>6. CASE i # j
      <4>1. i \in J BY <1>7, <3>6
      <4>2. p[i] \in Marked(p, J) BY <4>1 DEF Marked
      <4>3. p[i] = Account(fresh[i]) BY <3>2
      <4> HIDE DEF P, p
      <4>4. ~HoldsNoEstimate(p[i].e, d) BY <2>1, <2>2, <4>2 DEF FailsClosed
      <4> QED BY <3>4, <4>3, <4>4
    <3> QED BY <3>5, <3>6
  <2> QED BY <2>2, <2>3, <2>4
<1>14. ASSUME Cap(L, fresh[k], s).reject
       PROVE  /\ ~fresh[k].unaccounted
              /\ \A d \in {x \in Dims : Cap(L, fresh[k], s)[x] # None} : fresh[k].est[d] # None
  <2> DEFINE K == L \cup Promised(fresh, k - 1)
             S == OwnIn(s) \cup Named(InOf(L, s), s) \cup BudgetsIn(fresh[k].chain, s)
             T == OwnIn(s) \cup Named(InOf(K, s), s) \cup BudgetsIn(fresh[k].chain, s)
  <2>1. FitsIn(fresh[k], K, s) BY DEF InTurnPassed, Passed
  <2>2. k - 1 \in 0..n /\ K = L \cup Marked(p, 1..k-1) BY <1>2
  <2>3. Named(InOf(L, s), s) \subseteq Named(InOf(K, s), s)
    <3> HIDE DEF p, K
    <3>1. Extends(L, L \cup Marked(p, 1..k-1), fresh, p, Inside(fresh, k-1, s), s)
      BY ONLY n \in Nat, <1>1, <2>2, MarksIn
    <3> QED BY <2>2, <3>1 DEF Extends
  <2>4. T \subseteq Budgets
    <3> HIDE DEF p
    <3>1. IsLedger(L \cup Marked(p, 1..k-1)) BY <1>1, <2>2, LedgerGrows
    <3>2. IsLedger(K) BY <2>2, <3>1
    <3>3. fresh[k] \in Offers \cup Adopted BY DEF Distinct
    <3> HIDE DEF K
    <3>4. /\ Named(InOf(K, s), s) \subseteq Budgets /\ BudgetsIn(fresh[k].chain, s) \subseteq Budgets
          /\ OwnIn(s) \subseteq Budgets
      <4>1. PICK in : in = fresh[k] OBVIOUS
      <4> QED BY <3>2, <3>3, <4>1, CapFits
    <3> QED BY <3>4
  <2>5. S \subseteq T BY <2>3
  <2>6. Cap(L, fresh[k], s) = Tightest(S) /\ Cap(K, fresh[k], s) = Tightest(T) BY DEF Cap
  <2> HIDE DEF S, T, K
  <2>7. /\ Tightest(S).reject => Tightest(T).reject
        /\ \A d \in Dims : Tightest(S)[d] # None => Tightest(T)[d] # None
    BY <2>4, <2>5, MoreBinds
  <2> QED BY <1>14, <2>1, <2>6, <2>7 DEF FitsIn
<1> HIDE DEF M, P, p
<1> QED BY <1>11, <1>12, <1>13, <1>14 DEF StaysWithin, M

\* A bound that fits by the ledger's own sums and aggregates admits the attempt
\* beside every record ever charged to it.
LEMMA BoundFits ==
  ASSUME LedgerAssumption, NEW E, NEW F, Sound(E, F), NEW in, NEW s, NEW cap,
         cap = Cap(Ledger(E, F), in, s), FitsBound(in, cap, E, s)
  PROVE  FitsIn(in, Ledger(E, F), s)
<1> DEFINE L == Ledger(E, F)
<1>1. ~(in.unaccounted /\ cap.reject)
      /\ \A d \in Dims : cap[d] # None =>
           /\ in.est[d] = None => d = "usd" /\ in.unpriced /\ ~cap.reject
           /\ ~Unreserved(E, s, d)
           /\ Committed(E, s, d) + OrZero(in.est[d]) <= cap[d]
  BY DEF FitsBound
<1>2. ASSUME NEW d \in Dims
      PROVE  (Unreserved(E, s, d) <=> FailsClosed(InOf(L, s), d))
             /\ Committed(E, s, d) = Charged(InOf(L, s), d)
  <2>1. Unreserved(E, s, d) <=> FailsClosed(InOf(L, s), d) BY UnreservedIs
  <2>2. Counts(E, F, s, d) BY CommittedIs
  <2> QED BY <2>1, <2>2 DEF Counts
<1> HIDE DEF L
<1>3. cap = Cap(L, in, s) BY DEF L
<1>4. FitsIn(in, L, s) BY ONLY <1>1, <1>2, <1>3 DEF FitsIn
<1> QED BY <1>4 DEF L

\* No chain has the ledger itself as a scope.
LEMMA NoneWhole ==
  ASSUME NEW chain \in ScopeSeqs
  PROVE  BudgetsIn(chain, Whole) = {}
<1> DEFINE S == [id : STRING \ {Whole}, budget : Budgets]
<1>3. chain \in Seq(S) BY DEF ScopeSeqs
<1>1. \A i \in DOMAIN chain : chain[i] \in S
  <2> HIDE DEF S
  <2> QED BY <1>3
<1>2. \A i \in DOMAIN chain : chain[i].id # Whole BY <1>1
<1> QED BY <1>2 DEF BudgetsIn

\* An attempt the ledger admits fits every one of its bounds, however much of
\* their history is folded.
LEMMA AdmitsMeans ==
  ASSUME LedgerAssumption, NEW E, NEW F, Sound(E, F), NEW in \in Offers \cup Adopted, Admits(in, E)
  PROVE  Passed(in, Ledger(E, F))
<1> DEFINE L == Ledger(E, F)
<1>0. PICK chain : chain = in.chain OBVIOUS
<1>1. chain \in ScopeSeqs BY <1>0 DEF LedgerAssumption, ScopeSeqs
<1>2. \A f \in L : f.keep \in ScopeSeqs
  <2> SUFFICES ASSUME NEW f \in L PROVE f.keep \in ScopeSeqs OBVIOUS
  <2>1. f \in InOf(L, Whole) BY DEF InOf, InScope
  <2> QED BY <2>1, WrittenIs
<1> SUFFICES ASSUME NEW s, InScope(chain, s) PROVE FitsIn(in, L, s)
  BY <1>0 DEF Passed
<1>3. CASE s = Whole
  <2>1. FitsBound(in, Budget, E, s) BY <1>3 DEF Admits
  <2>2. BudgetsIn(in.chain, s) = {} BY <1>0, <1>1, <1>3, NoneWhole
  <2>3. Named(InOf(L, s), s) = {}
    <3>1. \A f \in InOf(L, s) : BudgetsIn(f.keep, s) = {}
      <4> SUFFICES ASSUME NEW f \in InOf(L, s) PROVE BudgetsIn(f.keep, s) = {} OBVIOUS
      <4>1. f.keep \in ScopeSeqs BY <1>2 DEF InOf
      <4>2. PICK c \in ScopeSeqs : c = f.keep BY <4>1
      <4> QED BY <1>3, <4>2, NoneWhole
    <3> QED BY <3>1 DEF Named
  <2>4. OwnIn(s) = {Budget} BY <1>3 DEF OwnIn
  <2>5. Budget \in Budgets BY DEF LedgerAssumption
  <2>6. Tightest({Budget}) = Budget BY <2>5, TightestOfOne
  <2> HIDE DEF L
  <2>7. Cap(L, in, s) = Budget BY <2>2, <2>3, <2>4, <2>6 DEF Cap
  <2>8. Budget = Cap(Ledger(E, F), in, s) BY <2>7 DEF L
  <2>9. FitsIn(in, Ledger(E, F), s) BY <2>1, <2>8, BoundFits
  <2> QED BY <2>9 DEF L
<1>4. CASE s # Whole
  <2>1. PICK i \in DOMAIN chain : chain[i].id = s BY <1>4 DEF InScope
  <2> DEFINE own == chain[i].budget
             cap == Effective(E, s, own)
  <2>2. FitsBound(in, cap, E, s) BY <1>0, <2>1 DEF Admits
  <2>3. own \in Budgets BY <1>1, BudgetAt
  <2>4. \A k \in DOMAIN chain : chain[k].id = chain[i].id => k = i
    BY <1>0 DEF LedgerAssumption
  <2>5. BudgetsIn(chain, s) = {own} BY <2>1, <2>4 DEF BudgetsIn
  <2> HIDE DEF own, cap, L
  <2>6. Bounded(E, F, s, own) BY <2>3, EffectiveIs
  <2>7. cap = Tightest({own} \cup Named(InOf(L, s), s)) BY <2>6 DEF Bounded, cap, L
  <2>8. OwnIn(s) = {} BY <1>4 DEF OwnIn
  <2>9. OwnIn(s) \cup Named(InOf(L, s), s) \cup BudgetsIn(in.chain, s)
          = {own} \cup Named(InOf(L, s), s)
    BY <1>0, <2>5, <2>8
  <2>10. cap = Cap(L, in, s) BY <2>7, <2>9 DEF Cap
  <2>11. cap = Cap(Ledger(E, F), in, s) BY <2>10 DEF L
  <2>12. FitsIn(in, Ledger(E, F), s) BY <2>2, <2>11, BoundFits
  <2> QED BY <2>12 DEF L
<1> QED BY <1>3, <1>4

-----------------------------------------------------------------------------
(* The records a step adds. *)

\* The step adds to the records E0 those of the marks.
Adds(E0, E, fresh, h, n) ==
  /\ DOMAIN E = DOMAIN E0 \cup {fresh[i].id : i \in 1..n}
  /\ \A r \in DOMAIN E0 : E[r] = E0[r]
  /\ \A i \in 1..n : fresh[i].id \notin DOMAIN E0 /\ E[fresh[i].id] = h[i].e

Joins(E0, E, F, h, n) == Ledger(E, F) = Ledger(E0, F) \cup Marked(h, 1..n)

LEMMA AddsAccounts ==
  ASSUME LedgerAssumption, NEW E0, NEW E, NEW F, NEW fresh, NEW n \in Nat, Distinct(fresh, n),
         NEW h, Marks(h, fresh, n), Adds(E0, E, fresh, h, n)
  PROVE  Joins(E0, E, F, h, n)
<1> DEFINE rec(X, r) == [n |-> -1, e |-> X[r], keep |-> X[r].in.chain]
<1>1. ASSUME NEW i \in 1..n PROVE h[i] = rec(E, fresh[i].id)
  <2>1. fresh[i] \in Offers /\ h[i] \in {Account(fresh[i]), Dismissed(fresh[i])}
    BY DEF Distinct, Marks
  <2>2. PICK in, f : in = fresh[i] /\ f = h[i] OBVIOUS
  <2>3. f.e.in = in BY <2>1, <2>2, AccountIs
  <2>4. f = [n |-> -1, e |-> f.e, keep |-> in.chain] BY <2>1, <2>2 DEF Account, Dismissed
  <2>5. E[fresh[i].id] = f.e BY <2>2 DEF Adds
  <2> QED BY <2>2, <2>3, <2>4, <2>5
<1>2. \A r \in DOMAIN E0 : rec(E, r) = rec(E0, r) BY DEF Adds
<1>3. DOMAIN E = DOMAIN E0 \cup {fresh[i].id : i \in 1..n} BY DEF Adds
<1>4. Recorded(E) = {rec(E, r) : r \in DOMAIN E} /\ Recorded(E0) = {rec(E0, r) : r \in DOMAIN E0}
  BY DEF Recorded
<1>5. Marked(h, 1..n) = {h[i] : i \in 1..n} BY DEF Marked
<1> HIDE DEF rec
<1>6. Recorded(E) = Recorded(E0) \cup Marked(h, 1..n)
  <2>1. \A f \in Recorded(E) : f \in Recorded(E0) \cup Marked(h, 1..n)
    <3> SUFFICES ASSUME NEW r \in DOMAIN E PROVE rec(E, r) \in Recorded(E0) \cup Marked(h, 1..n)
      BY <1>4
    <3>1. CASE r \in DOMAIN E0 BY <1>2, <1>4, <3>1
    <3>2. CASE r \notin DOMAIN E0
      <4>1. PICK i \in 1..n : r = fresh[i].id BY <1>3, <3>2
      <4> QED BY <1>1, <1>5, <4>1
    <3> QED BY <3>1, <3>2
  <2>2. \A r \in DOMAIN E0 : rec(E0, r) \in Recorded(E) BY <1>2, <1>3, <1>4
  <2>3. \A i \in 1..n : h[i] \in Recorded(E)
    <3> SUFFICES ASSUME NEW i \in 1..n PROVE h[i] \in Recorded(E) OBVIOUS
    <3>1. fresh[i].id \in DOMAIN E BY <1>3
    <3> QED BY <1>1, <1>4, <3>1
  <2> QED BY <1>4, <1>5, <2>1, <2>2, <2>3
<1> QED BY <1>6 DEF Ledger, Joins

LEMMA AfterAdds ==
  ASSUME LedgerAssumption, LedgerInv, NEW fresh, Fits(fresh), Distinct(fresh, Len(fresh)),
         NEW n \in 0..Len(fresh), NEW h, h = [i \in 1..n |-> Account(fresh[i])]
  PROVE  Marks(h, fresh, n) /\ Adds(entries, After(fresh, n), fresh, h, n)
<1> DEFINE E == After(fresh, n)
           first == {fresh[i] : i \in 1..n}
           pick(r) == CHOOSE in \in first : in.id = r
<1>1. E = [r \in DOMAIN entries \cup {fresh[i].id : i \in 1..n} |->
             IF r \in DOMAIN entries THEN entries[r] ELSE Reserved(pick(r))]
  BY DEF After
<1>2. \A i \in 1..n : i \in 1..Len(fresh) /\ i \in DOMAIN fresh
  <2>1. DOMAIN fresh = 1..Len(fresh) /\ Len(fresh) \in Nat BY DEF Fits
  <2> QED BY <2>1
<1>3. \A i \in 1..n : pick(fresh[i].id) = fresh[i]
  <2> SUFFICES ASSUME NEW i \in 1..n PROVE pick(fresh[i].id) = fresh[i] OBVIOUS
  <2>1. fresh[i] \in first OBVIOUS
  <2>2. \A in \in first : in.id = fresh[i].id => in = fresh[i] BY <1>2 DEF Distinct
  <2> HIDE DEF first
  <2> QED BY <2>1, <2>2
<1>4. \A i \in 1..n : fresh[i].id \notin DOMAIN entries BY <1>2 DEF Fits, IsNew
<1> HIDE DEF pick
<1>5. \A i \in 1..n : E[fresh[i].id] = Reserved(fresh[i]) BY <1>1, <1>3, <1>4
<1>6. \A i \in 1..n : h[i] = Account(fresh[i]) /\ h[i].e = Reserved(fresh[i]) BY DEF Account
<1>7. DOMAIN E = DOMAIN entries \cup {fresh[i].id : i \in 1..n} BY <1>1
<1>8. \A r \in DOMAIN entries : E[r] = entries[r] BY <1>1
<1>9. Marks(h, fresh, n) BY DEF Marks
<1> HIDE DEF E
<1>10. Adds(entries, E, fresh, h, n) BY <1>4, <1>5, <1>6, <1>7, <1>8 DEF Adds
<1> QED BY <1>9, <1>10 DEF E

LEMMA WithdrawnAdds ==
  ASSUME LedgerAssumption, LedgerInv, NEW fresh, Fits(fresh), Distinct(fresh, Len(fresh)),
         NEW n \in 0..Len(fresh), NEW kept, NEW h,
         h = [i \in 1..n |-> IF fresh[i].id \in kept THEN Account(fresh[i]) ELSE Dismissed(fresh[i])]
  PROVE  Marks(h, fresh, n) /\ Adds(entries, Withdrawn(fresh, n, kept), fresh, h, n)
<1> DEFINE E == Withdrawn(fresh, n, kept)
           A == After(fresh, n)
           made == {fresh[i].id : i \in 1..n}
           p == [i \in 1..n |-> Account(fresh[i])]
<1>1. E = [r \in DOMAIN entries \cup made |->
             IF \A i \in 1..n : fresh[i].id # r THEN entries[r]
             ELSE IF r \in kept THEN A[r] ELSE Released(A[r])]
  BY DEF Withdrawn
<1>2. Adds(entries, A, fresh, p, n) BY AfterAdds
<1>3. \A i \in 1..n : p[i].e = Reserved(fresh[i]) BY DEF Account
<1>4. \A i \in 1..n : fresh[i].id \notin DOMAIN entries /\ A[fresh[i].id] = Reserved(fresh[i])
  BY <1>2, <1>3 DEF Adds
<1>5. \A i \in 1..n : fresh[i].id \in made OBVIOUS
<1>6. \A r \in made : \E i \in 1..n : fresh[i].id = r OBVIOUS
<1> HIDE DEF A, made, p
<1>7. DOMAIN E = DOMAIN entries \cup made BY <1>1
<1>8. \A r \in DOMAIN entries : E[r] = entries[r] BY <1>1, <1>4
<1>9. \A i \in 1..n : E[fresh[i].id] =
        IF fresh[i].id \in kept THEN Reserved(fresh[i]) ELSE Released(Reserved(fresh[i]))
  BY <1>1, <1>4, <1>5
<1>10. \A i \in 1..n : h[i].e = IF fresh[i].id \in kept THEN Reserved(fresh[i])
                                ELSE Released(Reserved(fresh[i]))
  BY DEF Account, Dismissed
<1>11. Marks(h, fresh, n) BY DEF Marks
<1> HIDE DEF E
<1>12. Adds(entries, E, fresh, h, n)
  BY <1>4, <1>7, <1>8, <1>9, <1>10 DEF Adds, made
<1> QED BY <1>11, <1>12 DEF E

-----------------------------------------------------------------------------
(* What was admitted is what the running operation goes on with. *)

AdmittedFor(o, E, F) ==
  /\ o.kind = "reserve" /\ o.in \notin Adopted => Passed(o.in, Ledger(E, F))
  /\ o.kind \in {"batch", "undo"} =>
       Distinct(o.fresh, Len(o.fresh)) /\ InTurnPassed(Ledger(E, F), o.fresh, Len(o.fresh))
OpAdmitted == AdmittedFor(op, entries, folded)

\* The records after some attempts of a batch are a sound ledger too.
LEMMA AfterSound ==
  ASSUME LedgerAssumption, LedgerInv, LedgerFolds, NEW fresh, Fits(fresh),
         Distinct(fresh, Len(fresh)), NEW n \in 0..Len(fresh)
  PROVE  /\ Sound(After(fresh, n), folded)
         /\ Ledger(After(fresh, n), folded) = Ledger(entries, folded) \cup Promised(fresh, n)
<1> DEFINE E == After(fresh, n)
           h == [i \in 1..n |-> Account(fresh[i])]
<1>1. DOMAIN fresh = 1..Len(fresh) /\ Len(fresh) \in Nat /\ n \in Nat
      /\ \A i \in 1..n : i \in DOMAIN fresh /\ fresh[i].id \notin Gone(folded)
  <2>1. DOMAIN fresh = 1..Len(fresh) /\ Len(fresh) \in Nat BY DEF Fits
  <2> QED BY <2>1 DEF Fits, IsNew
<1>2. Sound(entries, folded) BY EntriesSound
<1>3. /\ RecordsMove(E) /\ DOMAIN E = DOMAIN entries \cup {fresh[i].id : i \in 1..n}
      /\ \A r \in DOMAIN entries : E[r] = entries[r]
      /\ \A r \in DOMAIN E \ DOMAIN entries : IsRecord(E[r]) /\ E[r].in.id = r /\ ~Over(E[r])
  BY AfterMove
<1> HIDE DEF E
<1>4. IsFiniteSet(DOMAIN E)
  <2> DEFINE S == DOMAIN entries \cup {fresh[i].id : i \in 1..n}
  <2>1. IsFiniteSet(S) BY ONLY LedgerFolds, <1>1, FinitelyMany
  <2>2. DOMAIN E = S BY <1>3
  <2> HIDE DEF S
  <2> QED BY <2>1, <2>2
<1>5. Sound(E, folded)
  <2>1. \A r \in DOMAIN E : IsRecord(E[r]) /\ E[r].in.id = r BY <1>2, <1>3 DEF Sound
  <2>2. \A f \in folded : f.e.in.id \notin DOMAIN E BY <1>1, <1>2, <1>3 DEF Sound, Gone
  <2> QED BY <1>2, <1>4, <2>1, <2>2 DEF Sound
<1>6. Marks(h, fresh, n) /\ Adds(entries, E, fresh, h, n) BY AfterAdds DEF E
<1>7. Distinct(fresh, n) BY <1>1 DEF Distinct
<1> HIDE DEF h
<1>8. \A F : Ledger(E, F) = Ledger(entries, F) \cup Marked(h, 1..n)
  <2>1. PICK E0 : E0 = entries OBVIOUS
  <2>2. Adds(E0, E, fresh, h, n) BY <1>6, <2>1
  <2> SUFFICES ASSUME NEW F PROVE Ledger(E, F) = Ledger(E0, F) \cup Marked(h, 1..n)
    BY <2>1
  <2>3. Joins(E0, E, F, h, n) BY <1>1, <1>6, <1>7, <2>2, AddsAccounts
  <2> QED BY <2>3 DEF Joins
<1>9. Marked(h, 1..n) = Promised(fresh, n) BY DEF Marked, Promised, h
<1> QED BY <1>5, <1>8, <1>9 DEF E

\* A step whose attempts the ledger admits in turn passes every bound in turn.
LEMMA TurnPasses ==
  ASSUME LedgerAssumption, LedgerInv, LedgerFolds, NEW fresh, Fits(fresh),
         Distinct(fresh, Len(fresh)), NEW n \in 0..Len(fresh),
         \A i \in 1..n : Admits(fresh[i], After(fresh, i - 1))
  PROVE  InTurnPassed(Ledger(entries, folded), fresh, n)
<1> SUFFICES ASSUME NEW i \in 1..n
             PROVE  Passed(fresh[i], Ledger(entries, folded) \cup Promised(fresh, i - 1))
  BY DEF InTurnPassed
<1>1. i - 1 \in 0..Len(fresh) /\ i \in DOMAIN fresh /\ i \in 1..Len(fresh)
  <2>1. DOMAIN fresh = 1..Len(fresh) /\ Len(fresh) \in Nat BY DEF Fits
  <2> QED BY <2>1
<1>2. PICK E, F, in : E = After(fresh, i - 1) /\ F = folded /\ in = fresh[i] OBVIOUS
<1>3. Sound(E, F) /\ Ledger(E, F) = Ledger(entries, folded) \cup Promised(fresh, i - 1)
  BY <1>1, <1>2, AfterSound
<1>4. in \in Offers \cup Adopted BY <1>1, <1>2 DEF Distinct
<1>5. Admits(in, E) BY <1>2
<1>6. Passed(in, Ledger(E, F)) BY <1>3, <1>4, <1>5, AdmitsMeans
<1> QED BY <1>2, <1>3, <1>6

\* An attempt admitted on its own passes every bound.
LEMMA AlonePasses ==
  ASSUME LedgerAssumption, LedgerInv, LedgerFolds, NEW in \in Offers, Admits(in, entries)
  PROVE  Passed(in, Ledger(entries, folded))
<1>1. PICK E, F : E = entries /\ F = folded OBVIOUS
<1>2. Sound(E, F) BY <1>1, EntriesSound
<1>3. Admits(in, E) BY <1>1
<1>4. Passed(in, Ledger(E, F)) BY <1>2, <1>3, AdmitsMeans
<1> QED BY <1>1, <1>4

\* The attempts of a batch with no record yet.
LEMMA FreshFits ==
  ASSUME LedgerAssumption, LedgerInv, NEW batch \in Batches,
         \A i \in DOMAIN Fresh(batch) : ~Finished(Fresh(batch)[i].chain)
  PROVE  Fits(Fresh(batch)) /\ Distinct(Fresh(batch), Len(Fresh(batch)))
<1> DEFINE fresh == Fresh(batch)
<1>1. /\ fresh \in Seq(Offers)
      /\ \A i \in DOMAIN fresh : fresh[i].id \notin DOMAIN entries
      /\ \A i, j \in DOMAIN fresh : fresh[i].id = fresh[j].id => i = j
  BY FreshIs
<1> HIDE DEF fresh
<1>2. DOMAIN fresh = 1..Len(fresh) /\ \A i \in DOMAIN fresh : fresh[i] \in Offers BY <1>1
<1>3. Distinct(fresh, Len(fresh)) BY <1>1, <1>2 DEF Distinct
<1>4. \A i \in DOMAIN fresh : IsNew(fresh[i])
  <2> SUFFICES ASSUME NEW i \in DOMAIN fresh PROVE IsNew(fresh[i]) OBVIOUS
  <2>1. PICK in : in = fresh[i] OBVIOUS
  <2>2. in \in Offers \cup Adopted /\ ~Finished(in.chain) /\ in.id \notin DOMAIN entries
    BY <1>1, <1>2, <2>1 DEF fresh
  <2>3. in.id \notin Gone(folded) BY <2>2, NotFinished
  <2> QED BY <2>1, <2>2, <2>3 DEF IsNew
<1> QED BY <1>1, <1>3, <1>4 DEF Fits, fresh

Admitting == {"reserve", "batch", "undo"}

\* A step that goes on with the attempts it had.
GoesOnWith ==
  \/ op'.kind \notin Admitting
  \/ UNCHANGED local /\ op' = op
  \/ /\ UNCHANGED local /\ op.kind \in {"batch", "undo"} /\ op'.kind \in {"batch", "undo"}
     /\ op'.fresh = op.fresh

LEMMA GoesOnAdmitted == ASSUME OpAdmitted, GoesOnWith PROVE OpAdmitted'
<1>1. PICK o, p, E, F : o = op /\ p = op' /\ E = entries /\ F = folded OBVIOUS
<1>2. AdmittedFor(o, E, F) BY <1>1 DEF OpAdmitted
<1>3. CASE op'.kind \notin Admitting BY <1>3 DEF OpAdmitted, AdmittedFor, Admitting
<1>4. CASE UNCHANGED local /\ op' = op
  <2>1. entries' = entries /\ folded' = folded BY <1>4 DEF local
  <2> QED BY <1>4, <2>1 DEF OpAdmitted
<1>5. CASE /\ UNCHANGED local /\ op.kind \in {"batch", "undo"} /\ op'.kind \in {"batch", "undo"}
           /\ op'.fresh = op.fresh
  <2>1. entries' = E /\ folded' = F BY <1>1, <1>5 DEF local
  <2>2. p.fresh = o.fresh /\ p.kind # "reserve" /\ o.kind \in {"batch", "undo"} BY <1>1, <1>5
  <2>3. AdmittedFor(p, E, F) BY <1>2, <2>2 DEF AdmittedFor
  <2> QED BY <1>1, <2>1, <2>3 DEF OpAdmitted
<1> QED BY <1>3, <1>4, <1>5 DEF GoesOnWith

LEMMA SavesWith == ASSUME NEW E, NEW A, Saving(E, A) PROVE GoesOnWith
BY DEF Saving, GoesOnWith, Admitting

LEMMA WithdrawsWith ==
  ASSUME NEW fresh, NEW n, NEW kept, Withdraw(fresh, n, kept)
  PROVE  GoesOnWith
<1>1. CASE op' = NoOp BY <1>1 DEF NoOp, GoesOnWith, Admitting
<1>2. CASE Saving(Withdrawn(fresh, n, kept), {}) BY <1>2, SavesWith
<1> QED BY <1>1, <1>2 DEF Withdraw

LEMMA UndoesWith ==
  ASSUME op.kind = "batch", Undo(op.fresh, op.done)
  PROVE  GoesOnWith
<1>1. CASE op' = NoOp BY <1>1 DEF NoOp, GoesOnWith, Admitting
<1>2. CASE /\ op' = [kind |-> "undo", fresh |-> op.fresh, made |-> op.done, left |-> op.done,
                     tries |-> 1, kept |-> {}]
           /\ UNCHANGED local
  <2>1. op'.kind = "undo" /\ op'.fresh = op.fresh BY <1>2
  <2> QED BY <1>2, <2>1 DEF GoesOnWith
<1> QED BY <1>1, <1>2 DEF Undo

LEMMA UndoneWith ==
  ASSUME LedgerInv, op.kind = "undo", NEW K, Undone(K)
  PROVE  GoesOnWith
<1>1. CASE op' = [op EXCEPT !.left = @ - 1, !.tries = 1, !.kept = K] /\ UNCHANGED local
  <2>1. UndoFits BY Running
  <2>2. op'.kind = "undo" /\ op'.fresh = op.fresh BY <1>1, <2>1 DEF UndoFits
  <2> QED BY <1>1, <2>2 DEF GoesOnWith
<1>2. CASE Withdraw(op.fresh, op.made, K) BY <1>2, WithdrawsWith
<1> QED BY <1>1, <1>2 DEF Undone

LEMMA ReserveAdmitted ==
  ASSUME LedgerAssumption, LedgerInv, LedgerFolds, OpAdmitted, NEW in,
         (in \in Offers /\ Reserve(in)) \/ (in \in Adopted /\ Adopt(in))
  PROVE  OpAdmitted'
<1>1. CASE op'.kind \notin Admitting BY <1>1, GoesOnAdmitted DEF GoesOnWith
<1>2. CASE op'.kind \in Admitting
  <2>1. op' = [kind |-> "reserve", in |-> in] /\ UNCHANGED local
        /\ (in \in Adopted \/ (in \in Offers /\ Admits(in, entries)))
    <3>1. ASSUME NEW A, Saving(entries, A) PROVE FALSE BY <1>2, <3>1 DEF Saving, Admitting
    <3>2. ASSUME NEW E, NEW A, Saving(E, A) PROVE FALSE BY <1>2, <3>2 DEF Saving, Admitting
    <3>3. CASE in \in Offers /\ Reserve(in) BY <3>2, <3>3 DEF Reserve
    <3>4. CASE in \in Adopted /\ Adopt(in)
      <4>1. \/ \E E, A : Saving(E, A)
            \/ op' = [kind |-> "reserve", in |-> in] /\ UNCHANGED local
        BY <3>4, Zenon DEF Adopt
      <4> QED BY <3>2, <3>4, <4>1
    <3> QED BY <3>3, <3>4
  <2>2. in \notin Adopted => Passed(in, Ledger(entries, folded)) BY <2>1, AlonePasses
  <2>3. PICK p, E, F : p = op' /\ E = entries /\ F = folded OBVIOUS
  <2>4. p.kind = "reserve" /\ p.in = in BY <2>1, <2>3
  <2>5. AdmittedFor(p, E, F) BY <2>2, <2>3, <2>4 DEF AdmittedFor
  <2>6. entries' = E /\ folded' = F BY <2>1, <2>3 DEF local
  <2> QED BY <2>3, <2>5, <2>6 DEF OpAdmitted
<1> QED BY <1>1, <1>2

LEMMA ReserveManyAdmitted ==
  ASSUME LedgerAssumption, LedgerInv, LedgerFolds, OpAdmitted, NEW batch \in Batches,
         ReserveMany(batch)
  PROVE  OpAdmitted'
<1> DEFINE fresh == Fresh(batch)
           n == AdmittedInTurn(fresh)
<1>1. Fits(fresh) /\ Distinct(fresh, Len(fresh))
  <2>1. \A i \in DOMAIN Fresh(batch) : ~Finished(Fresh(batch)[i].chain) BY DEF ReserveMany
  <2> QED BY <2>1, FreshFits
<1>2. Len(fresh) \in Nat BY <1>1 DEF Fits
<1>3. n \in 0..Len(fresh) /\ \A i \in 1..n : Admits(fresh[i], After(fresh, i - 1))
  BY <1>2, InTurn
<1>4. \/ Withdraw(fresh, n, {})
      \/ /\ n = Len(fresh) /\ UNCHANGED local
         /\ \E ids, strict : op' = [kind |-> "batch", fresh |-> fresh, ids |-> ids, done |-> 0,
                                    strict |-> strict]
      \/ \E ids : Saving(After(fresh, n), ids)
  <2> HIDE DEF fresh, n
  <2>1. ~(n < Len(fresh)) => n = Len(fresh) BY <1>2, <1>3
  <2> QED BY <2>1 DEF ReserveMany, fresh, n
<1> HIDE DEF fresh, n
<1>5. CASE Withdraw(fresh, n, {})
  <2>1. GoesOnWith BY <1>5, WithdrawsWith
  <2> QED BY <2>1, GoesOnAdmitted
<1>6. CASE \E ids : Saving(After(fresh, n), ids)
  <2>1. GoesOnWith BY <1>6, SavesWith
  <2> QED BY <2>1, GoesOnAdmitted
<1>7. CASE /\ n = Len(fresh) /\ UNCHANGED local
           /\ \E ids, strict : op' = [kind |-> "batch", fresh |-> fresh, ids |-> ids, done |-> 0,
                                      strict |-> strict]
  <2>1. PICK ids, strict : op' = [kind |-> "batch", fresh |-> fresh, ids |-> ids, done |-> 0,
                                  strict |-> strict]
    BY <1>7
  <2>2. PICK p, E, F : p = op' /\ E = entries /\ F = folded OBVIOUS
  <2>3. p.kind = "batch" /\ p.fresh = fresh BY <2>1, <2>2
  <2>4. InTurnPassed(Ledger(entries, folded), fresh, n) BY <1>1, <1>3, TurnPasses
  <2>5. InTurnPassed(Ledger(E, F), p.fresh, Len(p.fresh)) BY <1>7, <2>2, <2>3, <2>4
  <2>6. AdmittedFor(p, E, F) BY <1>1, <2>3, <2>5 DEF AdmittedFor
  <2>7. entries' = E /\ folded' = F BY <1>7, <2>2 DEF local
  <2> QED BY <2>2, <2>6, <2>7 DEF OpAdmitted
<1> QED BY <1>4, <1>5, <1>6, <1>7

LEMMA SettlesWith == ASSUME NEW r, NEW next, Settling(r, next) PROVE GoesOnWith
<1>1. CASE op' = [kind |-> "close", next |-> next, tries |-> 1]
  BY <1>1 DEF GoesOnWith, Admitting
<1>2. CASE Saving([entries EXCEPT ![r] = next], {r}) BY <1>2, SavesWith
<1> QED BY <1>1, <1>2 DEF Settling

LEMMA RecordWith ==
  ASSUME LedgerInv, NEW r,
         \/ \E amounts \in Settlements : Settle(r, amounts)
         \/ \E tokens \in Usages, price \in Prices : SettleUsage(r, tokens, price)
         \/ MarkUnknown(r) \/ Release(r)
  PROVE  GoesOnWith
<1>1. ASSUME NEW amounts \in Settlements, Settle(r, amounts) PROVE GoesOnWith
  <2>1. Settling(r, Settled(entries[r], amounts)) BY <1>1 DEF Settle
  <2> QED BY <2>1, SettlesWith
<1>2. ASSUME NEW tokens \in Usages, NEW price \in Prices, SettleUsage(r, tokens, price)
      PROVE  GoesOnWith
  <2>1. \E next : Settling(r, next) BY <1>2 DEF SettleUsage
  <2> QED BY <2>1, SettlesWith
<1>3. CASE MarkUnknown(r)
  <2>1. \E E, A : Saving(E, A) BY <1>3 DEF MarkUnknown
  <2> QED BY <2>1, SavesWith
<1>4. CASE Release(r)
  <2>1. CASE op' = [kind |-> "close", next |-> Released(entries[r]), tries |-> 1]
    BY <2>1 DEF GoesOnWith, Admitting
  <2>2. CASE Saving([entries EXCEPT ![r] = Released(@)], {r}) BY <2>2, SavesWith
  <2> QED BY <1>4, <2>1, <2>2 DEF Release
<1> QED BY <1>1, <1>2, <1>3, <1>4

LEMMA StoreWith ==
  ASSUME LedgerInv,
         \/ StoreReserve \/ StoreClose \/ Persist \/ Restart
         \/ \E effect \in BOOLEAN :
              StoreReserveFails(effect) \/ StoreCloseFails(effect) \/ PersistFails(effect)
         \/ \E r \in Ids, how \in SweepHow : Sweep(r, how)
         \/ \E s \in Compacted : Compact(s)
  PROVE  GoesOnWith
<1>0. op' = NoOp => GoesOnWith BY DEF NoOp, GoesOnWith, Admitting
<1>1. CASE StoreReserve
  <2>1. op' = NoOp \/ \E E, A : Saving(E, A) BY <1>1 DEF StoreReserve
  <2> QED BY <1>0, <2>1, SavesWith
<1>2. CASE StoreClose
  <2>1. \E E, A : Saving(E, A) BY <1>2 DEF StoreClose
  <2> QED BY <2>1, SavesWith
<1>3. CASE Persist \/ Restart BY <1>0, <1>3 DEF Persist, Restart
<1>4. CASE \E effect \in BOOLEAN : StoreReserveFails(effect) \/ PersistFails(effect)
  BY <1>0, <1>4 DEF StoreReserveFails, PersistFails
<1>5. ASSUME NEW effect \in BOOLEAN, StoreCloseFails(effect) PROVE GoesOnWith
  <2>1. op.kind = "close" BY <1>5 DEF StoreCloseFails
  <2>2. CASE op' = [op EXCEPT !.tries = @ + 1]
    <3>1. CloseFits BY <2>1, Running
    <3>2. op'.kind = "close" BY <2>2, <3>1 DEF CloseFits
    <3> QED BY <3>2 DEF GoesOnWith, Admitting
  <2> QED BY <1>0, <1>5, <2>2 DEF StoreCloseFails
<1>6. ASSUME NEW r \in Ids, NEW how \in SweepHow, Sweep(r, how) PROVE GoesOnWith
  BY <1>6 DEF Sweep, GoesOnWith
<1>7. ASSUME NEW s \in Compacted, Compact(s) PROVE GoesOnWith
  <2>1. op' = [kind |-> "save", answers |-> {}] BY <1>7, Zenon DEF Compact
  <2> QED BY <2>1 DEF GoesOnWith, Admitting
<1> QED BY <1>1, <1>2, <1>3, <1>4, <1>5, <1>6, <1>7

LEMMA BatchWith ==
  ASSUME LedgerInv,
         \/ BatchReserve \/ UndoRelease
         \/ \E effect \in BOOLEAN : BatchReserveFails(effect) \/ UndoFails(effect)
  PROVE  GoesOnWith
<1>1. CASE BatchReserve
  <2>1. op.kind = "batch" BY <1>1 DEF BatchReserve
  <2>2. BatchFits BY <2>1, Running
  <2>3. \/ Undo(op.fresh, op.done)
        \/ op' = [op EXCEPT !.done = op.done + 1] /\ UNCHANGED local
        \/ \E E, A : Saving(E, A)
    BY <1>1 DEF BatchReserve
  <2>4. CASE op' = [op EXCEPT !.done = op.done + 1] /\ UNCHANGED local
    <3>1. op'.kind = "batch" /\ op'.fresh = op.fresh BY <2>2, <2>4 DEF BatchFits
    <3> QED BY <2>1, <2>4, <3>1 DEF GoesOnWith
  <2> QED BY <2>1, <2>3, <2>4, SavesWith, UndoesWith
<1>2. CASE UndoRelease
  <2>1. op.kind = "undo" /\ Undone(op.kept) BY <1>2 DEF UndoRelease
  <2> QED BY <2>1, UndoneWith
<1>3. ASSUME NEW effect \in BOOLEAN, BatchReserveFails(effect) PROVE GoesOnWith
  <2>1. op.kind = "batch" /\ Undo(op.fresh, op.done) BY <1>3 DEF BatchReserveFails
  <2> QED BY <2>1, UndoesWith
<1>4. ASSUME NEW effect \in BOOLEAN, UndoFails(effect) PROVE GoesOnWith
  <2>1. op.kind = "undo" BY <1>4 DEF UndoFails
  <2>2. UndoFits BY <2>1, Running
  <2>3. \/ op' = [op EXCEPT !.tries = op.tries + 1] /\ UNCHANGED local
        \/ \E K : Undone(K)
    BY <1>4 DEF UndoFails
  <2>4. CASE op' = [op EXCEPT !.tries = op.tries + 1] /\ UNCHANGED local
    <3>1. op'.kind = "undo" /\ op'.fresh = op.fresh BY <2>2, <2>4 DEF UndoFits
    <3> QED BY <2>1, <2>4, <3>1 DEF GoesOnWith
  <2> QED BY <2>1, <2>3, <2>4, UndoneWith
<1> QED BY <1>1, <1>2, <1>3, <1>4

LEMMA AdmittedOn ==
  ASSUME LedgerAssumption, LedgerInv, LedgerFolds, OpAdmitted, [LedgerNext]_ledgerVars
  PROVE  OpAdmitted'
<1>1. ASSUME NEW in \in Offers, Reserve(in) PROVE OpAdmitted' BY <1>1, ReserveAdmitted
<1>2. ASSUME NEW in \in Adopted, Adopt(in) PROVE OpAdmitted' BY <1>2, ReserveAdmitted
<1>3. ASSUME NEW batch \in Batches, ReserveMany(batch) PROVE OpAdmitted'
  BY <1>3, ReserveManyAdmitted
<1>4. ASSUME NEW r \in Ids,
             \/ \E amounts \in Settlements : Settle(r, amounts)
             \/ \E tokens \in Usages, price \in Prices : SettleUsage(r, tokens, price)
             \/ MarkUnknown(r) \/ Release(r)
      PROVE  GoesOnWith
  BY <1>4, RecordWith
<1>5. ASSUME \/ StoreReserve \/ StoreClose \/ Persist \/ Restart
             \/ \E effect \in BOOLEAN :
                  StoreReserveFails(effect) \/ StoreCloseFails(effect) \/ PersistFails(effect)
             \/ \E r \in Ids, how \in SweepHow : Sweep(r, how)
             \/ \E s \in Compacted : Compact(s)
      PROVE  GoesOnWith
  BY <1>5, StoreWith
<1>6. ASSUME \/ BatchReserve \/ UndoRelease
             \/ \E effect \in BOOLEAN : BatchReserveFails(effect) \/ UndoFails(effect)
      PROVE  GoesOnWith
  BY <1>6, BatchWith
<1>7. ASSUME UNCHANGED ledgerVars PROVE GoesOnWith
  <2>1. UNCHANGED local /\ op' = op BY <1>7 DEF ledgerVars, local
  <2> QED BY <2>1 DEF GoesOnWith
<1>8. GoesOnWith => OpAdmitted' BY GoesOnAdmitted
<1> QED BY <1>1, <1>2, <1>3, <1>4, <1>5, <1>6, <1>7, <1>8 DEF LedgerNext

LEMMA AdmittedFirst == ASSUME LedgerInit PROVE OpAdmitted
<1>1. PICK o, E, F : o = op /\ E = entries /\ F = folded OBVIOUS
<1>2. o.kind = "none" BY <1>1 DEF LedgerInit, NoOp
<1>3. AdmittedFor(o, E, F) BY <1>2 DEF AdmittedFor
<1> QED BY <1>1, <1>3 DEF OpAdmitted

\* Whatever operation runs, the attempts it will record were admitted, each after
\* the ones before it, by every bound they are charged to, and nothing recorded
\* since changes that (budget-ledger.ts, reserve and reserveMany in the queue).
THEOREM AdmissionStands == LedgerSpec => []OpAdmitted
<1>1. LedgerInit => OpAdmitted BY AdmittedFirst
<1>2. LedgerInv /\ LedgerFolds /\ OpAdmitted /\ [LedgerNext]_ledgerVars => OpAdmitted'
  BY AdmittedOn, LedgerAssumption
<1> QED BY <1>1, <1>2, LedgerStands, FoldsStand, PTL DEF LedgerSpec

-----------------------------------------------------------------------------
(* Nothing is admitted past a bound. *)

AdmittedNow ==
  \A r \in DOMAIN entries' \ DOMAIN entries :
    entries'[r].state = "reserved" /\ entries'[r].in \notin Adopted /\ crashes' = crashes =>
      \A s \in {x \in Bounds : InScope(entries'[r].in.chain, x)} : StaysInBound(entries'[r].in, s)

LEMMA StaysSame ==
  ASSUME NEW L, NEW M, L = Accounts, M = Accounts', NEW in, NEW s, StaysWithin(L, M, in, s)
  PROVE  StaysInBound(in, s)
<1>1. In(s) = InOf(L, s) BY DEF In, InOf
<1>2. In(s)' = InOf(M, s) BY DEF In, InOf
<1> DEFINE own == IF s = Whole THEN {Budget} ELSE {}
           before == Tightest(own \cup Named(In(s), s) \cup BudgetsIn(in.chain, s))
           cap == Tightest(own \cup Named(In(s)', s))
<1>3. own = OwnIn(s) BY DEF OwnIn
<1>4. before = Cap(L, in, s) BY <1>1, <1>3 DEF Cap
<1>5. cap = Tightest(OwnIn(s) \cup Named(InOf(M, s), s)) BY <1>2, <1>3
<1>6. StaysInBound(in, s) <=>
        /\ \A d \in {x \in Dims : cap[x] # None} :
             Charged(In(s)', d) <= cap[d] /\ \A f \in In(s)' : ~HoldsNoEstimate(f.e, d)
        /\ before.reject =>
             ~in.unaccounted /\ \A d \in {x \in Dims : before[x] # None} : in.est[d] # None
  BY DEF StaysInBound
<1> HIDE DEF before, cap
<1> QED BY <1>2, <1>4, <1>5, <1>6 DEF StaysWithin

LEMMA TheLedger ==
  ASSUME LedgerAssumption, LedgerInv, LedgerFolds, NEW fresh, NEW n \in Nat,
         \A i \in 1..n : IsNew(fresh[i])
  PROVE  /\ IsLedger(Ledger(entries, folded)) /\ NewTo(Ledger(entries, folded), fresh, n)
         /\ Accounts = Ledger(entries, folded)
<1>1. PICK E, F : E = entries /\ F = folded OBVIOUS
<1> DEFINE L == Ledger(E, F)
<1>2. Sound(E, F) /\ Accounts = L BY <1>1, EntriesSound
<1>3. InOf(L, Whole) = L BY DEF InOf, InScope
<1>4. IsLedger(L)
  <2>1. /\ InOf(L, Whole) = InOf(Recorded(E), Whole) \cup InOf(F, Whole)
        /\ IsFiniteSet(InOf(Recorded(E), Whole)) /\ IsFiniteSet(InOf(F, Whole))
        /\ \A f \in InOf(L, Whole) : IsRecord(f.e) /\ f.keep \in ScopeSeqs
    BY <1>2, WrittenIs
  <2> HIDE DEF L
  <2>2. IsFiniteSet(L) BY ONLY <1>3, <2>1, FS_Union
  <2> QED BY <1>3, <2>1, <2>2 DEF IsLedger
<1>5. NewTo(L, fresh, n)
  <2> SUFFICES ASSUME NEW f \in L, NEW i \in 1..n PROVE f.e.in.id # fresh[i].id
    BY DEF NewTo
  <2>1. fresh[i].id \notin DOMAIN E \cup Gone(F) BY <1>1 DEF IsNew
  <2>2. CASE f \in Recorded(E)
    <3>1. PICK r \in DOMAIN E : f = [n |-> -1, e |-> E[r], keep |-> E[r].in.chain]
      BY <2>2 DEF Recorded
    <3>2. f.e = E[r] BY <3>1
    <3>3. E[r].in.id = r BY <1>2 DEF Sound
    <3> QED BY <2>1, <3>2, <3>3
  <2>3. CASE f \in F BY <2>1, <2>3 DEF Gone
  <2> QED BY <2>2, <2>3 DEF Ledger
<1> QED BY <1>1, <1>2, <1>4, <1>5

\* A step that records what was admitted in turn keeps to every bound.
LEMMA AddsWithin ==
  ASSUME LedgerAssumption, LedgerInv, LedgerFolds, NEW fresh, NEW n \in Nat, Distinct(fresh, n),
         \A i \in 1..n : IsNew(fresh[i]), InTurnPassed(Ledger(entries, folded), fresh, n),
         NEW h, Marks(h, fresh, n), Adds(entries, entries', fresh, h, n), folded' = folded
  PROVE  AdmittedNow
<1>1. PICK L : L = Ledger(entries, folded) OBVIOUS
<1>2. IsLedger(L) /\ NewTo(L, fresh, n) /\ Accounts = L BY <1>1, TheLedger
<1>3. Accounts' = L \cup Marked(h, 1..n)
  <2>1. PICK E0, E, F : E0 = entries /\ E = entries' /\ F = folded OBVIOUS
  <2>2. Adds(E0, E, fresh, h, n) BY <2>1
  <2>3. Joins(E0, E, F, h, n) BY <2>2, AddsAccounts
  <2>4. Accounts' = Ledger(E, F) BY <2>1 DEF Accounts, Ledger, Recorded
  <2> QED BY <1>1, <2>1, <2>3, <2>4 DEF Joins
<1>4. InTurnPassed(L, fresh, n) BY <1>1
<1> SUFFICES ASSUME NEW r \in DOMAIN entries' \ DOMAIN entries,
                    NEW s, InScope(entries'[r].in.chain, s)
             PROVE  StaysInBound(entries'[r].in, s)
  BY DEF AdmittedNow
<1>5. PICK k \in 1..n : r = fresh[k].id BY DEF Adds
<1>6. entries'[r].in = fresh[k]
  <2>1. fresh[k] \in Offers /\ h[k] \in {Account(fresh[k]), Dismissed(fresh[k])}
    BY DEF Distinct, Marks
  <2>2. PICK in, f : in = fresh[k] /\ f = h[k] OBVIOUS
  <2>3. f.e.in = in BY <2>1, <2>2, AccountIs
  <2>4. entries'[r] = h[k].e BY <1>5 DEF Adds
  <2> QED BY <2>2, <2>3, <2>4
<1>7. PICK M, in : M = L \cup Marked(h, 1..n) /\ in = entries'[r].in OBVIOUS
<1>8. InScope(fresh[k].chain, s) BY <1>6
<1>9. StaysWithin(L, L \cup Marked(h, 1..n), fresh[k], s) BY <1>2, <1>4, <1>8, TurnsStay
<1>10. StaysWithin(L, M, in, s) BY <1>6, <1>7, <1>9
<1>11. StaysInBound(in, s) BY <1>2, <1>3, <1>7, <1>10, StaysSame
<1> QED BY <1>7, <1>11

LEMMA NothingAdded == ASSUME DOMAIN entries' \subseteq DOMAIN entries PROVE AdmittedNow
BY DEF AdmittedNow

\* A record added for an attempt admitted on its own.
LEMMA AloneWithin ==
  ASSUME LedgerAssumption, LedgerInv, LedgerFolds, NEW in, IsNew(in),
         in \notin Adopted => Passed(in, Ledger(entries, folded)),
         entries' = With(entries, in.id, Reserved(in)), folded' = folded
  PROVE  AdmittedNow
<1> DEFINE fresh == <<in>>
           h == [i \in 1..1 |-> Account(in)]
           L == Ledger(entries, folded)
<1>1. /\ DOMAIN entries' = DOMAIN entries \cup {in.id}
      /\ \A r \in DOMAIN entries : entries'[r] = entries[r]
      /\ entries'[in.id] = Reserved(in) /\ in.id \notin DOMAIN entries
  BY DEF With, IsNew
<1>2. CASE in \in Adopted
  <2>1. \A r \in DOMAIN entries' \ DOMAIN entries : entries'[r].in = in BY <1>1 DEF Reserved
  <2> QED BY <1>2, <2>1 DEF AdmittedNow
<1>3. CASE in \notin Adopted
  <2>1. in \in Offers BY <1>3 DEF IsNew
  <2>2. \A i \in 1..1 : i = 1 /\ fresh[i] = in OBVIOUS
  <2>3. \A i \in 1..1 : h[i] = Account(in) /\ h[i].e = Reserved(in) BY DEF Account
  <2>4. Distinct(fresh, 1) BY <2>1, <2>2 DEF Distinct
  <2>5. \A i \in 1..1 : IsNew(fresh[i]) BY <2>2
  <2>6. InTurnPassed(L, fresh, 1)
    <3>1. Promised(fresh, 0) = {} BY DEF Promised
    <3>2. L \cup Promised(fresh, 0) = L BY <3>1
    <3>3. \A i \in 1..1 : i - 1 = 0 OBVIOUS
    <3> HIDE DEF L, fresh
    <3>4. Passed(in, L) BY <1>3 DEF L
    <3> QED BY <2>2, <3>2, <3>3, <3>4 DEF InTurnPassed
  <2>7. Marks(h, fresh, 1)
    <3>1. DOMAIN h = 1..1 OBVIOUS
    <3> HIDE DEF h, fresh
    <3> QED BY <2>2, <2>3, <3>1 DEF Marks
  <2>8. {fresh[i].id : i \in 1..1} = {in.id} BY <2>2
  <2> HIDE DEF fresh, h, L
  <2>9. Adds(entries, entries', fresh, h, 1) BY <1>1, <2>2, <2>3, <2>8 DEF Adds
  <2>10. InTurnPassed(Ledger(entries, folded), fresh, 1) BY <2>6 DEF L
  <2> QED BY <2>4, <2>5, <2>7, <2>9, <2>10, AddsWithin
<1> QED BY <1>2, <1>3

\* Records added for a batch, all admitted or some of them withdrawn.
LEMMA TurnsWithin ==
  ASSUME LedgerAssumption, LedgerInv, LedgerFolds, NEW fresh, Fits(fresh),
         Distinct(fresh, Len(fresh)), NEW n \in 0..Len(fresh),
         InTurnPassed(Ledger(entries, folded), fresh, n), NEW h, Marks(h, fresh, n),
         NEW E, E = entries', Adds(entries, E, fresh, h, n), folded' = folded
  PROVE  AdmittedNow
<1>1. DOMAIN fresh = 1..Len(fresh) /\ Len(fresh) \in Nat BY DEF Fits
<1>2. n \in Nat /\ \A i \in 1..n : i \in 1..Len(fresh) BY <1>1
<1>3. Distinct(fresh, n) BY <1>2 DEF Distinct
<1>4. \A i \in 1..n : IsNew(fresh[i]) BY <1>1, <1>2 DEF Fits
<1> QED BY <1>2, <1>3, <1>4, AddsWithin

LEMMA AftersWithin ==
  ASSUME LedgerAssumption, LedgerInv, LedgerFolds, NEW fresh, Fits(fresh),
         Distinct(fresh, Len(fresh)), NEW n \in 0..Len(fresh),
         InTurnPassed(Ledger(entries, folded), fresh, n), NEW A, Saving(After(fresh, n), A)
  PROVE  AdmittedNow
<1>1. PICK E, h : E = After(fresh, n) /\ h = [i \in 1..n |-> Account(fresh[i])] OBVIOUS
<1>2. entries' = E /\ folded' = folded BY <1>1 DEF Saving
<1>3. Marks(h, fresh, n) /\ Adds(entries, E, fresh, h, n) BY <1>1, AfterAdds
<1> QED BY <1>2, <1>3, TurnsWithin

LEMMA WithdrawsWithin ==
  ASSUME LedgerAssumption, LedgerInv, LedgerFolds, NEW fresh, Fits(fresh),
         Distinct(fresh, Len(fresh)), NEW n \in 0..Len(fresh),
         InTurnPassed(Ledger(entries, folded), fresh, n), NEW kept, Withdraw(fresh, n, kept)
  PROVE  AdmittedNow
<1>1. CASE UNCHANGED local BY <1>1, NothingAdded DEF local
<1>2. CASE Saving(Withdrawn(fresh, n, kept), {})
  <2>1. PICK E, h : /\ E = Withdrawn(fresh, n, kept)
                    /\ h = [i \in 1..n |-> IF fresh[i].id \in kept THEN Account(fresh[i])
                                           ELSE Dismissed(fresh[i])]
    OBVIOUS
  <2>2. entries' = E /\ folded' = folded BY <1>2, <2>1 DEF Saving
  <2>3. Marks(h, fresh, n) /\ Adds(entries, E, fresh, h, n) BY <2>1, WithdrawnAdds
  <2> QED BY <2>2, <2>3, TurnsWithin
<1> QED BY <1>1, <1>2 DEF Withdraw

\* What the running batch was admitted for.
LEMMA PlacedPassed ==
  ASSUME LedgerInv, OpAdmitted, op.kind \in {"batch", "undo"}
  PROVE  /\ Fits(op.fresh) /\ Distinct(op.fresh, Len(op.fresh))
         /\ \A n \in 0..Len(op.fresh) : InTurnPassed(Ledger(entries, folded), op.fresh, n)
<1>1. Fits(op.fresh) /\ Len(op.fresh) \in Nat BY PlacedFits
<1>2. Distinct(op.fresh, Len(op.fresh))
      /\ InTurnPassed(Ledger(entries, folded), op.fresh, Len(op.fresh))
  BY DEF OpAdmitted, AdmittedFor
<1>3. \A n \in 0..Len(op.fresh) : \A i \in 1..n : i \in 1..Len(op.fresh) BY <1>1
<1> QED BY <1>1, <1>2, <1>3 DEF InTurnPassed

LEMMA ResavesWithin == ASSUME NEW A, Saving(entries, A) PROVE AdmittedNow
BY NothingAdded DEF Saving

LEMMA EditsWithin ==
  ASSUME NEW r, NEW e, NEW A, Saving([entries EXCEPT ![r] = e], A)
  PROVE  AdmittedNow
BY NothingAdded DEF Saving

LEMMA KeepsWithin == ASSUME UNCHANGED local PROVE AdmittedNow
BY NothingAdded DEF local

LEMMA ReserveWithin ==
  ASSUME LedgerAssumption, LedgerInv, LedgerFolds, NEW in,
         (in \in Offers /\ Reserve(in)) \/ (in \in Adopted /\ Adopt(in))
  PROVE  AdmittedNow
<1>1. CASE Saving(entries, {in.id}) BY <1>1, ResavesWithin
<1>2. CASE UNCHANGED local BY <1>2, KeepsWithin
<1>3. CASE /\ in.id \notin DOMAIN entries /\ ~Finished(in.chain)
           /\ in \notin Adopted => in \in Offers /\ Admits(in, entries)
           /\ in \in Offers \cup Adopted
           /\ Saving(With(entries, in.id, Reserved(in)), {in.id})
  <2>1. IsNew(in)
    <3>1. in.id \notin Gone(folded) BY <1>3, NotFinished
    <3> QED BY <1>3, <3>1 DEF IsNew
  <2>2. in \notin Adopted => Passed(in, Ledger(entries, folded)) BY <1>3, AlonePasses
  <2>3. entries' = With(entries, in.id, Reserved(in)) /\ folded' = folded BY <1>3 DEF Saving
  <2> QED BY <2>1, <2>2, <2>3, AloneWithin
<1>4. CASE in \in Offers /\ Reserve(in) BY <1>1, <1>2, <1>3, <1>4, Zenon DEF Reserve
<1>5. CASE in \in Adopted /\ Adopt(in) BY <1>1, <1>2, <1>3, <1>5, Zenon DEF Adopt
<1> QED BY <1>4, <1>5

LEMMA StoreReserveWithin ==
  ASSUME LedgerAssumption, LedgerInv, LedgerFolds, OpAdmitted, StoreReserve
  PROVE  AdmittedNow
<1>1. op.kind = "reserve" BY DEF StoreReserve
<1>2. IsNew(op.in) BY <1>1, Running DEF ReserveFits
<1>3. op.in \notin Adopted => Passed(op.in, Ledger(entries, folded))
  BY <1>1 DEF OpAdmitted, AdmittedFor
<1>4. CASE UNCHANGED local BY <1>4, KeepsWithin
<1>5. CASE Saving(With(entries, op.in.id, Reserved(op.in)), {op.in.id})
  <2>1. PICK in : in = op.in OBVIOUS
  <2>2. entries' = With(entries, in.id, Reserved(in)) /\ folded' = folded
    BY <1>5, <2>1 DEF Saving
  <2>3. IsNew(in) /\ (in \notin Adopted => Passed(in, Ledger(entries, folded)))
    BY <1>2, <1>3, <2>1
  <2> QED BY <2>2, <2>3, AloneWithin
<1> QED BY <1>4, <1>5 DEF StoreReserve

LEMMA ReserveManyWithin ==
  ASSUME LedgerAssumption, LedgerInv, LedgerFolds, NEW batch \in Batches, ReserveMany(batch)
  PROVE  AdmittedNow
<1> DEFINE fresh == Fresh(batch)
           n == AdmittedInTurn(fresh)
<1>1. Fits(fresh) /\ Distinct(fresh, Len(fresh))
  <2>1. \A i \in DOMAIN Fresh(batch) : ~Finished(Fresh(batch)[i].chain) BY DEF ReserveMany
  <2> QED BY <2>1, FreshFits
<1>2. Len(fresh) \in Nat BY <1>1 DEF Fits
<1>3. n \in 0..Len(fresh) /\ \A i \in 1..n : Admits(fresh[i], After(fresh, i - 1))
  BY <1>2, InTurn
<1>4. \/ Withdraw(fresh, n, {})
      \/ UNCHANGED local
      \/ \E ids : Saving(After(fresh, n), ids)
  BY DEF ReserveMany
<1> HIDE DEF fresh, n
<1>5. InTurnPassed(Ledger(entries, folded), fresh, n) BY <1>1, <1>3, TurnPasses
<1>6. CASE Withdraw(fresh, n, {}) BY <1>1, <1>3, <1>5, <1>6, WithdrawsWithin
<1>7. CASE UNCHANGED local BY <1>7, KeepsWithin
<1>8. CASE \E ids : Saving(After(fresh, n), ids) BY <1>1, <1>3, <1>5, <1>8, AftersWithin
<1> QED BY <1>4, <1>6, <1>7, <1>8

LEMMA UndoneWithin ==
  ASSUME LedgerAssumption, LedgerInv, LedgerFolds, OpAdmitted, op.kind = "undo", NEW K, Undone(K)
  PROVE  AdmittedNow
<1>1. CASE UNCHANGED local BY <1>1, KeepsWithin
<1>2. CASE Withdraw(op.fresh, op.made, K)
  <2>1. Fits(op.fresh) /\ Distinct(op.fresh, Len(op.fresh))
        /\ \A n \in 0..Len(op.fresh) : InTurnPassed(Ledger(entries, folded), op.fresh, n)
    BY PlacedPassed
  <2>2. op.made \in 0..Len(op.fresh)
    <3>1. op.made \in 1..Len(op.fresh) /\ Len(op.fresh) \in Nat BY PlacedFits
    <3> QED BY <3>1
  <2>3. PICK fresh, n : fresh = op.fresh /\ n = op.made OBVIOUS
  <2>4. Fits(fresh) /\ Distinct(fresh, Len(fresh)) /\ n \in 0..Len(fresh)
        /\ InTurnPassed(Ledger(entries, folded), fresh, n) /\ Withdraw(fresh, n, K)
    BY <1>2, <2>1, <2>2, <2>3
  <2> QED BY <2>4, WithdrawsWithin
<1> QED BY <1>1, <1>2 DEF Undone

LEMMA BatchWithin ==
  ASSUME LedgerAssumption, LedgerInv, LedgerFolds, OpAdmitted,
         \/ BatchReserve \/ UndoRelease
         \/ \E effect \in BOOLEAN : BatchReserveFails(effect) \/ UndoFails(effect)
  PROVE  AdmittedNow
<1>1. CASE BatchReserve
  <2>1. op.kind = "batch" BY <1>1 DEF BatchReserve
  <2>2. \/ UNCHANGED local
        \/ ~(op.done + 1 < Len(op.fresh)) /\ Saving(After(op.fresh, op.done + 1), op.ids)
    BY <1>1 DEF BatchReserve, Undo
  <2>3. CASE UNCHANGED local BY <2>3, KeepsWithin
  <2>4. CASE Saving(After(op.fresh, op.done + 1), op.ids)
    <3>1. Fits(op.fresh) /\ Distinct(op.fresh, Len(op.fresh))
          /\ \A n \in 0..Len(op.fresh) : InTurnPassed(Ledger(entries, folded), op.fresh, n)
      BY <2>1, PlacedPassed
    <3>2. op.done + 1 \in 0..Len(op.fresh)
      <4>1. op.done \in 0 .. Len(op.fresh) - 1 /\ Len(op.fresh) \in Nat BY <2>1, PlacedFits
      <4> QED BY <4>1
    <3>3. PICK fresh, n, A : fresh = op.fresh /\ n = op.done + 1 /\ A = op.ids OBVIOUS
    <3>4. Fits(fresh) /\ Distinct(fresh, Len(fresh)) /\ n \in 0..Len(fresh)
          /\ InTurnPassed(Ledger(entries, folded), fresh, n) /\ Saving(After(fresh, n), A)
      BY <2>4, <3>1, <3>2, <3>3
    <3> QED BY <3>4, AftersWithin
  <2> QED BY <2>2, <2>3, <2>4
<1>2. CASE UndoRelease
  <2>1. op.kind = "undo" /\ Undone(op.kept) BY <1>2 DEF UndoRelease
  <2> QED BY <2>1, UndoneWithin
<1>3. ASSUME NEW effect \in BOOLEAN, BatchReserveFails(effect) PROVE AdmittedNow
  BY <1>3, KeepsWithin DEF BatchReserveFails, Undo
<1>4. ASSUME NEW effect \in BOOLEAN, UndoFails(effect) PROVE AdmittedNow
  <2>1. op.kind = "undo" /\ (UNCHANGED local \/ \E K : Undone(K)) BY <1>4 DEF UndoFails
  <2> QED BY <2>1, KeepsWithin, UndoneWithin
<1> QED BY <1>1, <1>2, <1>3, <1>4

LEMMA SettlesWithin == ASSUME NEW r, NEW e, Settling(r, e) PROVE AdmittedNow
<1>1. CASE UNCHANGED local BY <1>1, KeepsWithin
<1>2. CASE Saving([entries EXCEPT ![r] = e], {r}) BY <1>2, EditsWithin
<1> QED BY <1>1, <1>2 DEF Settling

LEMMA RecordWithin ==
  ASSUME NEW r,
         \/ \E amounts \in Settlements : Settle(r, amounts)
         \/ \E tokens \in Usages, price \in Prices : SettleUsage(r, tokens, price)
         \/ MarkUnknown(r) \/ Release(r)
  PROVE  AdmittedNow
<1>1. ASSUME NEW amounts \in Settlements, Settle(r, amounts) PROVE AdmittedNow
  <2>1. Settling(r, Settled(entries[r], amounts)) BY <1>1 DEF Settle
  <2> QED BY <2>1, SettlesWithin
<1>2. ASSUME NEW tokens \in Usages, NEW price \in Prices, SettleUsage(r, tokens, price)
      PROVE  AdmittedNow
  <2>1. \E next : Settling(r, next) BY <1>2 DEF SettleUsage
  <2> QED BY <2>1, SettlesWithin
<1>3. CASE MarkUnknown(r) BY <1>3, NothingAdded DEF MarkUnknown, Saving
<1>4. CASE Release(r) BY <1>4, NothingAdded, KeepsWithin DEF Release, Saving
<1> QED BY <1>1, <1>2, <1>3, <1>4

LEMMA StoreWithin ==
  ASSUME crashes \in Nat,
         \/ StoreClose \/ Persist \/ Restart
         \/ \E effect \in BOOLEAN :
              StoreReserveFails(effect) \/ StoreCloseFails(effect) \/ PersistFails(effect)
         \/ \E r \in Ids, how \in SweepHow : Sweep(r, how)
         \/ \E s \in Compacted : Compact(s)
  PROVE  AdmittedNow
<1>1. CASE StoreClose
  <2>1. \E r, e, A : Saving([entries EXCEPT ![r] = e], A) BY <1>1 DEF StoreClose
  <2> QED BY <2>1, EditsWithin
<1>2. CASE Restart
  <2>1. crashes' = crashes + 1 BY <1>2 DEF Restart
  <2>2. crashes' # crashes BY <2>1
  <2> QED BY <2>2 DEF AdmittedNow
<1>3. CASE \/ Persist
           \/ \E effect \in BOOLEAN :
                StoreReserveFails(effect) \/ StoreCloseFails(effect) \/ PersistFails(effect)
           \/ \E r \in Ids, how \in SweepHow : Sweep(r, how)
  <2>1. UNCHANGED entries
    BY <1>3 DEF Persist, StoreReserveFails, StoreCloseFails, PersistFails, Sweep, local
  <2> QED BY <2>1, NothingAdded
<1>4. ASSUME NEW s \in Compacted, Compact(s) PROVE AdmittedNow
  <2>1. DOMAIN entries' = DOMAIN entries \ CompactedIn(s) BY <1>4, Zenon DEF Compact
  <2> QED BY <2>1, NothingAdded
<1> QED BY <1>1, <1>2, <1>3, <1>4

LEMMA StepWithin ==
  ASSUME LedgerAssumption, LedgerInv, LedgerFolds, OpAdmitted, crashes \in Nat,
         [LedgerNext]_ledgerVars
  PROVE  AdmittedNow
<1>1. ASSUME NEW in \in Offers, Reserve(in) PROVE AdmittedNow BY <1>1, ReserveWithin
<1>2. ASSUME NEW in \in Adopted, Adopt(in) PROVE AdmittedNow BY <1>2, ReserveWithin
<1>3. ASSUME NEW batch \in Batches, ReserveMany(batch) PROVE AdmittedNow
  BY <1>3, ReserveManyWithin
<1>4. ASSUME NEW r \in Ids,
             \/ \E amounts \in Settlements : Settle(r, amounts)
             \/ \E tokens \in Usages, price \in Prices : SettleUsage(r, tokens, price)
             \/ MarkUnknown(r) \/ Release(r)
      PROVE  AdmittedNow
  BY <1>4, RecordWithin
<1>5. ASSUME \/ StoreClose \/ Persist \/ Restart
             \/ \E effect \in BOOLEAN :
                  StoreReserveFails(effect) \/ StoreCloseFails(effect) \/ PersistFails(effect)
             \/ \E r \in Ids, how \in SweepHow : Sweep(r, how)
             \/ \E s \in Compacted : Compact(s)
      PROVE  AdmittedNow
  BY <1>5, StoreWithin
<1>6. ASSUME StoreReserve PROVE AdmittedNow BY <1>6, StoreReserveWithin
<1>7. ASSUME \/ BatchReserve \/ UndoRelease
             \/ \E effect \in BOOLEAN : BatchReserveFails(effect) \/ UndoFails(effect)
      PROVE  AdmittedNow
  BY <1>7, BatchWithin
<1>8. ASSUME UNCHANGED ledgerVars PROVE AdmittedNow
  BY <1>8, NothingAdded DEF ledgerVars
<1> QED BY <1>1, <1>2, <1>3, <1>4, <1>5, <1>6, <1>7, <1>8 DEF LedgerNext

\* Crashes are counted.
LEMMA CrashesCount ==
  ASSUME crashes \in Nat, [LedgerNext]_ledgerVars
  PROVE  crashes' \in Nat
<1>1. CASE Restart BY <1>1 DEF Restart
<1>2. ASSUME NEW in, Reserve(in) \/ Adopt(in) PROVE crashes' \in Nat
  BY <1>2, Zenon DEF Reserve, Adopt, world
<1>3. ASSUME NEW batch, ReserveMany(batch) PROVE crashes' \in Nat
  BY <1>3, Zenon DEF ReserveMany, world
<1>4. ASSUME NEW r,
             \/ \E amounts \in Settlements : Settle(r, amounts)
             \/ \E tokens \in Usages, price \in Prices : SettleUsage(r, tokens, price)
             \/ MarkUnknown(r) \/ Release(r)
             \/ \E how \in SweepHow : Sweep(r, how)
      PROVE  crashes' \in Nat
  BY <1>4, Zenon DEF Settle, SettleUsage, MarkUnknown, Release, Sweep, world
<1>5. ASSUME NEW s, Compact(s) PROVE crashes' \in Nat BY <1>5, Zenon DEF Compact, world
<1>6. ASSUME StoreReserve \/ StoreClose \/ BatchReserve \/ UndoRelease \/ Persist
      PROVE  crashes' \in Nat
  BY <1>6, Zenon DEF StoreReserve, StoreClose, BatchReserve, UndoRelease, Persist, world
<1>7. ASSUME NEW effect,
             \/ StoreReserveFails(effect) \/ StoreCloseFails(effect)
             \/ BatchReserveFails(effect) \/ UndoFails(effect) \/ PersistFails(effect)
      PROVE  crashes' \in Nat
  BY <1>7, Zenon DEF StoreReserveFails, StoreCloseFails, BatchReserveFails, UndoFails, PersistFails
<1>8. CASE UNCHANGED ledgerVars BY <1>8 DEF ledgerVars
<1> QED BY <1>1, <1>2, <1>3, <1>4, <1>5, <1>6, <1>7, <1>8 DEF LedgerNext

\* Nothing is admitted past a bound: alone or in a batch, adopted holds aside, an
\* attempt is recorded only when every bound it is charged to holds all it was
\* ever charged, whatever was folded meanwhile (budget-ledger.ts, reserve,
\* reserveMany and fits).
THEOREM AdmittedWithin == LedgerSpec => AdmittedWithinEveryBound
<1>1. LedgerInit => crashes \in Nat BY DEF LedgerInit
<1>2. crashes \in Nat /\ [LedgerNext]_ledgerVars => (crashes \in Nat)'
  BY CrashesCount
<1>3. LedgerInv /\ LedgerFolds /\ OpAdmitted /\ crashes \in Nat /\ [LedgerNext]_ledgerVars
        => [\A r \in DOMAIN entries' \ DOMAIN entries :
              entries'[r].state = "reserved" /\ entries'[r].in \notin Adopted /\ crashes' = crashes =>
                \A s \in {x \in Bounds : InScope(entries'[r].in.chain, x)} :
                  StaysInBound(entries'[r].in, s)]_ledgerVars
  BY StepWithin, LedgerAssumption DEF AdmittedNow
<1> QED BY <1>1, <1>2, <1>3, LedgerStands, FoldsStand, AdmissionStands, PTL
        DEF LedgerSpec, AdmittedWithinEveryBound
-----------------------------------------------------------------------------
(* The store behind the ledger. *)

\* What the ledger can tell the store of an attempt it settles.
TokenActuals ==
  {OrZero(a.tokens) : a \in Settlements} \cup Usages \cup {StoreEst(o).tokens : o \in Offers \cup Adopted}
TokensKnown(E) == \A r \in DOMAIN E : E[r].actual.tokens \in {None} \cup TokenActuals
HoldsKnown ==
  \A r \in DOMAIN holds :
    r \in Ids /\ \E o \in Offers \cup Adopted : holds[r].est = StoreEst(o)
StoreKnown ==
  /\ TokensKnown(entries) /\ TokensKnown(disk.entries) /\ HoldsKnown
  /\ op.kind = "close" => op.next.actual.tokens \in {None} \cup TokenActuals

\* What a step may ask of the store.
StoreMoves ==
  \/ UNCHANGED holds
  \/ \E in \in Offers \cup Adopted : StoreReserving(in)
  \/ \E r \in Ids, q \in Charges : q.tokens \in TokenActuals /\ StoreSettling(r, q)
  \/ \E r \in Ids : StoreReleasing(r)

LEMMA EstimateIs ==
  ASSUME LedgerAssumption, NEW o \in Offers \cup Adopted
  PROVE  StoreEst(o) \in Charges /\ StoreEst(o).tokens \in Nat /\ StoreEst(o).tokens \in TokenActuals
<1>1. o.est \in Quantities BY DEF LedgerAssumption
<1>2. OrZero(o.est.tokens) \in Nat /\ OrZero(o.est.usd) \in Nat
  BY <1>1 DEF Quantities, OrZero, None
<1> QED BY <1>2 DEF StoreEst, Charges, TokenActuals

LEMMA ClosingMoves ==
  ASSUME LedgerAssumption, LedgerInv, StoreKnown, op.kind = "close", Closing(op.next)
  PROVE  StoreMoves
<1> DEFINE e == op.next
<1>1. IsRecord(e) /\ Over(e) BY DEF LedgerInv, OpFits, NoOp, ReserveFits, CloseFits, BatchFits, UndoFits
<1>2. e.in \in Offers \cup Adopted /\ e.actual \in Quantities BY <1>1 DEF IsRecord
<1>3. e.in.id \in Ids BY <1>2 DEF Ids
<1>4. e.actual.tokens \in {None} \cup TokenActuals BY DEF StoreKnown
<1> HIDE DEF e
<1>5. CASE e.state = "released"
  <2>1. StoreReleasing(e.in.id) BY <1>5 DEF Closing, e
  <2> QED BY <1>3, <2>1 DEF StoreMoves
<1>6. CASE e.state # "released"
  <2>1. StoreSettling(e.in.id, InStoreAmounts(e)) BY <1>6 DEF Closing, e
  <2>2. e.actual.tokens # None BY <1>1, <1>6 DEF IsRecord, Over, SettledInStore
  <2>3. e.actual.tokens \in Int /\ OrZero(e.actual.usd) \in Int
    BY <1>2 DEF Quantities, OrZero, None
  <2>4. InStoreAmounts(e) \in Charges /\ InStoreAmounts(e).tokens = e.actual.tokens
    BY <2>3 DEF InStoreAmounts, Charges
  <2> QED BY <1>3, <1>4, <2>1, <2>2, <2>4 DEF StoreMoves
<1> QED BY <1>5, <1>6

LEMMA SweepMoves ==
  ASSUME LedgerAssumption, StoreKnown, NEW r \in Ids, NEW how, Sweep(r, how)
  PROVE  StoreMoves
<1>1. CASE StoreReleasing(r) BY <1>1 DEF StoreMoves
<1>2. CASE StoreSettling(r, holds[r].est)
  <2>1. r \in DOMAIN holds BY DEF Sweep
  <2>2. PICK o \in Offers \cup Adopted : holds[r].est = StoreEst(o) BY <2>1 DEF StoreKnown, HoldsKnown
  <2>3. holds[r].est \in Charges /\ holds[r].est.tokens \in TokenActuals BY <2>2, EstimateIs
  <2> QED BY <1>2, <2>3 DEF StoreMoves
<1> QED BY <1>1, <1>2 DEF Sweep

LEMMA BatchAsks ==
  ASSUME LedgerInv, op.kind = "batch"
  PROVE  op.fresh[op.done + 1] \in Offers
<1>1. op.fresh \in Seq(Offers) /\ op.done \in 0 .. Len(op.fresh) - 1
  BY DEF LedgerInv, OpFits, NoOp, ReserveFits, CloseFits, BatchFits, UndoFits, StepFits
<1> QED BY <1>1

LEMMA UndoAsks ==
  ASSUME LedgerInv, op.kind = "undo"
  PROVE  op.fresh[op.left].id \in Ids
<1>1. /\ op.fresh \in Seq(Offers) /\ op.made \in 1 .. Len(op.fresh) /\ op.left \in 1 .. op.made
  BY DEF LedgerInv, OpFits, NoOp, ReserveFits, CloseFits, BatchFits, UndoFits, StepFits
<1>2. op.fresh[op.left] \in Offers BY <1>1
<1> QED BY <1>2 DEF Ids

LEMMA ReserveAsks ==
  ASSUME LedgerInv, op.kind = "reserve"
  PROVE  op.in \in Offers \cup Adopted
BY DEF LedgerInv, OpFits, NoOp, ReserveFits, IsNew, CloseFits, BatchFits, UndoFits

\* Every step leaves the store alone or is one of its operations.
LEMMA EveryStepMoves ==
  ASSUME LedgerAssumption, LedgerInv, StoreKnown, [LedgerNext]_ledgerVars
  PROVE  StoreMoves
<1>1. CASE UNCHANGED ledgerVars BY <1>1 DEF ledgerVars, StoreMoves
<1>2. CASE \/ \E in \in Offers : Reserve(in)
           \/ \E in \in Adopted : Adopt(in)
           \/ \E batch \in Batches : ReserveMany(batch)
           \/ \E r \in Ids :
                \/ \E amounts \in Settlements : Settle(r, amounts)
                \/ \E tokens \in Usages, price \in Prices : SettleUsage(r, tokens, price)
                \/ MarkUnknown(r) \/ Release(r)
           \/ \E s \in Compacted : Compact(s)
           \/ Persist \/ (\E effect \in BOOLEAN : PersistFails(effect)) \/ Restart
  <2>1. UNCHANGED holds
    <3>1. ASSUME NEW in, Reserve(in) PROVE UNCHANGED holds BY <3>1, Zenon DEF Reserve
    <3>2. ASSUME NEW in, Adopt(in) PROVE UNCHANGED holds BY <3>2, Zenon DEF Adopt
    <3>3. ASSUME NEW batch, ReserveMany(batch) PROVE UNCHANGED holds
      BY <3>3, Zenon DEF ReserveMany
    <3>4. ASSUME NEW r, NEW amounts, Settle(r, amounts) PROVE UNCHANGED holds
      BY <3>4, Zenon DEF Settle
    <3>5. ASSUME NEW r, NEW tokens, NEW price, SettleUsage(r, tokens, price) PROVE UNCHANGED holds
      BY <3>5, Zenon DEF SettleUsage
    <3>6. ASSUME NEW r, MarkUnknown(r) \/ Release(r) PROVE UNCHANGED holds
      BY <3>6, Zenon DEF MarkUnknown, Release
    <3>7. ASSUME NEW s, Compact(s) PROVE UNCHANGED holds BY <3>7, Zenon DEF Compact
    <3>8. ASSUME Persist \/ (\E effect \in BOOLEAN : PersistFails(effect)) \/ Restart
          PROVE  UNCHANGED holds
      BY <3>8 DEF Persist, PersistFails, Restart
    <3> QED BY <1>2, <3>1, <3>2, <3>3, <3>4, <3>5, <3>6, <3>7, <3>8
  <2> QED BY <2>1 DEF StoreMoves
<1>3. ASSUME NEW r \in Ids, NEW how \in SweepHow, Sweep(r, how) PROVE StoreMoves
  BY <1>3, SweepMoves
<1>4. ASSUME \/ StoreReserve
             \/ \E effect \in BOOLEAN : StoreReserveFails(effect)
      PROVE  StoreMoves
  <2>1. op.kind = "reserve" BY <1>4 DEF StoreReserve, StoreReserveFails
  <2>2. StoreReserving(op.in) \/ UNCHANGED holds BY <1>4 DEF StoreReserve, StoreReserveFails
  <2> QED BY <2>1, <2>2, ReserveAsks DEF StoreMoves
<1>5. ASSUME \/ StoreClose
             \/ \E effect \in BOOLEAN : StoreCloseFails(effect)
      PROVE  StoreMoves
  <2>1. op.kind = "close" BY <1>5 DEF StoreClose, StoreCloseFails
  <2>2. Closing(op.next) \/ UNCHANGED holds BY <1>5 DEF StoreClose, StoreCloseFails
  <2>3. CASE UNCHANGED holds BY <2>3 DEF StoreMoves
  <2> QED BY <2>1, <2>2, <2>3, ClosingMoves
<1>6. ASSUME \/ BatchReserve
             \/ \E effect \in BOOLEAN : BatchReserveFails(effect)
      PROVE  StoreMoves
  <2>1. op.kind = "batch" BY <1>6 DEF BatchReserve, BatchReserveFails
  <2>2. StoreReserving(op.fresh[op.done + 1]) \/ UNCHANGED holds
    BY <1>6 DEF BatchReserve, BatchReserveFails
  <2> QED BY <2>1, <2>2, BatchAsks DEF StoreMoves
<1>7. ASSUME \/ UndoRelease
             \/ \E effect \in BOOLEAN : UndoFails(effect)
      PROVE  StoreMoves
  <2>1. op.kind = "undo" BY <1>7 DEF UndoRelease, UndoFails
  <2>2. StoreReleasing(op.fresh[op.left].id) \/ UNCHANGED holds BY <1>7 DEF UndoRelease, UndoFails
  <2> QED BY <2>1, <2>2, UndoAsks DEF StoreMoves
<1> QED BY <1>1, <1>2, <1>3, <1>4, <1>5, <1>6, <1>7 DEF LedgerNext
-----------------------------------------------------------------------------
(* What the ledger tells the store. *)

KnownTokens(e) == e.actual.tokens \in {None} \cup TokenActuals
\* The records a step leaves, and the one it means to close.
LocalKnown == TokensKnown(entries) /\ (op.kind = "close" => KnownTokens(op.next))

LEMMA LocalIsKnown ==
  ASSUME StoreKnown
  PROVE  LocalKnown /\ TokensKnown(disk.entries) /\ HoldsKnown
BY DEF StoreKnown, LocalKnown, KnownTokens

LEMMA ReservedTokens == ASSUME NEW in PROVE KnownTokens(Reserved(in))
BY DEF KnownTokens, Reserved, Unknown

LEMMA ReleasedTokens ==
  ASSUME NEW e, "actual" \in DOMAIN e, e = [x \in DOMAIN e |-> e[x]]
  PROVE  KnownTokens(Released(e))
<1>1. Released(e).actual = Unknown BY DEF Released
<1> QED BY <1>1 DEF KnownTokens, Unknown

LEMMA RecordReleased == ASSUME NEW e, IsRecord(e) PROVE KnownTokens(Released(e))
<1>1. "actual" \in DOMAIN e /\ e = [x \in DOMAIN e |-> e[x]] BY DEF IsRecord
<1> QED BY <1>1, ReleasedTokens

LEMMA SavesKnown ==
  ASSUME NEW E, TokensKnown(E), NEW A, Saving(E, A) PROVE LocalKnown'
BY DEF Saving, LocalKnown, TokensKnown

LEMMA StaysKnown ==
  ASSUME TokensKnown(entries), UNCHANGED local, op'.kind # "close" PROVE LocalKnown'
BY DEF local, LocalKnown, TokensKnown

LEMMA WithKnown ==
  ASSUME TokensKnown(entries), NEW r, NEW in
  PROVE  TokensKnown(With(entries, r, Reserved(in)))
<1>1. KnownTokens(Reserved(in)) BY ReservedTokens
<1> QED BY <1>1 DEF With, TokensKnown, KnownTokens

LEMMA AfterKnown ==
  ASSUME TokensKnown(entries), NEW fresh, NEW n
  PROVE  TokensKnown(After(fresh, n))
<1> DEFINE E == After(fresh, n)
<1> SUFFICES ASSUME NEW r \in DOMAIN E PROVE KnownTokens(E[r]) BY DEF TokensKnown, KnownTokens
<1>1. CASE r \in DOMAIN entries
  <2>1. E[r] = entries[r] BY <1>1 DEF After
  <2> QED BY <1>1, <2>1 DEF TokensKnown, KnownTokens
<1>2. CASE r \notin DOMAIN entries
  <2>1. \E in : E[r] = Reserved(in) BY <1>2 DEF After
  <2> QED BY <2>1, ReservedTokens
<1> QED BY <1>1, <1>2

LEMMA WithdrawnKnown ==
  ASSUME LedgerInv, TokensKnown(entries), NEW fresh, NEW n, NEW kept
  PROVE  TokensKnown(Withdrawn(fresh, n, kept))
<1> DEFINE E == Withdrawn(fresh, n, kept)
           A == After(fresh, n)
<1> SUFFICES ASSUME NEW r \in DOMAIN E PROVE KnownTokens(E[r]) BY DEF TokensKnown, KnownTokens
<1>1. r \in DOMAIN entries \cup {fresh[i].id : i \in 1..n} BY DEF Withdrawn
<1>2. E[r] = IF \A i \in 1..n : fresh[i].id # r THEN entries[r]
             ELSE IF r \in kept THEN A[r] ELSE Released(A[r])
  BY <1>1, Zenon DEF Withdrawn
<1>3. KnownTokens(A[r])
  <2>1. r \in DOMAIN A BY <1>1 DEF After
  <2> QED BY <2>1, AfterKnown DEF TokensKnown, KnownTokens
<1>4. KnownTokens(Released(A[r]))
  <2>1. CASE r \in DOMAIN entries
    <3>1. IsRecord(entries[r]) BY <2>1 DEF LedgerInv, Books
    <3>2. A[r] = entries[r] BY <2>1 DEF After
    <3> QED BY <3>1, <3>2, RecordReleased
  <2>2. CASE r \notin DOMAIN entries
    <3>1. PICK in : A[r] = Reserved(in) BY <1>1, <2>2 DEF After
    <3>2. "actual" \in DOMAIN Reserved(in) /\ Reserved(in) = [x \in DOMAIN Reserved(in) |-> Reserved(in)[x]]
      BY DEF Reserved
    <3> QED BY <3>1, <3>2, ReleasedTokens
  <2> QED BY <2>1, <2>2
<1>5. (\A i \in 1..n : fresh[i].id # r) => KnownTokens(entries[r])
  BY <1>1 DEF TokensKnown, KnownTokens
<1> HIDE DEF E, A
<1> QED BY <1>2, <1>3, <1>4, <1>5

LEMMA WithdrawsKnown ==
  ASSUME LedgerInv, TokensKnown(entries), NEW fresh, NEW n, NEW kept, Withdraw(fresh, n, kept)
  PROVE  LocalKnown'
<1>1. CASE op' = NoOp /\ UNCHANGED local BY <1>1, StaysKnown DEF NoOp
<1>2. CASE Saving(Withdrawn(fresh, n, kept), {}) BY <1>2, WithdrawnKnown, SavesKnown
<1> QED BY <1>1, <1>2 DEF Withdraw

LEMMA UndoesKnown ==
  ASSUME TokensKnown(entries), NEW fresh, NEW done, Undo(fresh, done) PROVE LocalKnown'
<1>1. UNCHANGED local BY DEF Undo
<1>2. op'.kind # "close" BY DEF Undo, NoOp
<1> QED BY <1>1, <1>2, StaysKnown

\* A record a settlement is to leave.
LEMMA SettlesKnown ==
  ASSUME TokensKnown(entries), NEW r, NEW e, KnownTokens(e), Settling(r, e)
  PROVE  LocalKnown'
<1>1. CASE op' = [kind |-> "close", next |-> e, tries |-> 1] /\ UNCHANGED local
  <2>1. op'.next = e BY <1>1
  <2>2. entries' = entries BY <1>1 DEF local
  <2> QED BY <2>1, <2>2 DEF LocalKnown, TokensKnown
<1>2. CASE Saving([entries EXCEPT ![r] = e], {r})
  <2>1. TokensKnown([entries EXCEPT ![r] = e]) BY DEF TokensKnown, KnownTokens
  <2> QED BY <1>2, <2>1, SavesKnown
<1> QED BY <1>1, <1>2 DEF Settling

LEMMA SettledTokens ==
  ASSUME NEW e, IsRecord(e), KnownTokens(e), NEW q, q.tokens \in {None} \cup TokenActuals
  PROVE  /\ KnownTokens(Settled(e, q))
         /\ \A u : KnownTokens([Settled(e, q) EXCEPT !.unpriced = u])
<1> DEFINE actual == [d \in Dims |-> IF e.actual[d] # None THEN e.actual[d] ELSE q[d]]
           state == IF None \in {actual[d] : d \in Dims} THEN "unknown" ELSE "settled"
<1>1. Settled(e, q) = [e EXCEPT !.actual = actual, !.state = state] BY DEF Settled
<1>2. actual.tokens = IF e.actual.tokens # None THEN e.actual.tokens ELSE q.tokens BY DEF Dims
<1>3. e \in [in : Offers \cup Adopted, state : States, actual : Quantities, unpriced : BOOLEAN]
  BY DEF IsRecord
<1> HIDE DEF actual, state
<1>4. Settled(e, q).actual = actual
      /\ \A u : [Settled(e, q) EXCEPT !.unpriced = u].actual = actual
  BY <1>1, <1>3
<1> QED BY <1>2, <1>4 DEF KnownTokens

LEMMA RecordsKnown ==
  ASSUME LedgerAssumption, LedgerInv, TokensKnown(entries), NEW r \in Ids,
         \/ \E amounts \in Settlements : Settle(r, amounts)
         \/ \E tokens \in Usages, price \in Prices : SettleUsage(r, tokens, price)
         \/ MarkUnknown(r) \/ Release(r)
  PROVE  LocalKnown'
<1>1. r \in DOMAIN entries BY Zenon DEF Settle, SettleUsage, MarkUnknown, Release
<1>2. IsRecord(entries[r]) /\ KnownTokens(entries[r])
  BY <1>1 DEF LedgerInv, Books, TokensKnown, KnownTokens
<1>3. ASSUME NEW amounts \in Settlements, Settle(r, amounts) PROVE LocalKnown'
  <2>1. amounts.tokens \in {None} \cup TokenActuals BY DEF TokenActuals, OrZero
  <2>2. KnownTokens(Settled(entries[r], amounts)) BY <1>2, <2>1, SettledTokens
  <2>3. Settling(r, Settled(entries[r], amounts)) BY <1>3 DEF Settle
  <2> QED BY <2>2, <2>3, SettlesKnown
<1>4. ASSUME NEW tokens \in Usages, NEW price, SettleUsage(r, tokens, price) PROVE LocalKnown'
  <2>1. PICK u, c : Settling(r, [Settled(entries[r], [tokens |-> tokens, usd |-> c])
                                   EXCEPT !.unpriced = u])
    BY <1>4, Zenon DEF SettleUsage
  <2>2. PICK q : q = [tokens |-> tokens, usd |-> c] OBVIOUS
  <2>3. q.tokens \in {None} \cup TokenActuals BY <2>2 DEF TokenActuals
  <2>4. KnownTokens([Settled(entries[r], q) EXCEPT !.unpriced = u]) BY <1>2, <2>3, SettledTokens
  <2> QED BY <2>1, <2>2, <2>4, SettlesKnown
<1>5. ASSUME MarkUnknown(r) PROVE LocalKnown'
  <2> DEFINE E == [entries EXCEPT ![r].state = IF @ = "reserved" THEN "unknown" ELSE @]
  <2>1. TokensKnown(E)
    <3>1. \A q \in DOMAIN E : q # r => E[q] = entries[q] OBVIOUS
    <3>2. E[r].actual = entries[r].actual BY <1>1, <1>2 DEF IsRecord
    <3>3. DOMAIN E = DOMAIN entries OBVIOUS
    <3> HIDE DEF E
    <3> QED BY <3>1, <3>2, <3>3 DEF TokensKnown
  <2>2. Saving(E, {r}) BY <1>5 DEF MarkUnknown
  <2> QED BY <2>1, <2>2, SavesKnown
<1>6. ASSUME Release(r) PROVE LocalKnown'
  <2>1. PICK e : e = Released(entries[r]) OBVIOUS
  <2>2. KnownTokens(e) BY <1>2, <2>1, RecordReleased
  <2>3. CASE op' = [kind |-> "close", next |-> e, tries |-> 1] /\ UNCHANGED local
    <3>1. op'.next = e BY <2>3
    <3>2. entries' = entries BY <2>3 DEF local
    <3> QED BY <2>2, <3>1, <3>2 DEF LocalKnown, TokensKnown
  <2>4. CASE Saving([entries EXCEPT ![r] = e], {r})
    <3>1. TokensKnown([entries EXCEPT ![r] = e]) BY <2>2 DEF TokensKnown, KnownTokens
    <3> QED BY <2>4, <3>1, SavesKnown
  <2>5. \/ op' = [kind |-> "close", next |-> e, tries |-> 1] /\ UNCHANGED local
        \/ Saving([entries EXCEPT ![r] = e], {r})
    BY <1>6, <2>1 DEF Release
  <2> QED BY <2>3, <2>4, <2>5
<1> QED BY <1>3, <1>4, <1>5, <1>6

LEMMA AloneKnown ==
  ASSUME TokensKnown(entries), NEW in, Reserve(in) \/ Adopt(in) PROVE LocalKnown'
<1>1. CASE Saving(entries, {in.id}) BY <1>1, SavesKnown
<1>2. CASE op' = [kind |-> "reserve", in |-> in] /\ UNCHANGED local BY <1>2, StaysKnown
<1>3. CASE Saving(With(entries, in.id, Reserved(in)), {in.id}) BY <1>3, WithKnown, SavesKnown
<1>4. CASE Reserve(in) BY <1>1, <1>2, <1>3, <1>4, Zenon DEF Reserve
<1>5. CASE Adopt(in) BY <1>1, <1>2, <1>3, <1>5, Zenon DEF Adopt
<1> QED BY <1>4, <1>5

LEMMA ReserveManyKnown ==
  ASSUME LedgerInv, TokensKnown(entries), NEW batch, ReserveMany(batch) PROVE LocalKnown'
<1> DEFINE fresh == Fresh(batch)
           n == AdmittedInTurn(fresh)
<1>1. \/ Withdraw(fresh, n, {})
      \/ op'.kind = "batch" /\ UNCHANGED local
      \/ \E ids : Saving(After(fresh, n), ids)
  BY DEF ReserveMany
<1> HIDE DEF fresh, n
<1> QED BY <1>1, WithdrawsKnown, StaysKnown, AfterKnown, SavesKnown

LEMMA UndoneKnown ==
  ASSUME LedgerInv, TokensKnown(entries), op.kind = "undo", NEW K, Undone(K) PROVE LocalKnown'
<1>1. CASE op' = [op EXCEPT !.left = @ - 1, !.tries = 1, !.kept = K] /\ UNCHANGED local
  <2>1. UndoFits BY Running
  <2>2. op'.kind = "undo" BY <1>1, <2>1 DEF UndoFits
  <2> QED BY <1>1, <2>2, StaysKnown
<1>2. CASE Withdraw(op.fresh, op.made, K)
  <2>1. PICK fresh, n : fresh = op.fresh /\ n = op.made OBVIOUS
  <2> QED BY <1>2, <2>1, WithdrawsKnown
<1> QED BY <1>1, <1>2 DEF Undone

LEMMA BatchKnown ==
  ASSUME LedgerInv, TokensKnown(entries),
         \/ BatchReserve \/ UndoRelease
         \/ \E effect \in BOOLEAN : BatchReserveFails(effect) \/ UndoFails(effect)
  PROVE  LocalKnown'
<1>0. PICK fresh, n, A : fresh = op.fresh /\ n = op.done /\ A = op.ids OBVIOUS
<1>1. CASE BatchReserve
  <2>1. op.kind = "batch" BY <1>1 DEF BatchReserve
  <2>2. \/ Undo(fresh, n)
        \/ op' = [op EXCEPT !.done = n + 1] /\ UNCHANGED local
        \/ Saving(After(fresh, n + 1), A)
    BY <1>0, <1>1 DEF BatchReserve
  <2>3. CASE op' = [op EXCEPT !.done = n + 1] /\ UNCHANGED local
    <3>1. BatchFits BY <2>1, Running
    <3>2. op'.kind = "batch" BY <2>3, <3>1 DEF BatchFits
    <3> QED BY <2>3, <3>2, StaysKnown
  <2> QED BY <2>2, <2>3, UndoesKnown, AfterKnown, SavesKnown
<1>2. CASE UndoRelease
  <2>1. op.kind = "undo" /\ Undone(op.kept) BY <1>2 DEF UndoRelease
  <2>2. PICK K : K = op.kept OBVIOUS
  <2> QED BY <2>1, <2>2, UndoneKnown
<1>3. ASSUME NEW effect \in BOOLEAN, BatchReserveFails(effect) PROVE LocalKnown'
  <2>1. Undo(fresh, n) BY <1>0, <1>3 DEF BatchReserveFails
  <2> QED BY <2>1, UndoesKnown
<1>4. ASSUME NEW effect \in BOOLEAN, UndoFails(effect) PROVE LocalKnown'
  <2>1. op.kind = "undo" BY <1>4 DEF UndoFails
  <2>2. \/ op' = [op EXCEPT !.tries = @ + 1] /\ UNCHANGED local
        \/ \E K : Undone(K)
    BY <1>4 DEF UndoFails
  <2>3. CASE op' = [op EXCEPT !.tries = @ + 1] /\ UNCHANGED local
    <3>1. UndoFits BY <2>1, Running
    <3>2. op'.kind = "undo" BY <2>3, <3>1 DEF UndoFits
    <3> QED BY <2>3, <3>2, StaysKnown
  <2> QED BY <2>1, <2>2, <2>3, UndoneKnown
<1> QED BY <1>1, <1>2, <1>3, <1>4

LEMMA StoreAnswersKnown ==
  ASSUME LedgerInv, LocalKnown,
         \/ StoreReserve \/ StoreClose
         \/ \E effect \in BOOLEAN : StoreReserveFails(effect) \/ StoreCloseFails(effect)
  PROVE  LocalKnown'
<1>0. TokensKnown(entries) BY DEF LocalKnown
<1>1. CASE StoreReserve
  <2>1. PICK in : in = op.in OBVIOUS
  <2>2. \/ op' = NoOp /\ UNCHANGED local
        \/ Saving(With(entries, in.id, Reserved(in)), {in.id})
    BY <1>1, <2>1 DEF StoreReserve
  <2>3. op' = NoOp => op'.kind # "close" BY DEF NoOp
  <2> QED BY <1>0, <2>2, <2>3, StaysKnown, WithKnown, SavesKnown
<1>2. CASE StoreClose
  <2>1. PICK e : e = op.next OBVIOUS
  <2>2. KnownTokens(e) BY <1>2, <2>1 DEF StoreClose, LocalKnown
  <2>3. TokensKnown([entries EXCEPT ![e.in.id] = e])
    BY <1>0, <2>2 DEF TokensKnown, KnownTokens
  <2>4. Saving([entries EXCEPT ![e.in.id] = e], {e.in.id}) BY <1>2, <2>1 DEF StoreClose
  <2> QED BY <2>3, <2>4, SavesKnown
<1>3. ASSUME NEW effect \in BOOLEAN, StoreReserveFails(effect) PROVE LocalKnown'
  <2>1. op' = NoOp /\ UNCHANGED local BY <1>3 DEF StoreReserveFails
  <2>2. op'.kind # "close" BY <2>1 DEF NoOp
  <2> QED BY <1>0, <2>1, <2>2, StaysKnown
<1>4. ASSUME NEW effect \in BOOLEAN, StoreCloseFails(effect) PROVE LocalKnown'
  <2>1. op.kind = "close" /\ UNCHANGED local BY <1>4 DEF StoreCloseFails
  <2>2. op' = NoOp \/ op' = [op EXCEPT !.tries = @ + 1] BY <1>4 DEF StoreCloseFails
  <2>3. CASE op' = NoOp
    <3>1. op'.kind # "close" BY <2>3 DEF NoOp
    <3> QED BY <1>0, <2>1, <3>1, StaysKnown
  <2>4. CASE op' = [op EXCEPT !.tries = @ + 1]
    <3>1. CloseFits BY <2>1, Running
    <3>2. op'.next = op.next BY <2>4, <3>1 DEF CloseFits
    <3>3. entries' = entries BY <2>1 DEF local
    <3> QED BY <2>1, <3>2, <3>3 DEF LocalKnown, TokensKnown, KnownTokens
  <2> QED BY <2>2, <2>3, <2>4
<1> QED BY <1>1, <1>2, <1>3, <1>4

LEMMA CompactKnown ==
  ASSUME TokensKnown(entries), NEW s, Compact(s) PROVE LocalKnown'
<1>1. entries' = [r \in DOMAIN entries \ CompactedIn(s) |-> entries[r]] BY Zenon DEF Compact
<1>2. op' = [kind |-> "save", answers |-> {}] BY Zenon DEF Compact
<1>3. TokensKnown(entries)' BY <1>1 DEF TokensKnown
<1> QED BY <1>2, <1>3 DEF LocalKnown

LEMMA HoldsKnownOn ==
  ASSUME HoldsFit, HoldsKnown, StoreMoves PROVE HoldsKnown'
<1>1. CASE UNCHANGED holds BY <1>1 DEF HoldsKnown
<1>2. ASSUME NEW in \in Offers \cup Adopted, StoreReserving(in) PROVE HoldsKnown'
  <2>1. in.id \in Ids BY DEF Ids
  <2>2. CASE in.id \in DOMAIN holds BY <1>2, <2>2 DEF StoreReserving, HoldsKnown
  <2>3. CASE in.id \notin DOMAIN holds
    <3> DEFINE h == [est |-> StoreEst(in), actual |-> [tokens |-> 0, usd |-> 0],
                     state |-> IF StoreFits(StoreEst(in)) THEN "reserved" ELSE "denied"]
    <3>1. holds' = [x \in DOMAIN holds \cup {in.id} |-> IF x = in.id THEN h ELSE holds[x]]
      BY <1>2, <2>3 DEF StoreReserving, With
    <3>2. h.est = StoreEst(in) OBVIOUS
    <3> HIDE DEF h
    <3> QED BY <2>1, <3>1, <3>2 DEF HoldsKnown
  <2> QED BY <2>2, <2>3
<1>3. ASSUME NEW r, NEW q, StoreSettling(r, q) PROVE HoldsKnown'
  <2>1. DOMAIN holds' = DOMAIN holds /\ \A x \in DOMAIN holds : holds'[x].est = holds[x].est
    BY <1>3 DEF StoreSettling, HoldsFit, Holds
  <2> QED BY <2>1 DEF HoldsKnown
<1>4. ASSUME NEW r, StoreReleasing(r) PROVE HoldsKnown'
  <2>1. DOMAIN holds' = DOMAIN holds /\ \A x \in DOMAIN holds : holds'[x].est = holds[x].est
    BY <1>4 DEF StoreReleasing, HoldsFit, Holds
  <2> QED BY <2>1 DEF HoldsKnown
<1> QED BY <1>1, <1>2, <1>3, <1>4 DEF StoreMoves

LEMMA StoreKnownFirst == ASSUME LedgerInit PROVE StoreKnown
BY DEF LedgerInit, StoreKnown, TokensKnown, HoldsKnown, NoFunction, EmptySnapshot, NoOp

LEMMA StoreKnownOn ==
  ASSUME LedgerAssumption, LedgerInv, StoreKnown, [LedgerNext]_ledgerVars
  PROVE  StoreKnown'
<1>1. HoldsKnown' BY EveryStepMoves, HoldsKnownOn DEF StoreKnown, LedgerInv
<1>2. TokensKnown(entries) /\ TokensKnown(disk.entries) /\ LocalKnown
  BY LocalIsKnown DEF LocalKnown
<1>3. SUFFICES LocalKnown' /\ TokensKnown(disk.entries)'
  BY <1>1 DEF StoreKnown, LocalKnown, KnownTokens
<1>4. ASSUME LocalKnown', UNCHANGED disk PROVE LocalKnown' /\ TokensKnown(disk.entries)'
  BY <1>2, <1>4 DEF TokensKnown
<1>5. CASE UNCHANGED ledgerVars
  <2>1. UNCHANGED <<entries, op, disk>> BY <1>5 DEF ledgerVars
  <2> QED BY <1>2, <2>1 DEF LocalKnown, TokensKnown, KnownTokens
<1>6. ASSUME NEW in, Reserve(in) \/ Adopt(in) PROVE LocalKnown' /\ TokensKnown(disk.entries)'
  <2>1. UNCHANGED disk BY <1>6, Zenon DEF Reserve, Adopt, unsaved
  <2> QED BY <1>2, <1>4, <1>6, <2>1, AloneKnown
<1>7. ASSUME NEW batch, ReserveMany(batch) PROVE LocalKnown' /\ TokensKnown(disk.entries)'
  <2>1. UNCHANGED disk BY <1>7, Zenon DEF ReserveMany, unsaved
  <2> QED BY <1>2, <1>4, <1>7, <2>1, ReserveManyKnown
<1>8. ASSUME NEW r \in Ids,
             \/ \E amounts \in Settlements : Settle(r, amounts)
             \/ \E tokens \in Usages, price \in Prices : SettleUsage(r, tokens, price)
             \/ MarkUnknown(r) \/ Release(r)
      PROVE  LocalKnown' /\ TokensKnown(disk.entries)'
  <2>1. UNCHANGED disk BY <1>8, Zenon DEF Settle, SettleUsage, MarkUnknown, Release, unsaved
  <2> QED BY <1>2, <1>4, <1>8, <2>1, RecordsKnown
<1>9. ASSUME NEW r, NEW how, Sweep(r, how) PROVE LocalKnown' /\ TokensKnown(disk.entries)'
  <2>1. UNCHANGED <<entries, op, disk>> BY <1>9, Zenon DEF Sweep, local
  <2> QED BY <1>2, <2>1 DEF LocalKnown, TokensKnown, KnownTokens
<1>10. ASSUME NEW s, Compact(s) PROVE LocalKnown' /\ TokensKnown(disk.entries)'
  <2>1. UNCHANGED disk BY <1>10, Zenon DEF Compact, unsaved
  <2> QED BY <1>2, <1>4, <1>10, <2>1, CompactKnown
<1>11. ASSUME \/ StoreReserve \/ StoreClose
              \/ \E effect \in BOOLEAN : StoreReserveFails(effect) \/ StoreCloseFails(effect)
       PROVE  LocalKnown' /\ TokensKnown(disk.entries)'
  <2>1. UNCHANGED disk
    BY <1>11 DEF StoreReserve, StoreClose, StoreReserveFails, StoreCloseFails, unsaved
  <2> QED BY <1>2, <1>4, <1>11, <2>1, StoreAnswersKnown
<1>12. ASSUME \/ BatchReserve \/ UndoRelease
              \/ \E effect \in BOOLEAN : BatchReserveFails(effect) \/ UndoFails(effect)
       PROVE  LocalKnown' /\ TokensKnown(disk.entries)'
  <2>1. UNCHANGED disk
    BY <1>12 DEF BatchReserve, UndoRelease, BatchReserveFails, UndoFails, unsaved
  <2> QED BY <1>2, <1>4, <1>12, <2>1, BatchKnown
<1>13. ASSUME Persist \/ \E written \in BOOLEAN : PersistFails(written)
       PROVE  LocalKnown' /\ TokensKnown(disk.entries)'
  <2>1. UNCHANGED entries /\ op' = NoOp BY <1>13 DEF Persist, PersistFails, local
  <2>2. disk' = Snapshot \/ UNCHANGED disk BY <1>13 DEF Persist, PersistFails
  <2>3. LocalKnown' BY <1>2, <2>1 DEF LocalKnown, TokensKnown, NoOp
  <2>4. CASE disk' = Snapshot
    <3>1. disk'.entries = entries BY <2>4 DEF Snapshot
    <3> QED BY <1>2, <2>3, <3>1 DEF TokensKnown
  <2> QED BY <1>4, <2>2, <2>3, <2>4
<1>14. ASSUME Restart PROVE LocalKnown' /\ TokensKnown(disk.entries)'
  <2>1. entries' = disk.entries /\ op' = NoOp /\ UNCHANGED disk BY <1>14 DEF Restart
  <2> QED BY <1>2, <2>1 DEF LocalKnown, TokensKnown, NoOp
<1> QED BY <1>5, <1>6, <1>7, <1>8, <1>9, <1>10, <1>11, <1>12, <1>13, <1>14 DEF LedgerNext

\* What the ledger settles with is known to the store's callers, and every hold
\* is of an attempt with its estimates, through repeats, lost answers and
\* restarts (budget-ledger.ts, admitPersistent and mirrorSettlement).
THEOREM StoreIsKnown == LedgerSpec => []StoreKnown
<1>1. LedgerInit => StoreKnown BY StoreKnownFirst
<1>2. LedgerInv /\ StoreKnown /\ [LedgerNext]_ledgerVars => StoreKnown'
  BY StoreKnownOn, LedgerAssumption
<1> QED BY <1>1, <1>2, LedgerStands, PTL DEF LedgerSpec

-----------------------------------------------------------------------------
(* What the store counts. *)

TokenCharges == [r \in DOMAIN holds |-> StoreCharge(holds[r], "tokens")]

LEMMA TokensCommitted ==
  ASSUME NEW w, w = TokenCharges
  PROVE  StoreCommitted("tokens") = SumFunctionOnSet(w, DOMAIN holds)
<1>1. StoreCommitted("tokens") = SumFunctionOnSet(TokenCharges, DOMAIN holds)
  BY Zenon DEF StoreCommitted, TokenCharges
<1> QED BY <1>1

LEMMA TokenChargeIs ==
  ASSUME HoldsFit, NEW r \in DOMAIN holds
  PROVE  TokenCharges[r] \in Int /\ TokenCharges[r] = StoreCharge(holds[r], "tokens")
<1>1. holds[r].est.tokens \in Int /\ holds[r].actual.tokens \in Int
  BY DEF HoldsFit, Holds, Charges
<1> QED BY <1>1 DEF TokenCharges, StoreCharge

\* A hold changes, the charges of the others stay.
LEMMA ChargeMoves ==
  ASSUME HoldsFit, HoldsFit', IsFiniteSet(DOMAIN holds), NEW r \in DOMAIN holds,
         DOMAIN holds' = DOMAIN holds, \A q \in DOMAIN holds : q # r => holds'[q] = holds[q],
         NEW delta \in Int,
         StoreCharge(holds[r], "tokens")' = StoreCharge(holds[r], "tokens") + delta
  PROVE  StoreCommitted("tokens")' = StoreCommitted("tokens") + delta
<1> DEFINE D == DOMAIN holds
<1>1. PICK w, v : w = TokenCharges /\ v = TokenCharges' OBVIOUS
<1>2. \A q \in D : w[q] \in Int /\ w[q] = StoreCharge(holds[q], "tokens") BY <1>1, TokenChargeIs
<1>3. \A q \in D : v[q] = StoreCharge(holds'[q], "tokens") BY <1>1 DEF TokenCharges
<1>4. v[r] = w[r] + delta BY <1>2, <1>3
<1>5. \A q \in D : q # r => v[q] = w[q] BY <1>2, <1>3
<1>6. SumFunctionOnSet(v, D) = SumFunctionOnSet(w, D) + delta
  BY <1>2, <1>4, <1>5, SumMoved
<1>7. StoreCommitted("tokens") = SumFunctionOnSet(w, D) BY <1>1, TokensCommitted
<1>8. StoreCommitted("tokens")' = SumFunctionOnSet(v, D) BY <1>1 DEF StoreCommitted, TokenCharges
<1> QED BY <1>6, <1>7, <1>8

LEMMA ChargeComes ==
  ASSUME HoldsFit, IsFiniteSet(DOMAIN holds), NEW r, r \notin DOMAIN holds,
         DOMAIN holds' = DOMAIN holds \cup {r}, \A q \in DOMAIN holds : holds'[q] = holds[q],
         StoreCharge(holds[r], "tokens")' \in Int
  PROVE  StoreCommitted("tokens")' = StoreCommitted("tokens") + StoreCharge(holds[r], "tokens")'
<1> DEFINE D == DOMAIN holds
<1>1. PICK w, v, c : w = TokenCharges /\ v = TokenCharges' /\ c = StoreCharge(holds[r], "tokens")' OBVIOUS
<1>2. \A q \in D : w[q] \in Int /\ w[q] = StoreCharge(holds[q], "tokens") BY <1>1, TokenChargeIs
<1>3. v[r] = c /\ \A q \in D : v[q] = w[q] BY <1>1, <1>2 DEF TokenCharges
<1>4. SumFunctionOnSet(v, D \cup {r}) = v[r] + SumFunctionOnSet(v, D)
  BY <1>1, <1>2, <1>3, SumAdd
<1>5. SumFunctionOnSet(v, D) = SumFunctionOnSet(w, D) BY <1>3, SumSame
<1>6. SumFunctionOnSet(w, D) \in Int BY <1>2, SumInt
<1>7. StoreCommitted("tokens") = SumFunctionOnSet(w, D) BY <1>1, TokensCommitted
<1>8. StoreCommitted("tokens")' = SumFunctionOnSet(v, D \cup {r})
  BY <1>1 DEF StoreCommitted, TokenCharges
<1> QED BY <1>1, <1>3, <1>4, <1>5, <1>6, <1>7, <1>8

LEMMA NothingCommitted ==
  ASSUME HoldsFit, IsFiniteSet(DOMAIN holds), Admitted = {} PROVE StoreCommitted("tokens") = 0
<1> DEFINE K == {s \in SUBSET DOMAIN holds : SumFunctionOnSet(TokenCharges, s) = 0}
<1>1. \A r \in DOMAIN holds : TokenCharges[r] = 0
  BY DEF Admitted, TokenCharges, StoreCharge
<1>2. {} \in K BY SumNone
<1>3. ASSUME NEW s \in K, NEW x \in DOMAIN holds \ s PROVE s \cup {x} \in K
  <2>1. IsFiniteSet(s) /\ \A y \in s : TokenCharges[y] \in Int BY <1>1, FS_Subset
  <2>2. SumFunctionOnSet(TokenCharges, s \cup {x}) = TokenCharges[x] + SumFunctionOnSet(TokenCharges, s)
    BY <1>1, <2>1, SumAdd
  <2> QED BY <1>1, <2>2
<1> HIDE DEF K
<1>4. DOMAIN holds \in K
  BY <1>2, <1>3, GrowingUp
<1> QED BY <1>4, TokensCommitted DEF K
-----------------------------------------------------------------------------
(* The store of the ledger is the admission store, in tokens. *)

\* A request as the admission store records it, its totals, and its window.
AsRequest(r, h) ==
  [id |-> r, gen |-> 0, in |-> TokenInput(h.est.tokens), at |-> 0,
   actual |-> h.actual.tokens, state |-> h.state, charges |-> [k \in {"org"} |-> 0]]
Requested == [r \in DOMAIN holds |-> AsRequest(r, holds[r])]
Total == StoreCommitted("tokens")
Counted == IF Admitted = {} THEN {} ELSE {TokenRow}
Top == IF Admitted = {} THEN -1 ELSE 0
Fixed == IF holds = NoFunction THEN [ms |-> -1, buckets |-> 0] ELSE TokenScope.window

LEMMA OneScope ==
  ASSUME NEW n
  PROVE  /\ DOMAIN TokenInput(n).scopes = {"org"} /\ TokenInput(n).scopes["org"] = TokenScope
         /\ TokenInput(n).est = n /\ TokenInput(n).model = "model"
         /\ TokenScope.limit = StoreLimits.tokens
         /\ Shared!IsLifetime(TokenScope.window) /\ Shared!BucketIndex(TokenScope.window, 0) = 0
<1>1. TokenScope.window = [ms |-> 0, buckets |-> 1] /\ TokenScope.limit = StoreLimits.tokens
  BY DEF TokenScope
<1>2. Shared!IsLifetime(TokenScope.window) BY <1>1 DEF Shared!IsLifetime
<1>3. Shared!BucketMs(TokenScope.window) = 1 BY <1>2 DEF Shared!BucketMs
<1>4. Shared!BucketIndex(TokenScope.window, 0) = 0 BY <1>3 DEF Shared!BucketIndex
<1>5. /\ DOMAIN TokenInput(n).scopes = {"org"} /\ TokenInput(n).scopes["org"] = TokenScope
      /\ TokenInput(n).est = n /\ TokenInput(n).model = "model"
  BY DEF TokenInput
<1> QED BY <1>1, <1>2, <1>4, <1>5

LEMMA FitsAlike ==
  ASSUME StoreLimits.usd = None, NEW est
  PROVE  Shared!Fits(TokenInput(est.tokens), 0) <=> StoreFits(est)
<1> DEFINE in == TokenInput(est.tokens)
<1>1. Shared!Committed("org", TokenScope.window, 0) = Total
  BY OneScope DEF Shared!Committed, Total
<1>2. /\ DOMAIN in.scopes = {"org"} /\ in.scopes["org"] = TokenScope
      /\ in.est = est.tokens /\ TokenScope.limit = StoreLimits.tokens
  BY OneScope
<1> HIDE DEF in
<1>3. Shared!Fits(in, 0) <=>
        (TokenScope.limit # None => Shared!Committed("org", TokenScope.window, 0) + in.est <= TokenScope.limit)
  BY <1>2 DEF Shared!Fits
<1>4. StoreFits(est) <=> StoreLimits.tokens = None \/ Total + est.tokens <= StoreLimits.tokens
  BY DEF StoreFits, Dims, Total
<1> QED BY <1>1, <1>2, <1>3, <1>4 DEF in

\* The rows and totals move by delta when the record is charged to the scope.
LEMMA StoreAdds ==
  ASSUME NEW rec, rec.charges = [k \in {"org"} |-> 0], rec.in.model = "model", NEW delta,
         Total' = Total + delta, Admitted' # {}, Total \in Int, delta \in Int,
         Admitted = {} => Total = 0
  PROVE  Shared!Add(rec, delta)
<1>1. DOMAIN rec.charges = {"org"} /\ rec.charges["org"] = 0 OBVIOUS
<1>2. Shared!ChargedRows(rec) = {TokenRow} BY <1>1 DEF Shared!ChargedRows, TokenRow
<1>3. Counted' = {TokenRow} /\ Top' = 0 /\ Counted \in {{}, {TokenRow}} /\ Top \in {-1, 0}
      /\ (Counted = {} => Total = 0)
  BY DEF Counted, Top
<1>4. [x \in Counted |-> Total]'
        = [x \in DOMAIN [x \in Counted |-> Total] \cup Shared!ChargedRows(rec) |->
             (IF x \in DOMAIN [y \in Counted |-> Total] THEN [y \in Counted |-> Total][x] ELSE 0)
             + (IF x \in Shared!ChargedRows(rec) THEN delta ELSE 0)]
  <2> DEFINE old == [y \in Counted |-> Total]
             new == [x \in DOMAIN old \cup {TokenRow} |->
                       (IF x \in DOMAIN old THEN old[x] ELSE 0)
                       + (IF x \in {TokenRow} THEN delta ELSE 0)]
  <2>1. DOMAIN old = Counted OBVIOUS
  <2>2. DOMAIN old \cup {TokenRow} = {TokenRow} BY <1>3, <2>1
  <2>3. new[TokenRow] = Total'
    <3>1. new[TokenRow] = (IF TokenRow \in Counted THEN Total ELSE 0) + delta BY <2>2
    <3> QED BY <1>3, <3>1
  <2>4. new = [x \in {TokenRow} |-> Total'] BY <2>2, <2>3
  <2> QED BY <1>2, <1>3, <2>4
<1>5. [k \in {"org"} |-> Total]'
        = [k \in {"org"} |-> [k2 \in {"org"} |-> Total][k]
                             + IF k \in DOMAIN rec.charges THEN delta ELSE 0]
  BY <1>1
<1>6. [k \in {"org"} |-> Top]'
        = [k \in {"org"} |-> IF k \in DOMAIN rec.charges /\ rec.charges[k] > [k2 \in {"org"} |-> Top][k]
                             THEN rec.charges[k] ELSE [k2 \in {"org"} |-> Top][k]]
  BY <1>1, <1>3
<1> QED BY <1>4, <1>5, <1>6, Zenon DEF Shared!Add, Counted, Total, Top

\* The scope's history stays when what is committed does.
LEMMA HistoryStays ==
  ASSUME Total' = Total, Admitted' = {} <=> Admitted = {}
  PROVE  UNCHANGED Shared!history
<1>1. Counted' = Counted /\ Top' = Top BY DEF Counted, Top
<1>2. [x \in Counted |-> Total]' = [x \in Counted |-> Total]
      /\ [k \in {"org"} |-> Total]' = [k \in {"org"} |-> Total]
      /\ [k \in {"org"} |-> Top]' = [k \in {"org"} |-> Top]
  BY <1>1
<1> QED BY <1>2, Zenon DEF Shared!history, Counted, Total, Top

\* A record enters or changes.
LEMMA StorePuts ==
  ASSUME NEW r, NEW h, DOMAIN holds' = DOMAIN holds \cup {r}, holds'[r] = h,
         \A q \in DOMAIN holds : q # r => holds'[q] = holds[q],
         NEW rec, rec = AsRequest(r, h)
  PROVE  Shared!Put(r, rec)
<1>1. Requested' = [q \in DOMAIN Requested \cup {r} |-> IF q = r THEN rec ELSE Requested[q]]
  <2>1. DOMAIN Requested = DOMAIN holds /\ \A q \in DOMAIN holds : Requested[q] = AsRequest(q, holds[q])
    BY DEF Requested
  <2>2. Requested' = [q \in DOMAIN holds' |-> AsRequest(q, holds'[q])]
    BY DEF Requested, AsRequest, TokenInput, TokenScope
  <2> QED BY <2>1, <2>2
<1> QED BY <1>1, Zenon DEF Shared!Put, Requested, AsRequest

LEMMA SomeHold == ASSUME NEW r \in DOMAIN holds PROVE holds # NoFunction /\ Fixed = TokenScope.window
<1>1. DOMAIN NoFunction = {} BY DEF NoFunction
<1>2. holds # NoFunction BY <1>1
<1> QED BY <1>2 DEF Fixed

LEMMA RequestIs ==
  ASSUME NEW r, NEW h
  PROVE  /\ AsRequest(r, h).charges = [x \in {"org"} |-> 0] /\ AsRequest(r, h).in.model = "model"
         /\ AsRequest(r, h).in.est = h.est.tokens /\ AsRequest(r, h).state = h.state
         /\ AsRequest(r, h).actual = h.actual.tokens
<1>1. PICK n, in : n = h.est.tokens /\ in = TokenInput(n) OBVIOUS
<1>2. AsRequest(r, h) = [id |-> r, gen |-> 0, in |-> in, at |-> 0, actual |-> h.actual.tokens,
             state |-> h.state, charges |-> [k \in {"org"} |-> 0]]
  BY <1>1 DEF AsRequest
<1>3. in.model = "model" /\ in.est = n BY <1>1, OneScope
<1> QED BY <1>1, <1>2, <1>3

LEMMA ExceptTwice ==
  ASSUME NEW f, NEW u, NEW n
  PROVE  [[f EXCEPT !.state = u] EXCEPT !.actual = n] = [f EXCEPT !.state = u, !.actual = n]
BY Zenon

\* A record closed.
Closed(rec, u, q) == [rec EXCEPT !.state = u, !.actual = q]
Turned(rec, u) == [rec EXCEPT !.state = u]

LEMMA RequestMoves ==
  ASSUME NEW r, NEW h, NEW rec, rec = AsRequest(r, h), NEW u, NEW q,
         NEW k, k.est = h.est, k.state = u, k.actual.tokens = q
  PROVE  /\ Closed(rec, u, q) = AsRequest(r, k)
         /\ k.actual = h.actual => Turned(rec, u) = AsRequest(r, k)
<1>1. PICK in, m, t : in = TokenInput(h.est.tokens) /\ m = h.actual.tokens /\ t = h.state OBVIOUS
<1>2. PICK mid : mid = [rec EXCEPT !.state = u] OBVIOUS
<1>3. rec = [id |-> r, gen |-> 0, in |-> in, at |-> 0, actual |-> m,
             state |-> t, charges |-> [x \in {"org"} |-> 0]]
  BY <1>1 DEF AsRequest
<1>4. mid = [id |-> r, gen |-> 0, in |-> in, at |-> 0, actual |-> m,
             state |-> u, charges |-> [x \in {"org"} |-> 0]]
  BY <1>2, <1>3
<1>5. AsRequest(r, k) = [id |-> r, gen |-> 0, in |-> in, at |-> 0, actual |-> k.actual.tokens,
                         state |-> u, charges |-> [x \in {"org"} |-> 0]]
  BY <1>1 DEF AsRequest
<1>6. ASSUME k.actual = h.actual PROVE mid = AsRequest(r, k) BY <1>1, <1>4, <1>5, <1>6
<1>7. [mid EXCEPT !.actual = q] = AsRequest(r, k) BY <1>4, <1>5
<1>8. [mid EXCEPT !.actual = q] = [rec EXCEPT !.state = u, !.actual = q]
  BY <1>2, ExceptTwice, Zenon
<1>9. Closed(rec, u, q) = AsRequest(r, k) BY <1>7, <1>8, Zenon DEF Closed
<1> QED BY <1>2, <1>6, <1>9 DEF Turned

LEMMA SettleRefines ==
  ASSUME HoldsFit, HoldsFit', HoldsKnown, IsFiniteSet(DOMAIN holds), NEW r \in DOMAIN holds,
         NEW q \in Charges, holds[r].state = "reserved", StoreSettling(r, q)
  PROVE  Shared!Settle(r, q.tokens)
<1>1. holds' = [holds EXCEPT ![r].state = "settled", ![r].actual = q] BY DEF StoreSettling
<1>2. holds[r] \in Holds BY DEF HoldsFit
<1>3. PICK h, k : h = holds[r] /\ k = [h EXCEPT !.state = "settled", !.actual = q] OBVIOUS
<1>4. /\ h \in Holds /\ h.state = "reserved" /\ k.est = h.est /\ k.actual = q /\ k.state = "settled"
  BY <1>2, <1>3 DEF Holds
<1>5. /\ DOMAIN holds' = DOMAIN holds /\ holds'[r] = k
      /\ \A x \in DOMAIN holds : x # r => holds'[x] = holds[x]
  BY <1>1, <1>3
<1>6. h.est.tokens \in Int /\ q.tokens \in Int BY <1>4 DEF Holds, Charges
<1>7. Total' = Total + (q.tokens - h.est.tokens)
  <2>1. StoreCharge(holds[r], "tokens") = h.est.tokens BY <1>3, <1>4 DEF StoreCharge
  <2>2. StoreCharge(holds[r], "tokens")' = q.tokens BY <1>4, <1>5 DEF StoreCharge
  <2>3. StoreCommitted("tokens")' = StoreCommitted("tokens") + (q.tokens - h.est.tokens)
    BY <1>5, <1>6, <2>1, <2>2, ChargeMoves
  <2> QED BY <2>3 DEF Total
<1>8. Admitted # {} /\ Admitted' # {}
  BY <1>3, <1>4, <1>5 DEF Admitted
<1>9. Total \in Int
  <2>1. \A x \in DOMAIN holds : TokenCharges[x] \in Int BY TokenChargeIs
  <2>2. SumFunctionOnSet(TokenCharges, DOMAIN holds) \in Int BY <2>1, SumInt
  <2> QED BY <2>2, TokensCommitted DEF Total
<1>10. PICK rec : rec = AsRequest(r, h) OBVIOUS
<1>11. /\ rec.charges = [x \in {"org"} |-> 0] /\ rec.in.model = "model" /\ rec.in.est = h.est.tokens
       /\ rec.state = "reserved"
  BY <1>4, <1>10, RequestIs
<1>12. Closed(rec, "settled", q.tokens) = AsRequest(r, k)
  <2>1. k.actual.tokens = q.tokens /\ k.state = "settled" /\ k.est = h.est BY <1>4
  <2> QED BY <1>10, <2>1, RequestMoves
<1>13. Requested[r] = rec /\ r \in DOMAIN Requested BY <1>3, <1>10 DEF Requested
<1>14. Shared!Add(rec, q.tokens - h.est.tokens)
  BY <1>6, <1>7, <1>8, <1>9, <1>11, StoreAdds
<1>15. Shared!SettlePlan(rec, q.tokens) = "apply" BY <1>11 DEF Shared!SettlePlan
<1>16. Shared!Settling(r, q.tokens)
  <2>1. Shared!Recorded(r) BY DEF Shared!Recorded
  <2>2. Shared!Add(Requested[r], q.tokens - Requested[r].in.est) BY <1>11, <1>13, <1>14
  <2>3. Shared!Put(r, [Requested[r] EXCEPT !.state = "settled", !.actual = q.tokens])
    <3>1. Closed(Requested[r], "settled", q.tokens) = AsRequest(r, k) BY <1>13, <1>12
    <3>2. DOMAIN holds' = DOMAIN holds \cup {r} BY <1>5
    <3>3. PICK new : new = Closed(Requested[r], "settled", q.tokens) OBVIOUS
    <3>4. new = AsRequest(r, k) BY <3>1, <3>3
    <3>5. Shared!Put(r, new) BY <1>5, <3>2, <3>4, StorePuts
    <3>6. new = [Requested[r] EXCEPT !.state = "settled", !.actual = q.tokens] BY <3>3, Zenon DEF Closed
    <3> QED BY <3>5, <3>6, Zenon DEF Shared!Put
  <2>4. Shared!SettlePlan(Requested[r], q.tokens) = "apply" BY <1>13, <1>15
  <2> QED BY <2>1, <2>2, <2>3, <2>4, Zenon DEF Shared!Settling, Requested, AsRequest
<1>17. Fixed = TokenScope.window /\ Fixed' = TokenScope.window'
  <2>1. Fixed = TokenScope.window BY SomeHold
  <2>2. holds' # NoFunction BY <1>5 DEF NoFunction
  <2> QED BY <2>1, <2>2 DEF Fixed, NoFunction
<1>18. [x \in {"org"} |-> Fixed]' = [x \in {"org"} |-> Fixed] /\ Cardinality(DOMAIN holds)' = Cardinality(DOMAIN holds)
  BY <1>5, <1>17 DEF TokenScope
<1> QED BY <1>16, <1>18 DEF Shared!Settle, Shared!ghosts, Fixed

LEMMA TotalIsInt == ASSUME HoldsFit, IsFiniteSet(DOMAIN holds) PROVE Total \in Int
<1>1. \A x \in DOMAIN holds : TokenCharges[x] \in Int BY TokenChargeIs
<1>2. SumFunctionOnSet(TokenCharges, DOMAIN holds) \in Int BY <1>1, SumInt
<1> QED BY <1>2, TokensCommitted DEF Total

LEMMA ReleaseRefines ==
  ASSUME HoldsFit, HoldsFit', HoldsKnown, IsFiniteSet(DOMAIN holds), NEW r \in DOMAIN holds,
         \/ holds[r].state = "reserved"
         \/ holds[r].state = "settled" /\ \A d \in Dims : holds[r].actual[d] = 0,
         StoreReleasing(r)
  PROVE  Shared!Release(r)
<1>1. holds' = [holds EXCEPT ![r].state = "released"] BY DEF StoreReleasing
<1>2. holds[r] \in Holds BY DEF HoldsFit
<1>3. PICK h, k : h = holds[r] /\ k = [h EXCEPT !.state = "released"] OBVIOUS
<1>4. h \in Holds /\ k.est = h.est /\ k.actual = h.actual /\ k.state = "released"
  BY <1>2, <1>3 DEF Holds
<1>5. /\ DOMAIN holds' = DOMAIN holds /\ holds'[r] = k
      /\ \A x \in DOMAIN holds : x # r => holds'[x] = holds[x]
  BY <1>1, <1>3
<1>6. h.est.tokens \in Int BY <1>4 DEF Holds, Charges
<1>7. \/ h.state = "reserved"
      \/ h.state = "settled" /\ h.actual.tokens = 0
  BY <1>3 DEF Dims
<1>8. Admitted # {} /\ Admitted' # {} BY <1>4, <1>5, <1>3, <1>7 DEF Admitted
<1>9. Total \in Int BY TotalIsInt
<1>10. PICK rec : rec = AsRequest(r, h) OBVIOUS
<1>11. /\ rec.charges = [x \in {"org"} |-> 0] /\ rec.in.model = "model" /\ rec.in.est = h.est.tokens
       /\ rec.state = h.state /\ rec.actual = h.actual.tokens
  BY <1>10, RequestIs
<1>12. Requested[r] = rec /\ r \in DOMAIN Requested BY <1>3, <1>10 DEF Requested
<1>13. StoreCharge(holds[r], "tokens")' = 0 BY <1>4, <1>5 DEF StoreCharge
<1>14. IF rec.state = "reserved" THEN Shared!Add(rec, 0 - rec.in.est) ELSE UNCHANGED Shared!history
  <2>1. CASE h.state = "reserved"
    <3>1. StoreCharge(holds[r], "tokens") = h.est.tokens BY <1>3, <2>1 DEF StoreCharge
    <3>2. StoreCommitted("tokens")' = StoreCommitted("tokens") + (0 - h.est.tokens)
      BY <1>5, <1>6, <1>13, <3>1, ChargeMoves
    <3>3. Total' = Total + (0 - h.est.tokens) BY <3>2 DEF Total
    <3>4. 0 - h.est.tokens \in Int BY <1>6
    <3>5. Shared!Add(rec, 0 - h.est.tokens) BY <1>8, <1>9, <1>11, <3>3, <3>4, StoreAdds
    <3> QED BY <1>11, <2>1, <3>5
  <2>2. CASE h.state # "reserved"
    <3>1. StoreCharge(holds[r], "tokens") = 0 BY <1>3, <1>7, <2>2 DEF StoreCharge
    <3>2. StoreCommitted("tokens")' = StoreCommitted("tokens") + 0
      BY <1>5, <1>13, <3>1, ChargeMoves
    <3>3. Total' = Total BY <1>9, <3>2 DEF Total
    <3>4. UNCHANGED Shared!history BY <1>8, <3>3, HistoryStays
    <3> QED BY <1>11, <2>2, <3>4
  <2> QED BY <2>1, <2>2
<1>15. Shared!ReleasePlan(rec) = "apply" BY <1>7, <1>11 DEF Shared!ReleasePlan
<1>16. Shared!Releasing(r)
  <2>1. Shared!Recorded(r) BY DEF Shared!Recorded
  <2>2. IF Requested[r].state = "reserved" THEN Shared!Add(Requested[r], 0 - Requested[r].in.est)
        ELSE UNCHANGED Shared!history
    BY <1>12, <1>14
  <2>3. Shared!Put(r, [Requested[r] EXCEPT !.state = "released"])
    <3>1. Turned(rec, "released") = AsRequest(r, k) BY <1>4, <1>10, RequestMoves
    <3>2. DOMAIN holds' = DOMAIN holds \cup {r} BY <1>5
    <3>3. PICK new : new = Turned(Requested[r], "released") OBVIOUS
    <3>4. new = AsRequest(r, k) BY <1>12, <3>1, <3>3
    <3>5. Shared!Put(r, new) BY <1>5, <3>2, <3>4, StorePuts
    <3>6. new = [Requested[r] EXCEPT !.state = "released"] BY <3>3, Zenon DEF Turned
    <3> QED BY <3>5, <3>6, Zenon DEF Shared!Put
  <2>4. Shared!ReleasePlan(Requested[r]) = "apply" BY <1>12, <1>15
  <2> QED BY <2>1, <2>2, <2>3, <2>4, Zenon DEF Shared!Releasing, Requested, AsRequest
<1>17. Fixed = TokenScope.window /\ Fixed' = TokenScope.window'
  <2>1. Fixed = TokenScope.window BY SomeHold
  <2>2. holds' # NoFunction BY <1>5 DEF NoFunction
  <2> QED BY <2>1, <2>2 DEF Fixed, NoFunction
<1>18. /\ [x \in {"org"} |-> Fixed]' = [x \in {"org"} |-> Fixed]
       /\ Cardinality(DOMAIN holds)' = Cardinality(DOMAIN holds)
  BY <1>5, <1>17 DEF TokenScope
<1> QED BY <1>16, <1>18 DEF Shared!Release, Shared!ghosts, Fixed

\* The record a reservation makes.
RecordMade(r, in, fits) ==
  [id |-> r, gen |-> Shared!Generation(r), in |-> in, at |-> 0, actual |-> 0,
   state |-> IF fits THEN "reserved" ELSE "denied",
   charges |-> [k \in DOMAIN in.scopes |-> Shared!BucketIndex(in.scopes[k].window, 0)]]

\* The record the admission store makes of a new request.
LEMMA NewRequest ==
  ASSUME NEW r, NEW n, NEW h, h.est.tokens = n, h.actual.tokens = 0
  PROVE  AsRequest(r, h) =
           [id |-> r, gen |-> Shared!Generation(r), in |-> TokenInput(n), at |-> 0, actual |-> 0,
            state |-> h.state,
            charges |-> [k \in DOMAIN TokenInput(n).scopes |->
                           Shared!BucketIndex(TokenInput(n).scopes[k].window, 0)]]
<1>1. Shared!Generation(r) = 0
  <2>1. PICK none : none = {a \in {} : a.id = r} OBVIOUS
  <2>2. Shared!Cardinality(none) = 0 BY <2>1 DEF Shared!Cardinality
  <2>3. Shared!Generation(r) = Shared!Cardinality({a \in {} : a.id = r}) BY DEF Shared!Generation
  <2> QED BY <2>1, <2>2, <2>3
<1>2. [k \in DOMAIN TokenInput(n).scopes |-> Shared!BucketIndex(TokenInput(n).scopes[k].window, 0)]
        = [k \in {"org"} |-> 0]
  BY OneScope
<1>3. AsRequest(r, h) = [id |-> r, gen |-> 0, in |-> TokenInput(n), at |-> 0, actual |-> 0,
                         state |-> h.state, charges |-> [k \in {"org"} |-> 0]]
  BY DEF AsRequest
<1> QED BY <1>1, <1>2, <1>3, Zenon

LEMMA RoomForOne ==
  ASSUME IsFiniteSet(Ids), HoldsKnown, NEW r \in Ids, r \notin DOMAIN holds,
         DOMAIN holds' = DOMAIN holds \cup {r}
  PROVE  /\ Cardinality(DOMAIN holds) < Cardinality(Ids)
         /\ Cardinality(DOMAIN holds)' = Cardinality(DOMAIN holds) + 1
<1>1. DOMAIN holds \subseteq Ids /\ DOMAIN holds \cup {r} \subseteq Ids BY DEF HoldsKnown
<1>2. IsFiniteSet(DOMAIN holds) BY <1>1, FS_Subset
<1>3. Cardinality(DOMAIN holds \cup {r}) = Cardinality(DOMAIN holds) + 1 BY <1>2, FS_AddElement
<1>4. Cardinality(DOMAIN holds \cup {r}) <= Cardinality(Ids) BY <1>1, FS_Subset
<1>5. Cardinality(DOMAIN holds) \in Nat /\ Cardinality(Ids) \in Nat BY <1>2, FS_CardinalityType
<1> QED BY <1>3, <1>4, <1>5

LEMMA ReserveRefines ==
  ASSUME LedgerAssumption, HoldsFit, HoldsFit', HoldsKnown, IsFiniteSet(Ids),
         StoreLimits.usd = None, NEW o \in Offers \cup Adopted, o.id \notin DOMAIN holds,
         StoreReserving(o)
  PROVE  Shared!Reserve(o.id, TokenInput(StoreEst(o).tokens))
<1>1. PICK r, est, h : /\ r = o.id /\ est = StoreEst(o)
                       /\ h = [est |-> est, actual |-> [tokens |-> 0, usd |-> 0],
                               state |-> IF StoreFits(est) THEN "reserved" ELSE "denied"]
  OBVIOUS
<1>2. holds' = With(holds, r, h) /\ r \notin DOMAIN holds /\ r \in Ids
  BY <1>1 DEF StoreReserving, Ids
<1>3. /\ DOMAIN holds' = DOMAIN holds \cup {r} /\ holds'[r] = h
      /\ \A x \in DOMAIN holds : holds'[x] = holds[x]
  BY <1>2 DEF With
<1>4. est.tokens \in Nat BY <1>1, EstimateIs
<1>5. h.est = est /\ h.actual.tokens = 0 /\ h.est.tokens = est.tokens BY <1>1
<1>6. IsFiniteSet(DOMAIN holds)
  <2>1. DOMAIN holds \subseteq Ids BY DEF HoldsKnown
  <2> QED BY <2>1, FS_Subset
<1>7. PICK in, rec : in = TokenInput(est.tokens) /\ rec = AsRequest(r, h) OBVIOUS
<1>8. Shared!Fits(in, 0) <=> StoreFits(est) BY <1>7, FitsAlike
<1>9. rec = [id |-> r, gen |-> Shared!Generation(r), in |-> in, at |-> 0, actual |-> 0,
             state |-> IF Shared!Fits(in, 0) THEN "reserved" ELSE "denied",
             charges |-> [k \in DOMAIN in.scopes |-> Shared!BucketIndex(in.scopes[k].window, 0)]]
  <2>1. h.state = IF Shared!Fits(in, 0) THEN "reserved" ELSE "denied" BY <1>1, <1>8
  <2>2. rec = [id |-> r, gen |-> Shared!Generation(r), in |-> in, at |-> 0, actual |-> 0,
               state |-> h.state,
               charges |-> [k \in DOMAIN in.scopes |-> Shared!BucketIndex(in.scopes[k].window, 0)]]
    BY <1>5, <1>7, NewRequest
  <2> QED BY <2>1, <2>2, Zenon
<1>10. Shared!Put(r, rec) BY <1>3, <1>7, StorePuts
<1>11. rec.charges = [x \in {"org"} |-> 0] /\ rec.in.model = "model" /\ in.est = est.tokens
  BY <1>5, <1>7, RequestIs, OneScope
<1>12. Total \in Int BY <1>6, TotalIsInt
<1>13. StoreCharge(holds[r], "tokens")' = IF StoreFits(est) THEN est.tokens ELSE 0
  BY <1>1, <1>3 DEF StoreCharge
<1>14. Total' = Total + IF StoreFits(est) THEN est.tokens ELSE 0
  <2>1. StoreCharge(holds[r], "tokens")' \in Int BY <1>4, <1>13
  <2>2. StoreCommitted("tokens")' = StoreCommitted("tokens") + StoreCharge(holds[r], "tokens")'
    BY <1>2, <1>3, <1>6, <2>1, ChargeComes
  <2> QED BY <1>13, <2>2 DEF Total
<1>15. IF Shared!Fits(in, 0) THEN Shared!Add(rec, in.est) ELSE UNCHANGED Shared!history
  <2>1. CASE StoreFits(est)
    <3>1. r \in Admitted' BY <1>1, <1>3, <2>1 DEF Admitted
    <3>2. Admitted = {} => Total = 0 BY <1>6, NothingCommitted DEF Total
    <3>3. Total' = Total + est.tokens BY <1>14, <2>1
    <3>4. PICK delta : delta = est.tokens OBVIOUS
    <3>5. Total' = Total + delta /\ delta \in Int BY <1>4, <3>3, <3>4
    <3>6. Admitted' # {} BY <3>1
    <3>7. Shared!Add(rec, delta) BY <1>11, <1>12, <3>2, <3>5, <3>6, StoreAdds
    <3> QED BY <1>8, <1>11, <2>1, <3>4, <3>7
  <2>2. CASE ~StoreFits(est)
    <3>1. Total' = Total BY <1>12, <1>14, <2>2
    <3>2. h.state = "denied" BY <1>1, <2>2
    <3>3. Admitted' = Admitted BY <1>2, <1>3, <3>2 DEF Admitted
    <3>4. UNCHANGED Shared!history BY <3>1, <3>3, HistoryStays
    <3> QED BY <1>8, <2>2, <3>4
  <2> QED BY <2>1, <2>2
<1>16. DOMAIN in.scopes = {"org"} /\ in.scopes["org"].window = TokenScope.window BY <1>7, OneScope
<1>17. Fixed \in {Shared!NoWindow, TokenScope.window} BY DEF Fixed, Shared!NoWindow
<1>18. Fixed' = TokenScope.window
  <2>1. holds' # NoFunction BY <1>3 DEF NoFunction
  <2> QED BY <2>1 DEF Fixed, NoFunction, TokenScope
<1>19. \A k \in DOMAIN in.scopes :
         [x \in {"org"} |-> Fixed][k] \in {Shared!NoWindow, in.scopes[k].window}
  BY <1>16, <1>17
<1>20. [x \in {"org"} |-> Fixed]' = [k \in {"org"} |-> IF k \in DOMAIN in.scopes THEN in.scopes[k].window
                                                    ELSE [x \in {"org"} |-> Fixed][k]]
  BY <1>16, <1>18
<1>21. /\ Cardinality(DOMAIN holds) < Cardinality(Ids)
       /\ Cardinality(DOMAIN holds)' = Cardinality(DOMAIN holds) + 1
  BY <1>2, <1>3, RoomForOne
<1>22. ~Shared!Recorded(r) BY <1>2 DEF Shared!Recorded
<1>23. Shared!Reserve(r, in)
  <2>1. \A k \in DOMAIN in.scopes :
          [x \in {"org"} |-> IF holds = NoFunction THEN [ms |-> -1, buckets |-> 0]
                             ELSE TokenScope.window][k] \in {Shared!NoWindow, in.scopes[k].window}
    BY <1>19, Zenon DEF Fixed
  <2>2. [x \in {"org"} |-> IF holds = NoFunction THEN [ms |-> -1, buckets |-> 0] ELSE TokenScope.window]'
          = [k \in {"org"} |-> IF k \in DOMAIN in.scopes THEN in.scopes[k].window
               ELSE [x \in {"org"} |-> IF holds = NoFunction THEN [ms |-> -1, buckets |-> 0]
                                       ELSE TokenScope.window][k]]
    BY <1>20, Zenon DEF Fixed
  <2>3. LET fits == Shared!Fits(in, 0)
            new == [id |-> r, gen |-> Shared!Generation(r), in |-> in, at |-> 0, actual |-> 0,
                    state |-> IF fits THEN "reserved" ELSE "denied",
                    charges |-> [k \in DOMAIN in.scopes |->
                                   Shared!BucketIndex(in.scopes[k].window, 0)]]
        IN Shared!Put(r, new) /\ IF fits THEN Shared!Add(new, in.est) ELSE UNCHANGED Shared!history
    <3>1. rec = RecordMade(r, in, Shared!Fits(in, 0)) BY <1>9, Zenon DEF RecordMade
    <3>2. Shared!Put(r, RecordMade(r, in, Shared!Fits(in, 0))) BY <1>10, <3>1, Zenon DEF Shared!Put
    <3>3. IF Shared!Fits(in, 0) THEN Shared!Add(RecordMade(r, in, Shared!Fits(in, 0)), in.est)
          ELSE UNCHANGED Shared!history
      BY <1>15, <3>1
    <3> QED BY <3>2, <3>3, Zenon DEF RecordMade
  <2>4. Cardinality(DOMAIN holds) < Cardinality(Ids) BY <1>21
  <2>5. Cardinality(DOMAIN holds)' = Cardinality(DOMAIN holds) + 1 BY <1>21
  <2>6. FALSE \/ \A a \in {} : a.id # r OBVIOUS
  <2>7. UNCHANGED <<0, [on |-> FALSE], {}, 0>> OBVIOUS
  <2> QED BY <1>22, <2>1, <2>2, <2>3, <2>4, <2>5, <2>6, <2>7, Zenon DEF Shared!Reserve
<1> QED BY <1>1, <1>7, <1>23

\* Every operation of the ledger's store is one of the admission store's, or nothing.
LEMMA OperationRefines ==
  ASSUME LedgerAssumption, HoldsFit, HoldsFit', HoldsKnown, IsFiniteSet(Ids),
         StoreLimits.usd = None, StoreMoves
  PROVE  Shared!StoreNext \/ UNCHANGED holds
<1>1. IsFiniteSet(DOMAIN holds)
  <2>1. DOMAIN holds \subseteq Ids BY DEF HoldsKnown
  <2> QED BY <2>1, FS_Subset
<1>2. ASSUME NEW in \in Offers \cup Adopted, StoreReserving(in)
      PROVE  Shared!StoreNext \/ UNCHANGED holds
  <2>1. CASE in.id \in DOMAIN holds BY <1>2, <2>1 DEF StoreReserving
  <2>2. CASE in.id \notin DOMAIN holds
    <3>1. Shared!Reserve(in.id, TokenInput(StoreEst(in).tokens)) BY <1>2, <2>2, ReserveRefines
    <3>2. in.id \in Ids BY DEF Ids
    <3> QED BY <3>1, <3>2, Zenon DEF Shared!StoreNext
  <2> QED BY <2>1, <2>2
<1>3. ASSUME NEW r \in Ids, NEW q \in Charges, q.tokens \in TokenActuals, StoreSettling(r, q)
      PROVE  Shared!StoreNext \/ UNCHANGED holds
  <2>1. CASE r \in DOMAIN holds /\ holds[r].state = "reserved"
    <3>1. Shared!Settle(r, q.tokens) BY <1>1, <1>3, <2>1, SettleRefines
    <3> QED BY <1>3, <3>1, Zenon DEF Shared!StoreNext, TokenActuals
  <2>2. CASE ~(r \in DOMAIN holds /\ holds[r].state = "reserved")
    BY <1>3, <2>2 DEF StoreSettling
  <2> QED BY <2>1, <2>2
<1>4. ASSUME NEW r \in Ids, StoreReleasing(r)
      PROVE  Shared!StoreNext \/ UNCHANGED holds
  <2>1. CASE /\ r \in DOMAIN holds
             /\ \/ holds[r].state = "reserved"
                \/ holds[r].state = "settled" /\ \A d \in Dims : holds[r].actual[d] = 0
    <3>1. Shared!Release(r) BY <1>1, <1>4, <2>1, ReleaseRefines
    <3> QED BY <1>4, <3>1, Zenon DEF Shared!StoreNext
  <2>2. CASE ~(/\ r \in DOMAIN holds
               /\ \/ holds[r].state = "reserved"
                  \/ holds[r].state = "settled" /\ \A d \in Dims : holds[r].actual[d] = 0)
    BY <1>4, <2>2 DEF StoreReleasing
  <2> QED BY <2>1, <2>2
<1> QED BY <1>2, <1>3, <1>4 DEF StoreMoves

LEMMA StoreStays == ASSUME UNCHANGED holds PROVE UNCHANGED Shared!vars
BY DEF Shared!vars, StoreCommitted, StoreCharge, Admitted, TokenInput, TokenScope, TokenRow

LEMMA StoreStarts == ASSUME LedgerInit PROVE Shared!StoreInit
<1>1. holds = NoFunction /\ DOMAIN holds = {} BY DEF LedgerInit, NoFunction
<1>2. Total = 0 /\ Admitted = {}
  <2>1. SumFunctionOnSet([r \in DOMAIN holds |-> StoreCharge(holds[r], "tokens")], {}) = 0
    BY SumNone
  <2> QED BY <1>1, <2>1 DEF Total, StoreCommitted, Admitted
<1>3. Cardinality(DOMAIN holds) = 0 BY <1>1, FS_EmptySet
<1>4. Requested = [r \in {} |-> 0] BY <1>1 DEF Requested
<1>5. /\ [x \in Counted |-> Total] = [x \in {} |-> 0] /\ [k \in {"org"} |-> Total] = [k \in {"org"} |-> 0]
      /\ [k \in {"org"} |-> Top] = [k \in {"org"} |-> -1]
      /\ [k \in {"org"} |-> Fixed] = [k \in {"org"} |-> Shared!NoWindow]
  BY <1>1, <1>2 DEF Counted, Top, Fixed, Shared!NoWindow
<1> QED
  BY <1>3, <1>4, <1>5, Zenon
  DEF Shared!StoreInit, Shared!NoSweep, Requested, AsRequest, Counted, Top, Fixed, Total

\* In tokens, the store behind the ledger is the admission store: whatever the
\* ledger does, through batches that are undone, lost answers, sweeps and
\* restarts, is one reservation, settlement or release of it, or leaves it
\* alone (budget-ledger.ts and budget-store.ts).  A limit in USD would deny
\* what the tokens alone admit.
THEOREM TokensUseTheStore ==
  ASSUME StoreLimits.usd = None, IsFiniteSet(Ids)
  PROVE  LedgerSpec => UsesTheStore
<1>1. LedgerInit => Shared!StoreInit BY StoreStarts
<1>2. LedgerInv /\ LedgerInv' /\ StoreKnown /\ [LedgerNext]_ledgerVars => [Shared!StoreNext]_Shared!vars
  <2> SUFFICES ASSUME LedgerInv, LedgerInv', StoreKnown, [LedgerNext]_ledgerVars
               PROVE  Shared!StoreNext \/ UNCHANGED Shared!vars
    OBVIOUS
  <2>1. StoreMoves BY LedgerAssumption, EveryStepMoves
  <2>2. HoldsFit /\ HoldsFit' /\ HoldsKnown BY DEF LedgerInv, StoreKnown
  <2>3. Shared!StoreNext \/ UNCHANGED holds BY LedgerAssumption, <2>1, <2>2, OperationRefines
  <2> QED BY <2>3, StoreStays
<1> QED BY <1>1, <1>2, LedgerStands, StoreIsKnown, PTL DEF LedgerSpec, UsesTheStore, Shared!StoreSpec
=============================================================================
