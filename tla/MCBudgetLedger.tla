--------------------------- MODULE MCBudgetLedger ---------------------------
(* The instance of BudgetLedger for TLC. *)
EXTENDS BudgetLedger, TLC

Amounts(tokens, usd) == [tokens |-> tokens, usd |-> usd]
Cap(tokens, usd) == [tokens |-> tokens, usd |-> usd, reject |-> FALSE]
StrictCap(tokens, usd) == [tokens |-> tokens, usd |-> usd, reject |-> TRUE]
Offer(id, est, chain) ==
  [id |-> id, est |-> est, chain |-> chain, unpriced |-> FALSE, unaccounted |-> FALSE]
Unpriced(o) == [o EXCEPT !.unpriced = TRUE]
Unaccounted(o) == [o EXCEPT !.unaccounted = TRUE]

Parent(b) == [id |-> "parent", budget |-> b]
Child(b) == [id |-> "child", budget |-> b]

\* An attempt in a child scope and one without a price in the scope around it,
\* alone or as one step; the first may be adopted in a scope gone strict.
InChild(parent) == Offer(1, Amounts(1, 1), <<Parent(parent), Child(Cap(2, None))>>)
Strange == Unaccounted(Unpriced(Offer(2, Amounts(1, None), <<Parent(Cap(2, 2))>>)))
OneAdopted == {InChild(StrictCap(3, None))}
TwoOffers == {InChild(Cap(3, None)), Strange}
OnePair == {<<InChild(Cap(3, None)), Strange>>}

Answers == {1, Outage}
Settlement == {Amounts(2, None)}
LedgerBudget == Cap(3, None)
TightStore == Cap(1, None)
=============================================================================
