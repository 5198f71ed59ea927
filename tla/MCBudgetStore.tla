---------------------------- MODULE MCBudgetStore ----------------------------
(* Instances of BudgetStore for TLC. *)
EXTENDS BudgetStore, TLC

Lifetime == [ms |-> 0, buckets |-> 1]
Window(ms, buckets) == [ms |-> ms, buckets |-> buckets]
Scope(limit, window) == [limit |-> limit, window |-> window]
Input(model, est, scopes) == [model |-> model, est |-> est, scopes |-> scopes]

\* An organisation with a lifetime budget and a user with a rolling window of
\* two buckets; a call on the organisation alone, and one on both.
TwoScopes ==
  {Input("m1", 1, "org" :> Scope(3, Lifetime) @@ "user" :> Scope(2, Window(2, 2))),
   Input("m1", 2, "org" :> Scope(3, Lifetime))}
=============================================================================
