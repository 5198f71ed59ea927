---------------------------- MODULE GoalContract ----------------------------
(***************************************************************************)
(* What a host may rely on for a goal its supervisors drive                *)
(* (docs/content/docs/modules/goals.mdx and goal-runtime.mdx), whatever    *)
(* their number and their faults: how its status, its cancel, its runs,    *)
(* its events and its bill may change, and what changes together.          *)
(***************************************************************************)
EXTENDS Integers

CONSTANTS
  Runs,    \* 1 .. how many runs a goal may begin
  Entries  \* the events that may be delivered to it

VARIABLES
  status,   \* "active", "waiting", or how it ended
  cancel,   \* "none", "asked", "applied"
  begun,    \* the runs begun
  entries,  \* entry -> "none", "pending", or what was made of it
  spent,    \* run -> what it spent
  charged,  \* run -> what the goal was charged for it
  bill      \* what the goal was charged in all

contractVars == <<status, cancel, begun, entries, spent, charged, bill>>

EndStatuses == {"completed", "failed", "cancelled"}
HasEnded == status \in EndStatuses

ContractInit ==
  /\ status = "active" /\ cancel = "none" /\ begun \in {0, 1} /\ bill = 0
  /\ entries = [e \in Entries |-> "none"]
  /\ spent = [r \in Runs |-> 0] /\ charged = [r \in Runs |-> 0]

\* A goal that has not ended moves on; one that has stays as it ended.
Turn ==
  /\ ~HasEnded /\ status' \in {"active", "waiting"} \cup EndStatuses
  /\ status' = "cancelled" => cancel' = "applied"
  /\ UNCHANGED <<begun, entries, spent, charged, bill>>
  /\ \/ UNCHANGED cancel
     \/ cancel = "asked" /\ cancel' = "applied" /\ status' \in EndStatuses

\* A cancel is asked for once and applied once, to a goal that has ended.
Ask ==
  /\ cancel = "none" /\ cancel' = "asked"
  /\ UNCHANGED <<status, begun, entries, spent, charged, bill>>
ApplyToEnded ==
  /\ cancel = "asked" /\ HasEnded /\ cancel' = "applied"
  /\ UNCHANGED <<status, begun, entries, spent, charged, bill>>
\* A run that was cancelled by itself ends its goal the same way.
EndByRun ==
  /\ cancel = "none" /\ ~HasEnded /\ status' \in EndStatuses /\ cancel' = "applied"
  /\ UNCHANGED <<begun, entries, spent, charged, bill>>

MayBegin == cancel = "none" /\ begun + 1 \in Runs /\ begun' = begun + 1

Begin == MayBegin /\ UNCHANGED <<status, cancel, entries, spent, charged, bill>>

Deliver(e) ==
  /\ entries[e] = "none" /\ entries' = [entries EXCEPT ![e] = "pending"]
  /\ UNCHANGED <<status, cancel, begun, spent, charged, bill>>

\* An event is made something of once, with the run it starts, if any: only
\* one the goal waited for is applied, and the goal is active from then on;
\* only a goal that ended makes nothing of it.
Settle(e) ==
  /\ entries[e] = "pending"
  /\ \E as \in {"applied", "unmatched", "stale", "terminal"} :
       /\ entries' = [entries EXCEPT ![e] = as]
       /\ IF as = "applied" THEN status = "waiting" /\ status' = "active" ELSE UNCHANGED status
       /\ as = "terminal" => HasEnded
       /\ UNCHANGED begun \/ (MayBegin /\ as # "terminal")
  /\ UNCHANGED <<cancel, spent, charged, bill>>

SpendMore(r) ==
  /\ r <= begun /\ spent' = [spent EXCEPT ![r] = @ + 1]
  /\ UNCHANGED <<status, cancel, begun, entries, charged, bill>>

\* What a run spent is charged to its goal once at most, however often it is
\* looked up.  A goal found past its deadline fails as it is charged.
Charge(r) ==
  /\ charged[r] < spent[r]
  /\ \E more \in 1..(spent[r] - charged[r]) :
       charged' = [charged EXCEPT ![r] = @ + more] /\ bill' = bill + more
  /\ UNCHANGED status \/ (~HasEnded /\ status' = "failed")
  /\ UNCHANGED <<cancel, begun, entries, spent>>

ContractNext ==
  \/ Turn \/ Ask \/ ApplyToEnded \/ EndByRun \/ Begin
  \/ \E e \in Entries : Deliver(e) \/ Settle(e)
  \/ \E r \in Runs : SpendMore(r) \/ Charge(r)

ContractSpec == ContractInit /\ [][ContractNext]_contractVars
=============================================================================
