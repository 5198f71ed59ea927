-------------------------- MODULE MCGoalScheduler --------------------------
EXTENDS GoalScheduler, TLC

Often(catchUp) == [every |-> 1, catchUp |-> catchUp]
Varied == <<{Often("latest"), [every |-> 2, catchUp |-> "all"]}, {Often("none")}>>

Scheduler == Permutations(Schedulers)
=============================================================================
