-------------------------- MODULE MCGoalSupervisor --------------------------
EXTENDS GoalSupervisor, TLC

Supervisor == Permutations(Supervisors)
=============================================================================
