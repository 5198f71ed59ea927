--------------------------- MODULE MCSwarmExecutor ---------------------------
EXTENDS SwarmExecutor, TLC

Executor == Permutations(Executors)

\* Two roots that each spawn a task when they complete: the first's needs the
\* second, the second's comes after the first.
NeedsSecond == [t \in Tasks |-> IF t = 3 THEN {2} ELSE {}]
AfterFirst == [t \in Tasks |-> IF t = 4 THEN {1} ELSE {}]
OneEach ==
  [t \in Tasks |-> IF t \in {1, 2} THEN [completed |-> {t + 2}] ELSE [completed |-> {}]]

\* Tasks that depend on nothing and spawn nothing.
None == [t \in Tasks |-> {}]
NoKids == [t \in Tasks |-> [completed |-> {}]]
=============================================================================
