-------------------------- MODULE MCDurableJournal --------------------------
EXTENDS DurableJournal

Producer == Permutations(Producers)
=============================================================================
