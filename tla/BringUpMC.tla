------------------------------ MODULE BringUpMC ------------------------------
EXTENDS BringUp, TLC

Symm == Permutations(Admins) \cup Permutations(Nodes) \cup Permutations(Names)
=============================================================================
