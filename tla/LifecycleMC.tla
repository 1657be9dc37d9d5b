----------------------------- MODULE LifecycleMC -----------------------------
EXTENDS Lifecycle, TLC

\* Calls and servers have no names the code tells apart.
Symm == Permutations(Calls) \cup Permutations(Servers)
=============================================================================
