------------------------------ MODULE PlayersMC ------------------------------
(* Two calls on one player; the cluster has the broker and the token, the    *)
(* token in a secret only, neither token nor director, or no broker.         *)
EXTENDS Players, TLC

MCClusters ==
  {[director |-> TRUE, literal |-> "token", secret |-> "", expected |-> "token",
    pods |-> <<FALSE, TRUE>>],
   [director |-> TRUE, literal |-> "", secret |-> "token", expected |-> "token",
    pods |-> <<TRUE>>],
   [director |-> FALSE, literal |-> "", secret |-> "", expected |-> "token",
    pods |-> <<TRUE>>],
   [director |-> FALSE, literal |-> "", secret |-> "", expected |-> "token",
    pods |-> <<FALSE>>]}

MCSymmetry == Permutations(Jobs)
===============================================================================
