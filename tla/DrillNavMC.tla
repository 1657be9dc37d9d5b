------------------------------ MODULE DrillNavMC ------------------------------
(* The operator who waits has two hosts that share a player, and two items *)
(* that lie together.  The one who presses keys while replies are          *)
(* outstanding has a smaller world, of one player and one inventory.       *)
EXTENDS DrillNav, TLC

CONSTANTS h1, h2, p1, p2

MCHosts == <<h1, h2>>
MCStatus == (p1 :> 1) @@ (p2 :> 0)

Waits ==
  [careful |-> TRUE, sorts |-> 1, edits |-> 1, types |-> <<0, 1>>,
   roster |-> (h1 :> <<p1, p2>>) @@ (h2 :> <<p1>>),
   place |-> (h1 :> <<<<p1, 0>>, <<p1, 0>>, <<p1, 1>>>>) @@ (h2 :> <<<<p1, 0>>>>)]

Hurries ==
  [careful |-> FALSE, sorts |-> 0, edits |-> 1, types |-> <<0>>,
   roster |-> (h1 :> <<p1>>) @@ (h2 :> <<p1>>),
   place |-> (h1 :> <<<<p1, 0>>, <<p1, 0>>>>) @@ (h2 :> <<>>)]

MCWorlds == {Waits, Hurries}
=============================================================================
