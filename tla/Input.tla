--------------------------------- MODULE Input ---------------------------------
(***************************************************************************)
(* What an algorithm of the toolkit is called with: one state is one call. *)
(* The algorithms that share the variable are told apart by its kind.      *)
(***************************************************************************)

VARIABLE input
===============================================================================
