-------------------------------- MODULE Lookup --------------------------------
(***************************************************************************)
(* Looking a player up by what an operator typed, in every crowd of a host *)
(* in every order: the query's depends on who is online.                   *)
(***************************************************************************)
EXTENDS PlayerRef, Input, SequencesExt

CONSTANTS
  NameLength, \* longest name
  Crowd,      \* most players on a host
  FuncomIds   \* the Funcom ids the players of a crowd may have

ASSUME LookupAssumption ==
  /\ {NameLength, Crowd} \subseteq Nat
  /\ FuncomIds \subseteq [1..Crowd -> Seq(Letters)]

Names == UNION {[1..n -> Letters] : n \in 1..NameLength}

Roster(names, ids) ==
  [i \in 1..Len(names) |-> [fls |-> i, name |-> names[i], funcom |-> ids[i]]]

Rosters == UNION {{Roster(names, ids) : ids \in FuncomIds} : names \in SeqOf(Names, Crowd)}

Crowds == [kind : {"crowd"}, players : Rosters]

CrowdSpec == input \in Crowds /\ [][FALSE]_input

-------------------------------------------------------------------------------
(* An account is never granted, edited or messaged in the place of the one   *)
(* that is called exactly what the operator typed, whatever else matches and *)
(* whatever the limit cuts off.                                              *)
ExactNameIsNeverAnother ==
  input.kind = "crowd" =>
    \A ref \in Names :
      LET players == input.players
          named   == {i \in DOMAIN players : EqualFold(players[i].name, ref)}
          found   == ResolvePlayerRef(players, ref)
      IN (named # {} /\ found # Nobody) => found \in named
===============================================================================
