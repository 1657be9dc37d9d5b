------------------------------ MODULE PlayerRef ------------------------------
(***************************************************************************)
(* From what an operator types to an account: gamedb.ResolvePlayerRef over *)
(* gamedb.PlayerSearch (playerlookup_search.sql).                          *)
(*                                                                         *)
(* Names are short sequences of letters.  "A" is the capital of "a", "_"   *)
(* is an underscore: any one letter to LIKE, itself to EqualFold.          *)
(***************************************************************************)
EXTENDS Naturals, Sequences, FiniteSets

CONSTANT Limit  \* the limit of the search; 200

(* With one row a lone match could not be told from the first of many.       *)
ASSUME LimitAssumption == Limit \in Nat /\ Limit > 1

Letters == {"a", "A", "_"}

Fold(c) == IF c = "A" THEN "a" ELSE c

EqualFold(s, t) == Len(s) = Len(t) /\ \A i \in DOMAIN s : Fold(s[i]) = Fold(t[i])

(* lower(name) LIKE lower(ref || '%').                                       *)
Like(ref, name) ==
  /\ Len(ref) <= Len(name)
  /\ \A i \in DOMAIN ref : ref[i] = "_" \/ Fold(ref[i]) = Fold(name[i])

(* PlayerSearch: the positions, in the query's order, of the players that     *)
(* match by name or by Funcom id, up to the limit.                           *)
PlayerSearch(players, ref, limit) ==
  LET rows == {i \in DOMAIN players :
                 Like(ref, players[i].name) \/ Like(ref, players[i].funcom)}
  IN {i \in rows : Cardinality({j \in rows : j < i}) < limit}

Nobody == 0

ResolveFirstRow(players, ref) ==
  LET rows == PlayerSearch(players, ref, Limit) IN
    IF rows = {} THEN Nobody ELSE players[CHOOSE i \in rows : \A j \in rows : i <= j].fls

(* The only exact match, or the only row; Nobody stands for "ambiguous" and  *)
(* for "no player".  A reference in the shape of an id is not looked up.     *)
ResolvePlayerRef(players, ref) ==
  LET rows  == PlayerSearch(players, ref, Limit)
      exact == {i \in rows : EqualFold(players[i].name, ref)}
  IN CASE Cardinality(exact) = 1 -> players[CHOOSE i \in exact : TRUE].fls
       [] exact = {} /\ Cardinality(rows) = 1 -> players[CHOOSE i \in rows : TRUE].fls
       [] OTHER -> Nobody

===============================================================================
