------------------------------- MODULE Algorithms -------------------------------
(***************************************************************************)
(* The pure algorithms of the toolkit, each against what it promises, on   *)
(* every input of small sets: one state is one input.  A price is an input *)
(* that ticks on.                                                          *)
(***************************************************************************)
EXTENDS Awards, Lookup, Edits, PriceWalk, Categories

-------------------------------------------------------------------------------
(* Inputs.                                                                   *)

(* Every path the tables know.                                               *)
Paths ==
  LET below(tab) ==
        CASE tab = "garment"  -> ToSet(Garments)
          [] tab = "weapons"  -> ToSet(Ranged) \cup {"ammunition", "shortblades", "longblades"}
          [] tab = "vehicles" -> ToSet(Vehicles)
          [] tab = "utility"  -> {"buildingtools", "hydrationtools", "gatheringtools",
                                  "cartographytools", "utilitytools", "consumables"}
          [] tab = "augment"  -> ToSet(Augments)
          [] tab = "misc"     -> {"fuel", "refinedresources", "components", "rawresources"}
      tabs  == {"garment", "weapons", "vehicles", "utility", "augment", "misc"}
      pairs == UNION {{<<tab, seg>> : seg \in below(tab)} : tab \in tabs}
      parts(seg) == IF seg = "gatheringtools" THEN {"cutteray", "compactor"}
                    ELSE IF seg \notin DOMAIN Depth3Parent THEN {}
                    ELSE UNION {ToSet(g.of) : g \in Depth3Parent[seg]}
  IN pairs \cup UNION {{Append(p, part) : part \in parts(p[2])} : p \in pairs}

Catalogued == [kind : {"category"}, path : Paths, schematic : BOOLEAN]

Init ==
  \/ input \in Grants
  \/ input \in Crowds
  \/ input \in Patchings
  \/ input \in Settings
  \/ input \in Catalogued
  \/ input \in Priced

Spec == Init /\ [][PriceTick]_input

-------------------------------------------------------------------------------
(* Two items are listed in one place only when they have one category, a     *)
(* schematic and its product never: an order filed under another item's mask *)
(* spoils the category for the players.  Only categories whose codes are all *)
(* zeros find no place at all.                                               *)
CategoriesKeptApart ==
  input.kind = "category" =>
    LET place == categoryFor(NoPlace, input.schematic, input.path) IN
      IF ~place.ok
      THEN \A i \in DOMAIN input.path : Code(TabsAt(input.path, i), input.path[i]) = 0
      ELSE \A other \in Catalogued :
             LET there == categoryFor(NoPlace, other.schematic, other.path) IN
               (there.ok /\ <<there.mask, there.depth>> = <<place.mask, place.depth>>) =>
                 \/ other.path = input.path
                 \/ input.schematic /\ other.schematic
===============================================================================
