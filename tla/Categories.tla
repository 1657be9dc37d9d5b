------------------------------- MODULE Categories -------------------------------
(***************************************************************************)
(* Where an item is listed (pkg/domain/market/pricing.go): from the path   *)
(* of its category, without the root, to the codes the game's exchange     *)
(* files orders under.  A mask is <<depth 1, depth 2, depth 3>>, one byte  *)
(* each; a code is a position in the tabs of the game's own dialog.        *)
(***************************************************************************)
EXTENDS Naturals, Sequences, FiniteSets

(* Tabs that follow one another, the first at position at.                   *)
Tabs(at, of) == [at |-> at, of |-> of]

Knows(groups, seg) == \E g \in groups : \E i \in DOMAIN g.of : g.of[i] = seg

(* The code of a segment, 0 for one that is not known.                       *)
Code(groups, seg) ==
  IF ~Knows(groups, seg) THEN 0
  ELSE LET g == CHOOSE g \in groups : \E i \in DOMAIN g.of : g.of[i] = seg
       IN g.at - 1 + CHOOSE i \in DOMAIN g.of : g.of[i] = seg

-------------------------------------------------------------------------------
(* The tables: knownCodes by depth, depth3Parent by parent, and those of the *)
(* unique schematics.                                                        *)

Depth1 == {Tabs(0, <<"garment", "weapons", "vehicles", "utility", "augment", "misc">>)}

Vehicles == <<"sandbike", "buggy", "lightornithopter", "mediumornithopter",
              "transportornithopter", "sandcrawler">>

Garments == <<"lightarmor", "heavyarmor", "stillsuits", "utilitywearables", "socialwearables">>

Ranged == <<"pistol", "heavypistol", "heavyrifle", "smg", "spitdart", "shotgun", "battlerifle",
            "heavyshotgun", "missilelauncher", "flamethrower", "fireballer", "lasgun">>

Augments == <<"armor", "melee", "ranged", "misc">>

Depth2 ==
  {Tabs(0, Garments), Tabs(2, Append(Ranged, "ammunition")), Tabs(0, Vehicles),
   Tabs(0, <<"buildingtools">>), Tabs(0, Augments),
   Tabs(2, <<"hydrationtools", "gatheringtools", "cartographytools", "utilitytools",
             "consumables">>),
   Tabs(0, <<"fuel", "refinedresources", "components", "rawresources">>)}

Depth3 == {Tabs(0, <<"cutteray", "compactor">>)}

Wear == <<"head", "chest", "legs", "hands", "feet">>

Depth3Parent ==
  [lightarmor |-> {Tabs(0, Wear)}, heavyarmor |-> {Tabs(0, Wear)},
   stillsuits |-> {Tabs(0, <<"head", "chest", "hands", "feet">>)},
   socialwearables |-> {Tabs(0, <<"chest", "legs", "hands", "feet">>)},
   sandbike |-> {Tabs(0, <<"chassis", "hull", "engine", "psu", "locomotion", "utility">>)},
   buggy |-> {Tabs(0, <<"chassis", "hull", "rear", "engine", "psu", "locomotion", "turret",
                        "utility">>)},
   lightornithopter |->
     {Tabs(0, <<"chassis", "cockpit", "hull", "engine", "psu", "locomotion", "utility">>)},
   mediumornithopter |->
     {Tabs(0, <<"chassis", "cabin", "cockpit", "tail", "engine", "psu", "locomotion",
                "utility">>)},
   transportornithopter |->
     {Tabs(0, <<"chassis", "hull", "engine", "psu", "locomotion", "utility">>)},
   sandcrawler |-> {Tabs(0, <<"chassis", "cabin", "engine", "psu", "locomotion", "utility">>)},
   hydrationtools |-> {Tabs(0, <<"watertools", "bloodtools">>)},
   utilitytools |-> {Tabs(0, <<"powerpack", "suspensor">>), Tabs(3, <<"utility">>)},
   consumables |-> {Tabs(2, <<"utility">>)}]

(* Melee weapons, one level deeper in the game than in the item data.        *)
weaponPathRemap == Tabs(0, <<"shortblades", "longblades">>)

uniqueSchematicsD2 == [garment |-> 5, weapons |-> 3, vehicles |-> 6, utility |-> 7, augment |-> 4]

uniqueSchematicsD3 ==
  {Tabs(0, Garments), weaponPathRemap, Tabs(2, Ranged), Tabs(0, Vehicles), Tabs(0, Augments),
   Tabs(0, <<"deployables", "watertools", "bloodtools", "cutteray", "staticcompactor",
             "cartographytools", "shield", "suspensor", "powerpack">>)}

-------------------------------------------------------------------------------
NoPlace == [mask |-> <<0, 0, 0>>, depth |-> 0, ok |-> FALSE]

Place(d1, d2, d3, depth) == [mask |-> <<d1, d2, d3>>, depth |-> depth, ok |-> TRUE]

UniqueSchematicsMask(path) ==
  LET named == IF Len(path) < 2 THEN {}
               ELSE {i \in {2, 3} \cap DOMAIN path : Knows(uniqueSchematicsD3, path[i])}
      i     == IF 2 \in named THEN 2 ELSE 3
  IN IF named = {} \/ path[1] \notin DOMAIN uniqueSchematicsD2 THEN NoPlace
     ELSE Place(Code(Depth1, path[1]), uniqueSchematicsD2[path[1]],
                Code(uniqueSchematicsD3, path[i]), 3)

(* The tabs among which the segment at a depth is looked for: those of its   *)
(* parent before those of every parent.                                      *)
TabsAtAnyParent(path, i) == CASE i = 1 -> Depth1 [] i = 2 -> Depth2 [] i = 3 -> Depth3

TabsAt(path, i) ==
  LET of == IF i = 3 /\ path[2] \in DOMAIN Depth3Parent THEN Depth3Parent[path[2]] ELSE {} IN
    IF i = 3 /\ Knows(of, path[3]) THEN of
    ELSE CASE i = 1 -> Depth1 [] i = 2 -> Depth2 [] i = 3 -> Depth3

CategoryMask(path) ==
  IF Len(path) >= 2 /\ path[1] = "weapons" /\ Knows({weaponPathRemap}, path[2])
  THEN Place(1, 0, Code({weaponPathRemap}, path[2]), 3)
  ELSE LET code(i) == IF i > Len(path) THEN 0 ELSE Code(TabsAt(path, i), path[i])
       IN Place(code(1), code(2), code(3), IF Len(path) < 3 THEN Len(path) ELSE 3)

(* The cache of masks seen in orders first, then the section of unique       *)
(* schematics, then the category; a mask of zeros counts as no mask.         *)
categoryFor(cached, schematic, path) ==
  LET unique == UniqueSchematicsMask(path)
      plain  == CategoryMask(path)
  IN CASE cached.mask # NoPlace.mask -> cached
       [] cached.mask = NoPlace.mask /\ schematic /\ unique.ok -> unique
       [] OTHER -> IF plain.mask = NoPlace.mask THEN NoPlace ELSE plain
===============================================================================
