-------------------------------- MODULE Pricing --------------------------------
(***************************************************************************)
(* The market bot's prices (pkg/domain/market/pricing.go and updatePrices  *)
(* of exchange.go): the base price of a catalog item, its price at a       *)
(* quality grade, and how a list tick moves it with what was sold and what *)
(* others ask.  Multipliers are hundredths; the code's products of floats  *)
(* are taken as exact.                                                     *)
(***************************************************************************)
EXTENDS Naturals, Sequences, FiniteSets

(* a / b rounded half away from zero (math.Round).                           *)
Rounded(a, b) == (2 * a + b) \div (2 * b)

At(table, i, default) == IF i \in DOMAIN table THEN table[i] ELSE default

equipmentPrice(tier) == At(<<2000, 8000, 30000, 100000, 300000, 750000>>, tier, 500)

schematicEquipmentPrice(tier) == At(<<500, 1500, 4000, 12000, 30000, 75000>>, tier, 500)

materialUnitPrice(tier) == At(<<20, 80, 200, 600, 1500, 4000>>, tier, 5)

(* Multipliers of the default configuration; rarities compare case-folded.   *)
rarityMult(rarity) == At([rare |-> 500, unique |-> 500, memento |-> 200], rarity, 100)

GradeMultipliers == <<100, 100, 125, 150, 175, 200>>

gradePriceMult(grade) == At(GradeMultipliers, grade + 1, 100)

StepTooCoarse(v) ==
  CASE v >= 100000 -> 100000 [] v \in 10000..99999 -> 10000 [] v \in 1000..9999 -> 1000
    [] OTHER -> 100

Step(v) ==
  CASE v >= 1000 * 1000                     -> 100 * 1000
    [] 100 * 1000 <= v /\ v < 1000 * 1000   -> 10 * 1000
    [] 10 * 1000 <= v /\ v < 100 * 1000     -> 1000
    [] 1000 <= v /\ v < 10 * 1000           -> 100
    [] v < 1000                             -> 10

(* A clean price.                                                            *)
roundPrice(v) == Rounded(v, Step(v)) * Step(v)

(* Unique and memento equipment with a recipe.                               *)
Crafted(item) ==
  item.cost > 0 /\ ~item.stacks /\ ~item.schematic /\ item.rarity \in {"unique", "memento"}

materialCostForGrade(item, grade) ==
  IF grade \in 0..5 /\ item.costs[grade + 1] > 0 THEN item.costs[grade + 1] ELSE item.cost

CraftedPrice(item, grade) ==
  Rounded(schematicEquipmentPrice(item.tier) * rarityMult(item.rarity)
            + materialCostForGrade(item, grade) * 75, 100)

minMeaningfulVendorPrice == 10

AtLeastOne(v) == IF v < 1 THEN 1 ELSE v

basePrice(item) ==
  LET mult == rarityMult(item.rarity) IN
    CASE Crafted(item) -> CraftedPrice(item, 0)
      [] ~Crafted(item) /\ item.vendor >= minMeaningfulVendorPrice ->
           Rounded(item.vendor * mult, 100)
      [] ~Crafted(item) /\ item.vendor < minMeaningfulVendorPrice /\ ~item.stacks ->
           Rounded((IF item.schematic THEN schematicEquipmentPrice(item.tier)
                    ELSE equipmentPrice(item.tier)) * mult, 100)
      [] OTHER -> AtLeastOne(Rounded(materialUnitPrice(item.tier) * mult, 100))

computePrice(item) == roundPrice(basePrice(item))

gradedPrice(price, grade) == roundPrice(Rounded(price * gradePriceMult(grade), 100))

gradeFloor(item, grade) ==
  IF Crafted(item) THEN roundPrice(CraftedPrice(item, grade))
  ELSE gradedPrice(computePrice(item), grade)

(* What a listing at a grade costs: the moving price unless there is a       *)
(* recipe (ListTick, createListingsBatch).                                   *)
ListingPrice(item, price, grade) ==
  IF item.cost > 0 THEN gradeFloor(item, grade) ELSE gradedPrice(price, grade)

Floor(item) ==
  LET base == computePrice(item) IN
    IF item.min > 0 /\ base < item.min THEN item.min ELSE base

Ceiling(item) ==
  LET top == 5 * computePrice(item) IN
    IF item.max > 0 /\ top > item.max THEN item.max ELSE top

(* The ceiling has the last word.                                            *)
Clamp(v, floor, ceiling) ==
  LET high == IF v < floor THEN floor ELSE v IN IF high > ceiling THEN ceiling ELSE high

(* More than half sold, nothing sold, or something in between.               *)
Demands == {"high", "none", "some"}

adjustPrice(item, current, demand) ==
  LET next == CASE demand = "high" -> Rounded(current * 110, 100)
                [] demand = "none" -> Rounded(current * 95, 100)
                [] demand = "some" -> current
  IN Clamp(roundPrice(next), Floor(item), Ceiling(item))

(* updatePrices for one item: halfway to the market's minimum when that is   *)
(* more than a tenth below; minimum 0 stands for no statistics.              *)
updatePrice(item, current, demand, minimum) ==
  LET adjusted == adjustPrice(item, current, demand) IN
    IF minimum > 0 /\ minimum < (adjusted * 9) \div 10
    THEN (adjusted + minimum) \div 2
    ELSE adjusted

(* applicableGrades: one grade unless the item is gradeable equipment.       *)
applicableGrades(item) ==
  IF item.stacks \/ ~item.gradeable THEN {0}
  ELSE (IF item.minGrade \in 0..5 THEN item.minGrade ELSE 0)..5
===============================================================================
