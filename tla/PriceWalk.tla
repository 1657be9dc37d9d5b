------------------------------- MODULE PriceWalk -------------------------------
(***************************************************************************)
(* The price of a catalog item on its way through the list ticks           *)
(* (updatePrices of pkg/domain/market/exchange.go): it starts at the base  *)
(* price (Exchange.Init) and each tick moves it by what was sold and what  *)
(* others ask.                                                             *)
(***************************************************************************)
EXTENDS Pricing, Input

CONSTANT Items  \* catalog items

(* What the catalog is read into; 0 for a cost or an override that is not    *)
(* there.                                                                    *)
ASSUME ItemsAssumption ==
  \A item \in Items :
    /\ {item.vendor, item.cost, item.min, item.max} \subseteq Nat
    /\ item.costs \in [1..6 -> Nat]

Priced == {[kind |-> "price", item |-> item, price |-> computePrice(item)] : item \in Items}

(* A list tick moves the price of an item; the minimum others ask is none,   *)
(* next to nothing, or the item's own floor.                                 *)
PriceTick ==
  /\ input.kind = "price"
  /\ \E demand \in Demands, minimum \in {0, 1, Floor(input.item)} :
       input' = [input EXCEPT !.price = updatePrice(input.item, @, demand, minimum)]

PriceSpec == input \in Priced /\ [][PriceTick]_input

-------------------------------------------------------------------------------
(* The ceiling has the last word here as well.                               *)
Bottom(item) == IF Floor(item) < Ceiling(item) THEN Floor(item) ELSE Ceiling(item)

(* A price that was moved lies between half its floor and its ceiling; an    *)
(* item that sells gets dearer and one that nobody buys gets cheaper until   *)
(* they are there, or in the small prices where a step is too coarse: up to  *)
(* 40 and up to 110; and a better grade is never cheaper, unless a recipe    *)
(* asks less material for it.                                                *)
PricesFollowDemand ==
  input.kind = "price" =>
    LET item  == input.item
        price == input.price
    IN /\ price # computePrice(item) => Bottom(item) <= 2 * price /\ price <= Ceiling(item)
       /\ price < Ceiling(item) /\ price > 40 => adjustPrice(item, price, "high") > price
       /\ price > Bottom(item) /\ price > 110 => adjustPrice(item, price, "none") < price
       /\ \A g, h \in applicableGrades(item) :
            g < h =>
              \/ ListingPrice(item, price, g) <= ListingPrice(item, price, h)
              \/ /\ Crafted(item)
                 /\ materialCostForGrade(item, h) < materialCostForGrade(item, g)
===============================================================================
