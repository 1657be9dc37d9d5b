-------------------------------- MODULE Awards --------------------------------
(***************************************************************************)
(* What a grant of experience, of points or of intel comes to, on every    *)
(* experience table and at every boundary of it.                           *)
(***************************************************************************)
EXTENDS CharXP, Input, SequencesExt

CONSTANTS
  MaxTable,    \* bound of the experience tables' values
  MaxSpent,    \* bound of the skill points spent
  MaxKeystones \* bound of the keystones purchased

ASSUME AwardsAssumption == {MaxTable, MaxSpent, MaxKeystones} \subseteq Nat

(* Strictly increasing experience tables, and an experience.                 *)
Tables ==
  {t \in [0..Top -> 0..MaxTable] : t[0] = 0 /\ \A l \in 1..Top : t[l - 1] < t[l]}

Grants == [kind : {"grant"}, table : Tables, xp : 0..MaxTable + 1]

GrantSpec == input \in Grants /\ [][FALSE]_input

-------------------------------------------------------------------------------
(* The search agrees with a walk over the table: the highest level whose     *)
(* threshold is reached, at least 1 for any experience at all.               *)
LevelIsTheHighestReached(t, xp) ==
  LET reached == {l \in 1..Top : l = 1 \/ t[l] <= xp}
      level   == xpToLevel(t, xp)
  IN IF xp = 0 THEN level = 0
     ELSE level \in reached /\ \A l \in reached : l <= level

(* The reward of every level, as the comment at charxp_calc.go:24-27 lists   *)
(* them, adds up to the piecewise function.                                  *)
Reward(level) ==
  CASE level = 1 -> 4 [] level \in 2..3 -> 2 [] level \in 4..15 -> 3
    [] level \in 16..30 -> 5 [] level \in 31..50 -> 10 [] level \in 51..69 -> 20
    [] level \in 70..85 -> 30 [] level \in 86..125 -> 40 [] level > 125 -> 0

IntelIsTheSumOfRewards ==
  \A level \in 0..200 : intelAtLevel(level + 1) - intelAtLevel(level) = Reward(level + 1)

(* Two grants in a row are one grant of the sum, whatever is capped on the   *)
(* way, and points are neither invented nor lost: spent, unspent and the     *)
(* starter's one make up the total, unless more is spent than there is.      *)
AwardsAddUp(t, xp) ==
  \A a, b \in 1..MaxTable, spent \in 0..MaxSpent,
     kinds \in SeqOf({"Super", "Major", "Plain", "Other"}, MaxKeystones) :
    LET bonus == keystoneSPBonus(kinds)
        one   == computeAwardCharXPOutcome(t, xp, spent, bonus, a)
        two   == computeAwardCharXPOutcome(t, one.xp, spent, bonus, b)
        both  == computeAwardCharXPOutcome(t, xp, spent, bonus, a + b)
    IN /\ two = both
       /\ TrackXP(t[Top], TrackXP(t[Top], xp, a), b) = TrackXP(t[Top], xp, a + b)
       /\ one.xp >= xp
       /\ one.unspent + spent + 1 = Most(one.total, spent + 1)

(* Grants of experience come out right at every boundary of every table.     *)
GrantsAddUp ==
  input.kind = "grant" =>
    /\ LevelIsTheHighestReached(input.table, input.xp)
    /\ input.xp <= input.table[Top] => AwardsAddUp(input.table, input.xp)
    /\ IntelIsTheSumOfRewards
===============================================================================
