-------------------------------- MODULE CharXP --------------------------------
(***************************************************************************)
(* The arithmetic of grants (pkg/domain/gamedb/charxp_calc.go and the      *)
(* statements of gamedb/sql): levels, skill points and intel from          *)
(* experience, and the clamp of a specialization track.                    *)
(*                                                                         *)
(* The experience table of charxp_data.go is data: table is any strictly   *)
(* increasing function on 0..Top with table[0] = 0.                        *)
(***************************************************************************)
EXTENDS Integers, FiniteSets, Sequences

CONSTANT Top  \* the highest level; 200

ASSUME TopAssumption == Top \in Nat \ {0}

xpToLevelLow(table, xp) ==
  LET search[lo \in 1..Top] ==
        [hi \in 1..Top |->
           IF lo >= hi THEN lo
           ELSE LET mid == (lo + hi) \div 2 IN
                IF table[mid] < xp THEN search[mid + 1][hi] ELSE search[lo][mid]]
  IN IF xp <= 0 THEN 0 ELSE search[1][Top]

(* The binary search of xpToLevel.                                           *)
xpToLevel(table, xp) ==
  LET search[lo \in 1..Top] ==
        [hi \in 0..Top |->
           IF lo >= hi THEN lo
           ELSE LET mid == (lo + hi + 1) \div 2 IN
                IF table[mid] <= xp THEN search[mid][hi] ELSE search[lo][mid - 1]]
  IN IF xp <= 0 THEN 0 ELSE search[1][Top]

(* Cumulated intel, piecewise linear.                                        *)
intelAtLevel(level) ==
  CASE level <= 0   -> 0
    [] level = 1    -> 4
    [] level \in 2..3    -> 4 + (level - 1) * 2
    [] level \in 4..15   -> 8 + (level - 3) * 3
    [] level \in 16..30  -> 44 + (level - 15) * 5
    [] level \in 31..50  -> 119 + (level - 30) * 10
    [] level \in 51..69  -> 319 + (level - 50) * 20
    [] level \in 70..85  -> 699 + (level - 69) * 30
    [] level \in 86..125 -> 1179 + (level - 85) * 40
    [] level > 125       -> 2779

(* The points of one purchased keystone, by the suffix of its name.          *)
KeystonePoints(kind) ==
  CASE kind = "Super" -> 5 [] kind = "Major" -> 3 [] kind = "Plain" -> 1
    [] kind \notin {"Super", "Major", "Plain"} -> 0

keystoneSPBonus(kinds) ==
  LET sum[i \in 0..Len(kinds)] ==
        IF i = 0 THEN 0 ELSE sum[i - 1] + KeystonePoints(kinds[i])
  IN sum[Len(kinds)]

Least(a, b) == IF a < b THEN a ELSE b

Most(a, b) == IF a < b THEN b ELSE a

computeAwardCharXPOutcome(table, currentXP, spentSP, bonus, amount) ==
  LET xp    == Least(currentXP + amount, table[Top])
      level == xpToLevel(table, xp)
  IN [xp |-> xp, level |-> level, total |-> level + bonus,
      unspent |-> Most(0, level + bonus - spentSP - 1), intel |-> intelAtLevel(level),
      capped |-> xp = table[Top]]

(* GREATEST(LEAST(xp + amount, 44182), 0) of grant_skillpoints.sql.          *)
TrackXP(cap, xp, amount) == Most(Least(xp + amount, cap), 0)

===============================================================================
