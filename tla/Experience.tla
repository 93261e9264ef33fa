------------------------------ MODULE Experience ------------------------------
(***************************************************************************)
(* Steam levels and experience points (level_up_optimizer.py): ten levels  *)
(* of a decade cost the same, each decade 100 points per level more.       *)
(***************************************************************************)
EXTENDS Integers

\* NORMAL_BADGE_XP
BadgeXp == 100

\* The points at which a level begins.
MinimumXp(level) ==
    LET decades == level \div 10
    IN  500 * decades * (decades + 1) + 100 * (decades + 1) * (level % 10)

ISqrt(n) == CHOOSE r \in 0..n : r * r <= n /\ (r + 1) * (r + 1) > n

DecadeXp(d) == 500 * d * (d + 1)

\* Fault: the estimate is only ever corrected upwards.
DecadesUpwards(xp) ==
    LET up[d \in Nat] == IF DecadeXp(d + 1) <= xp THEN up[d + 1] ELSE d
    IN  up[ISqrt(1 + xp \div 125) \div 2]

\* The square-root estimate of the decade, corrected down, then up.
Decades(xp) ==
    LET down[d \in Nat] == IF DecadeXp(d) > xp THEN down[d - 1] ELSE d
        up[d \in Nat] == IF DecadeXp(d + 1) <= xp THEN up[d + 1] ELSE d
    IN  up[down[ISqrt(1 + xp \div 125) \div 2]]

\* The code refuses a level above MAX_PLAYER_LEVEL here: see CraftBadges in PlayerLevel.
LevelForXp(xp) ==
    LET decades == Decades(xp)
        rest == (xp - DecadeXp(decades)) \div (100 * (decades + 1))
    IN  10 * decades + (IF rest < 9 THEN rest ELSE 9)

XpToNextLevel(xp) == MinimumXp(LevelForXp(xp) + 1) - xp

\* project_xp
Projection(xp, added) ==
    [xp |-> xp + added, level |-> LevelForXp(xp + added), toNext |-> XpToNextLevel(xp + added)]
=============================================================================
