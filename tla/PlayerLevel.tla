------------------------------ MODULE PlayerLevel ------------------------------
(***************************************************************************)
(* The projection of a player's points over a series of badges             *)
(* (project_xp in level_up_optimizer.py).                                  *)
(***************************************************************************)
EXTENDS Experience

CONSTANTS
    MaxXp,     \* MAX_PLAYER_XP
    MaxLevel   \* MAX_PLAYER_LEVEL

ASSUME XpAssumption == MaxXp \in Nat /\ MaxLevel \in Nat

VARIABLE player  \* the last projection
-----------------------------------------------------------------------------
\* A player with the points of single events crafts badges, some at a time.
XpInit == \E xp \in 0..BadgeXp - 1 : player = Projection(xp, 0)

\* There is no projection beyond either maximum.
CraftBadges ==
    \E crafts \in 1..5 :
        /\ player.xp + BadgeXp * crafts <= MaxXp
        /\ LevelForXp(player.xp + BadgeXp * crafts) <= MaxLevel
        /\ player' = Projection(player.xp, BadgeXp * crafts)

XpSpec == XpInit /\ [][CraftBadges]_player
-----------------------------------------------------------------------------
\* The level is the one whose threshold the points have reached and whose
\* successor's they have not, at the maximum too, and it changes with the last missing
\* point and not one earlier (level_for_xp, xp_to_next_level, project_xp).
LevelExact ==
    /\ MinimumXp(player.level) <= player.xp /\ player.xp < MinimumXp(player.level + 1)
    /\ LevelForXp(player.xp + player.toNext) = player.level + 1
    /\ LevelForXp(player.xp + player.toNext - 1) = player.level
=============================================================================
