--------------------------- MODULE MCBadgeArtwork ---------------------------
(* Artwork requests on their limiter, without the warmers.                 *)
EXTENDS BadgeArtwork, TLC

CONSTANTS c1, c2, c3, x, y
=============================================================================
