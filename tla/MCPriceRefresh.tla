--------------------------- MODULE MCPriceRefresh ---------------------------
(* Small instances of PriceRefresh for TLC. *)
EXTENDS PriceRefresh, TLC

CONSTANTS h1, h2, c1, c2, r1, r2, n1, n2, x

Peers == Permutations({c1, c2}) \union Permutations({r1, r2})
OneHost == [c \in {c1, c2} |-> h1]
TwoHosts == [c \in {c1, c2} |-> IF c = c1 THEN h1 ELSE h2]
Swap == (h1 :> h2) @@ (h2 :> h1) @@ (c1 :> c2) @@ (c2 :> c1)
Twins == {Swap}
OneCard == [a \in {x} |-> {n1}]
==============================================================================
