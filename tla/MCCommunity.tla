---------------------------- MODULE MCCommunity -----------------------------
(* Both warmers and one artwork request.                                   *)
EXTENDS Community

CONSTANTS c1, x

OneEach == [w \in Workers |-> {1}]
=============================================================================
