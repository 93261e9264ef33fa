------------------------------ MODULE MCWarmer ------------------------------
(* The two warmers on their shared limiter, without artwork calls.         *)
EXTENDS Warmer

\* One key of each service.
OneEach == [w \in Workers |-> {1}]
=============================================================================
