------------------------- MODULE MCInventorySession -------------------------
(* Small instances of InventorySession for TLC. *)
EXTENDS InventorySession, TLC

CONSTANTS t1, t2, a, b

\* Both tabs can sign out; one of them also refreshes.
BothTabs == [t \in {t1, t2} |->
    IF t = t1 THEN {"refresh", "gem", "logout"} ELSE {"logout"}]
Readers == [t \in {t1, t2} |-> IF t = t1 THEN {"refresh", "gem"} ELSE {}]
LogoutOnly == [t \in {t1} |-> {"logout"}]
OneTab == [t \in {t1} |-> Ability]

EitherAccount == Permutations({a, b})
=============================================================================
