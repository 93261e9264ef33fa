----------------------------- MODULE CardCatalog -----------------------------
(***************************************************************************)
(* What both planners compute with: the resolved catalog of games and      *)
(* their cards, order-book sides and the windows in which they count, and  *)
(* the order of sort keys.  Times are ages relative to the request's clock.*)
(***************************************************************************)
EXTENDS MarketFees, Experience, FiniteSetsExt

CONSTANTS
    Games,          \* AppIDs
    CardsOf,        \* the cards of each game's set, numbered in hash order
    FeeContract,    \* the configured contract
    QuoteWindow,    \* max_quote_age_seconds
    InventoryWindow \* max_inventory_age_seconds

Cards == UNION {CardsOf[g] : g \in Games}

ASSUME CatalogAssumption ==
    /\ Games \subseteq Nat /\ CardsOf \in [Games -> SUBSET Nat]
    /\ IsFiniteSet(Games) /\ IsFiniteSet(Cards)
    /\ \A g \in Games : Cardinality(CardsOf[g]) \in 5..15
    /\ \A g, h \in Games : g # h => CardsOf[g] \cap CardsOf[h] = {}
    /\ FeeContract \in Contracts
    /\ {QuoteWindow, InventoryWindow} \subseteq Nat \ {0}

GameOf(card) == CHOOSE g \in Games : card \in CardsOf[g]

\* An order-book side as the provider reports it; a negative age lies in the future.
Quote == [price : Nat, quantity : Nat, age : Int]
Side == Quote \union {None}

\* Lexicographic order of sort keys of equal length.
Before(a, b) == \E i \in DOMAIN a : a[i] < b[i] /\ \A j \in 1..i - 1 : a[j] = b[j]

\* The first n elements of a set in the order of their keys.
First(n, S, Key(_)) == {d \in S : Cardinality({e \in S : Before(Key(e), Key(d))}) < n}
=============================================================================
