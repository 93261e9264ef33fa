-------------------------- MODULE MCInventoryFetch --------------------------
(* Inventories of two pages and the ways a provider may break them.        *)
EXTENDS InventoryFetch, TLC

CONSTANTS a1, a2, r1, r2, r3, c1, c2, card, paint, n1, n2, g1, y1

\* A card with a price, gems and a booster, and a marketable item without a name.
MCDescribed ==
    card :> [market |-> n1, marketable |-> TRUE, gem |-> g1, game |-> y1] @@
    paint :> [market |-> None, marketable |-> TRUE, gem |-> None, game |-> None]

PageOf(cards, paints, described, more, last) ==
    [assets |-> card :> cards @@ paint :> paints, described |-> described,
     more |-> more, last |-> last]

End == PageOf(0, 0, {}, FALSE, None)
Single == PageOf(0, 1, {paint}, FALSE, None)

\* First pages: nothing, and one that is followed by another, that leads nowhere, that
\* lacks a description.
Firsts ==
    {End, PageOf(1, 0, {card}, TRUE, c1), PageOf(1, 0, {card}, TRUE, None),
     PageOf(1, 0, {}, TRUE, c1)}

\* Second pages: the rest, nothing any more, one that leads back or on, and one too many
\* items.
Seconds ==
    {PageOf(1, 1, {paint}, FALSE, None), End, PageOf(0, 1, {paint}, TRUE, c1),
     PageOf(0, 0, {}, TRUE, c2), PageOf(3, 0, {}, FALSE, None)}

\* One account's pages come as they please, the other has a single one.
MCOffers ==
    a1 :> (None :> Firsts @@ c1 :> Seconds @@ c2 :> {End}) @@
    a2 :> (None :> {Single} @@ c1 :> {End} @@ c2 :> {End})

Alike == Permutations(Requests)
=============================================================================
