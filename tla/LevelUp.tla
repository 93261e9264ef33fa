------------------------------- MODULE LevelUp -------------------------------
(***************************************************************************)
(* The level-up optimizer (level_up_optimizer.py): sell one card into the  *)
(* best bid, buy with the receipt the missing cards of as many badges as   *)
(* it pays for.  A problem p is what the server hands to optimize_level_up *)
(* at one clock reading; times are ages and deadlines relative to it.      *)
(***************************************************************************)
EXTENDS CardCatalog

CONSTANTS
    Problems,         \* what optimize_level_up is called with
    MaxDestinations,  \* MAX_DESTINATION_SETS
    MaxAlternatives   \* MAX_EXCHANGE_ALTERNATIVES

\* owned and sellable are the holdings, 0 for a card that is not held.
Problem == [xp : Nat, level : [Games -> 0..5], owned : [Cards -> Nat], sellable : [Cards -> Nat],
            bid : [Cards -> Side], ask : [Cards -> Side], inventoryAge : Int, catalogAge : Int]

\* A badge that could be completed, and what a source pays for.
Offer == [game : Games, rows : SUBSET Cards, cost : Nat, oldest : Int]

Swap == [source : Cards, destinations : SUBSET Offer, foregone : Int, funded : Int,
         advantage : Int, unspent : Int, oldest : Int, actions : Int, limited : BOOLEAN]

ASSUME BoundsAssumption ==
    /\ \A p \in Problems : p \in Problem
    /\ {MaxDestinations, MaxAlternatives} \subseteq Nat \ {0}
    /\ None \notin Offer \union Swap

VARIABLES problem, answer  \* the call's arguments and its result

levelUpVars == <<problem, answer>>
-----------------------------------------------------------------------------
\* _side_quote: the quote if it can be used at all.
SideQuote(side) ==
    IF side # None /\ side.quantity >= 1 /\ side.age \in 0..QuoteWindow THEN side ELSE None

\* _source_fee_breakdown of the bid of a card one of whose copies may be sold.
Receipt(p, card) ==
    LET bid == SideQuote(p.bid[card])
    IN  IF p.sellable[card] < 1 \/ bid = None THEN None
        ELSE SellerReceipt(bid.price, FeeContract)

Sources(p) == {card \in Cards : Receipt(p, card) # None}

\* What is held after the sale of one copy of a card (None: before any sale).
Left(p, sold) == [card \in Cards |-> IF card = sold THEN AtLeast(p.owned[card] - 1, 0)
                                     ELSE p.owned[card]]

\* _craftable_count
Craftable(p, g, held) == Min({5 - p.level[g]} \union {held[card] : card \in CardsOf[g]})

\* _destination_plan: the cards to buy for one badge of the game, with their cost,
\* if they can all be bought and there is something to buy.
Destination(p, g, sold) ==
    LET held == Left(p, sold)
        missing == {card \in CardsOf[g] : held[card] = 0}
    IN  IF \/ p.level[g] >= 5
           \/ missing = {}
           \/ \E card \in missing : SideQuote(p.ask[card]) = None
        THEN None
        ELSE [game |-> g, rows |-> missing,
              cost |-> SumFunction([card \in missing |-> p.ask[card].price]),
              oldest |-> Max({p.ask[card].age : card \in missing})]

\* Fault: the source's own set is offered as if the card were still held.
DestinationsBefore(p, source) == {Destination(p, g, None) : g \in Games} \ {None}

\* _destination_options, with the source's own game as it is after the sale of
\* its last copy (_destination_prefix: replaced_index, adjusted).
Destinations(p, source) ==
    {Destination(p, g, IF g = GameOf(source) /\ p.owned[source] = 1 THEN source ELSE None) :
        g \in Games} \ {None}

\* _destination_sort_key and _alternative_destination_key: a list has one
\* destination of each game, so the card names that end the keys decide nothing.
SortKey(d) == <<d.cost, d.oldest, Cardinality(d.rows), d.game>>
AlternativeKey(d) == <<d.cost, d.game>>

\* _destination_prefix: the first destinations in the one and in the other order.
Prefix(n, options) == First(n, options, SortKey)
FallbackPrefix(n, options) == First(n, options, AlternativeKey)

Cost(S) == SumFunction([d \in S |-> d.cost])

\* Fault: the last minor unit of the proceeds is not spent.
SelectBelow(options, proceeds) ==
    {d \in Prefix(MaxDestinations, options) :
        Cost({e \in options : ~ Before(SortKey(d), SortKey(e))}) < proceeds}

\* _select_destinations: the prefix that the proceeds pay for.
Select(options, proceeds) ==
    {d \in Prefix(MaxDestinations, options) :
        Cost({e \in options : ~ Before(SortKey(d), SortKey(e))}) <= proceeds}
-----------------------------------------------------------------------------
Foregone(p, source) ==
    LET g == GameOf(source)
    IN  (Craftable(p, g, Left(p, None)) - Craftable(p, g, Left(p, source))) * BadgeXp

\* The loop body of optimize_level_up: the swap that this source pays for.
SwapOf(p, source) ==
    LET options == Prefix(MaxDestinations + 1, Destinations(p, source))
        receipt == Receipt(p, source)
        foregone == Foregone(p, source)
        required == foregone \div BadgeXp + 1
        selected == Select(options, receipt)
    IN  IF \/ Cardinality(options) < required
           \/ receipt < Cost(Prefix(required, options))
           \/ Cardinality(selected) < required
           \/ Cardinality(selected) * BadgeXp <= foregone
        THEN None
        ELSE [source |-> source, destinations |-> selected,
              foregone |-> foregone, funded |-> Cardinality(selected) * BadgeXp,
              advantage |-> Cardinality(selected) * BadgeXp - foregone,
              unspent |-> receipt - Cost(selected),
              oldest |-> Max({p.bid[source].age} \union {d.oldest : d \in selected}),
              actions |-> 1 + Cardinality(UNION {d.rows : d \in selected}),
              limited |-> /\ Cardinality(selected) = MaxDestinations
                          /\ Cardinality(options) > MaxDestinations
                          /\ Cost(options) <= receipt]

Swaps(p) == {SwapOf(p, source) : source \in Sources(p)} \ {None}

\* The key of the final min; two swaps never have the same source.
SwapKey(s) == <<-s.advantage, -s.funded, -s.unspent, s.oldest, s.actions,
                GameOf(s.source), s.source>>

Recommended(swaps) == CHOOSE s \in swaps : \A t \in swaps \ {s} : Before(SwapKey(s), SwapKey(t))
-----------------------------------------------------------------------------
\* _patient_seller_receipt and _patient_purchase_total: the other sides' prices.
PatientReceipt(p, source) ==
    LET ask == SideQuote(p.ask[source])
    IN  IF ask = None THEN None ELSE SellerReceipt(ask.price, FeeContract)

PatientPurchase(p, d) ==
    IF \E card \in d.rows : SideQuote(p.bid[card]) = None THEN None
    ELSE SumFunction([card \in d.rows |-> p.bid[card].price])

\* The ages of the quotes an alternative was priced with (its deadline).
Ages(p, source, d) ==
    {p.bid[source].age} \union {p.ask[card].age : card \in d.rows}
      \union (IF PatientReceipt(p, source) = None THEN {} ELSE {p.ask[source].age})
      \union (IF PatientPurchase(p, d) = None THEN {} ELSE {p.bid[card].age : card \in d.rows})

Alternative(p, source, d) ==
    LET receipt == PatientReceipt(p, source)
        purchase == PatientPurchase(p, d)
    IN  [source |-> source, destination |-> d, foregone |-> Foregone(p, source),
         net |-> Receipt(p, source) - d.cost,
         patient |-> IF receipt = None \/ purchase = None THEN None ELSE receipt - purchase,
         oldest |-> Max(Ages(p, source, d))]

AlternativeRank(a) == <<-a.net, a.foregone - BadgeXp, GameOf(a.source), a.source,
                        a.destination.game>>

\* What one source may be exchanged for; buying the sold card back is no exchange.
Exchanges(p, source) == {d \in Destinations(p, source) : d.rows # {source}}

\* Fault: the prefixes keep the order of the funded swaps.
AlternativesByAge(p) ==
    First(MaxAlternatives,
          UNION {{Alternative(p, source, d) :
                    d \in Prefix(MaxAlternatives, Exchanges(p, source))} :
                 source \in Sources(p)},
          AlternativeRank)

\* _exchange_alternatives: each source adds its first destinations to a bounded
\* heap of which the worst is dropped.
Alternatives(p) ==
    First(MaxAlternatives,
          UNION {{Alternative(p, source, d) :
                    d \in FallbackPrefix(MaxAlternatives, Exchanges(p, source))} :
                 source \in Sources(p)},
          AlternativeRank)
-----------------------------------------------------------------------------
\* The deadline of an answer that rests on quotes of these ages.
ValidUntil(p, ages) ==
    Min({InventoryWindow - p.inventoryAge, QuoteWindow - p.catalogAge}
          \union {QuoteWindow - age : age \in ages})

\* optimize_level_up
Optimize(p) ==
    LET swaps == Swaps(p)
        best == Recommended(swaps)
        offers == Alternatives(p)
    IN  CASE p.inventoryAge \notin 0..InventoryWindow ->
               [status |-> "error", reason |-> "inventory_snapshot_too_old"]
          [] p.inventoryAge \in 0..InventoryWindow /\ p.catalogAge > QuoteWindow ->
               [status |-> "error", reason |-> "price_generation_stale"]
          [] p.inventoryAge \in 0..InventoryWindow /\ p.catalogAge < 0 ->
               [status |-> "error", reason |-> "price_generation_unavailable"]
          [] OTHER ->
               IF swaps # {}
               THEN [status |-> "ready", reason |-> "ready", swap |-> best,
                     validUntil |-> ValidUntil(p, {best.oldest}),
                     player |-> Projection(p.xp, best.funded)]
               ELSE [status |-> "no_opportunity", alternatives |-> offers,
                     reason |-> IF Sources(p) = {} THEN "no_sellable_card"
                                ELSE "no_positive_xp_swap",
                     validUntil |-> IF offers = {} THEN None
                                    ELSE ValidUntil(p, {a.oldest : a \in offers})]
LevelUpInit == problem \in Problems /\ answer = None

Answer == answer = None /\ answer' = Optimize(problem) /\ UNCHANGED problem

LevelUpSpec == LevelUpInit /\ [][Answer]_levelUpVars
-----------------------------------------------------------------------------
\* Badges that can be crafted from holdings, over all games.
Badges(p, held) == SumFunction([g \in Games |-> Craftable(p, g, held)])

\* The holdings once a source is sold and the missing cards of some games bought.
Swapped(p, source, games) ==
    LET held == Left(p, source)
    IN  [card \in Cards |-> IF held[card] = 0 /\ GameOf(card) \in games THEN 1 ELSE held[card]]

\* What has to be bought for that, and whether a sale pays for it.
Bought(p, source, games) ==
    {card \in Cards : Left(p, source)[card] = 0 /\ GameOf(card) \in games}

Pays(p, source, games) ==
    /\ \A g \in games : p.level[g] < 5
    /\ \A card \in Bought(p, source, games) : SideQuote(p.ask[card]) # None
    /\ SumFunction([card \in Bought(p, source, games) |-> p.ask[card].price])
         <= Receipt(p, source)

\* The experience gained by selling a card and buying those cards, in badges that
\* are craftable afterwards but were not before.
Gain(p, source, games) ==
    (Badges(p, Swapped(p, source, games)) - Badges(p, Left(p, None))) * BadgeXp

\* The promised advantage is real: after selling the source and buying exactly the
\* rows, that many more points can be crafted than before, the receipt covers
\* the purchases, and the answer expires with the first quote it rests on.
AdvantageReal ==
    answer # None /\ answer.status = "ready" =>
        LET p == problem
            s == answer.swap
            games == {d.game : d \in s.destinations}
        IN  /\ s.advantage = Gain(p, s.source, games) /\ s.advantage > 0
            /\ Pays(p, s.source, games)
            /\ UNION {d.rows : d \in s.destinations} = Bought(p, s.source, games)
            /\ answer.validUntil >= 0
            /\ \A age \in {p.bid[s.source].age}
                            \union {p.ask[card].age : card \in Bought(p, s.source, games)} :
                   answer.validUntil + age <= QuoteWindow

\* No sale of one card with any choice of up to MaxDestinations badges gains more
\* than the recommendation, nothing gains when there is none, and the answer says
\* it is limited exactly when the source pays for one badge more.
BestSwap ==
    LET p == problem
        upTo(n) == {games \in SUBSET Games : Cardinality(games) <= n}
        incomplete(source) ==
            {g \in Games : \E card \in CardsOf[g] : Left(p, source)[card] = 0}
    IN  answer # None =>
        /\ answer.status = "ready" =>
             /\ \A source \in Sources(p), games \in upTo(MaxDestinations) :
                    Pays(p, source, games) => Gain(p, source, games) <= answer.swap.advantage
             /\ answer.swap.limited <=>
                    \E games \in SUBSET incomplete(answer.swap.source) :
                        /\ Cardinality(games) = MaxDestinations + 1
                        /\ Pays(p, answer.swap.source, games)
        /\ answer.status = "no_opportunity" =>
             \A source \in Sources(p), games \in upTo(MaxDestinations) :
                 Pays(p, source, games) => Gain(p, source, games) <= 0

\* The alternatives are the best of all pairs of a sale and a badge, in the order
\* of instant result and foregone points: none was lost in a source's prefix.
AlternativesBest ==
    answer # None /\ answer.status = "no_opportunity" =>
        LET p == problem
            all == UNION {{Alternative(p, source, d) : d \in Exchanges(p, source)} :
                            source \in Sources(p)}
        IN  /\ \A a \in answer.alternatives, b \in all \ answer.alternatives :
                   Before(AlternativeRank(a), AlternativeRank(b))
            /\ Cardinality(answer.alternatives) = Min({MaxAlternatives, Cardinality(all)})
            /\ \A a \in answer.alternatives :
                   a.net = Receipt(p, a.source) - a.destination.cost
                     /\ answer.validUntil <= QuoteWindow - a.oldest
=============================================================================
