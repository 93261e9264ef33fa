------------------------------ MODULE BadgePlan ------------------------------
(***************************************************************************)
(* The badge planner (badge_planner.py): what can be crafted with the      *)
(* cards that are not reserved and a budget for the missing ones.  One     *)
(* behaviour is one plan_badges call: three policies, then the two plans   *)
(* of the sale alternative, each a pass over a heap of next crafts.        *)
(***************************************************************************)
EXTENDS CardCatalog, Sequences

CONSTANT Requests  \* what plan_badges is called with, see Request below

VARIABLES
    request,   \* the call's arguments
    phase,     \* the pass that runs, "done" after the last
    heap,      \* the next craft of each game that is still open
    executed,  \* crafts taken, of each game
    spend,     \* what they cost
    blocked,   \* a craft was dropped for the budget
    passes     \* the results of the finished passes

planVars == <<request, phase, heap, executed, spend, blocked, passes>>

Policies == <<"cheapest", "fewest_purchases", "preserve_cards">>
PassNames == {"cheapest", "fewest_purchases", "preserve_cards", "replacement", "baseline"}

\* set: the catalog's set of each game, {} for none; listed and size: the games and
\* set sizes of the metadata; availability: what the server could not provide.
Request == [xp : Nat, level : [Games -> 0..5], owned : [Cards -> Nat], sellable : [Cards -> Nat],
            keep : [Cards -> Nat], neverSell : SUBSET Cards,
            bid : [Cards -> Side], ask : [Cards -> Side],
            set : [Games -> SUBSET Cards], listed : SUBSET Games,
            size : [Games -> (5..15) \union {None}],
            inventoryAge : Int, badgeAge : Int, catalogAge : Int,
            contract : BOOLEAN, availability : {None, "prices", "other"},
            mode : {"target", "budget", "collector"}, target : Nat \union {None},
            goals : UNION {[S -> 1..5] : S \in SUBSET Games}, budget : Nat,
            scope : {"inventory", "selected", "catalog"}, selected : SUBSET Games,
            excluded : SUBSET Games, compare : Games \union {None}]

-----------------------------------------------------------------------------
\* The price contract counts while the catalog is fresh and no pricing issue is
\* reported (plan_badges: context).
Priced(r) == r.contract /\ r.availability # "prices" /\ r.catalogAge \in 0..QuoteWindow - 1

\* _validated_quote: why a side can or cannot be used.
State(r, side) ==
    IF ~ Priced(r) \/ side = None THEN "missing"
    ELSE IF side.quantity < 1 THEN "missing"
    ELSE IF side.age \notin 0..QuoteWindow THEN "stale"
    ELSE IF side.price = 0 THEN "missing" ELSE "valid"

Listed(r, card) == card \in r.set[GameOf(card)]

Buyable(r, card) == Listed(r, card) /\ State(r, r.ask[card]) = "valid"

\* Fault: reserved copies are crafted with.
Owned(r, card) == r.owned[card]

\* available_quantity
Available(r, card) == AtLeast(r.owned[card] - r.keep[card], 0)

Held(r, g) == {card \in CardsOf[g] : r.owned[card] > 0}

\* The cards of a game's row: of its catalog set, and the held ones.
StockOf(r, g) == r.set[g] \union Held(r, g)

\* Whether the row knows its whole set (_build_games).
Composition(r, g) ==
    IF r.set[g] # {} THEN IF Held(r, g) \subseteq r.set[g] THEN "full" ELSE "unknown"
    ELSE IF r.size[g] = None THEN "unknown"
    ELSE IF Cardinality(Held(r, g)) = r.size[g] THEN "full"
    ELSE IF Cardinality(Held(r, g)) < r.size[g] THEN "size_only" ELSE "unknown"

\* _craftable_count
CraftableCount(r, g) ==
    IF Composition(r, g) # "full" \/ r.level[g] >= 5 THEN 0
    ELSE Min({5 - r.level[g]} \union {Available(r, card) : card \in StockOf(r, g)})

\* Fault: a reserved copy counts as if it could be crafted with.
CompletionWithReserves(r, g) ==
    LET missing == {card \in StockOf(r, g) : r.owned[card] = 0}
    IN  IF \/ Composition(r, g) # "full"
           \/ r.level[g] >= 5
           \/ \E card \in missing : ~ Buyable(r, card)
        THEN None ELSE SumFunction([card \in missing |-> r.ask[card].price])

\* _completion_cost_minor
CompletionCost(r, g) ==
    LET missing == {card \in StockOf(r, g) : Available(r, card) = 0}
    IN  IF \/ Composition(r, g) # "full"
           \/ r.level[g] >= 5
           \/ \E card \in missing : ~ Buyable(r, card)
        THEN None ELSE SumFunction([card \in missing |-> r.ask[card].price])

\* _game_status
Status(r, g) ==
    IF r.level[g] >= 5 THEN "maxed"
    ELSE IF g \in r.excluded THEN "excluded"
    ELSE IF Composition(r, g) = "unknown" THEN "unavailable"
    ELSE IF Composition(r, g) = "size_only" THEN "incomplete"
    ELSE IF CraftableCount(r, g) > 0 THEN "craftable"
    ELSE IF \A card \in StockOf(r, g) : r.owned[card] >= 1 THEN "reserved"
    ELSE "incomplete"

\* A row with one of these has a next badge, at its completion cost if that is known.
Offering(r, g) == Status(r, g) \in {"craftable", "incomplete", "reserved"}
-----------------------------------------------------------------------------
\* The games of the inventory and its metadata, and of the catalog in its scope.
Knowledge(r) ==
    r.listed \union {g \in Games : Held(r, g) # {}}
      \union (IF r.scope = "catalog" THEN {g \in Games : r.set[g] # {}} ELSE {})

\* What is refused before anything is planned (BadgePlanningOptions.validate_mode,
\* _normalize_protections, _validated_excluded_app_ids).
ASSUME RequestsAssumption ==
    \A r \in Requests :
        /\ r \in Request
        /\ (r.mode = "target") <=> (r.target # None)
        /\ (r.mode = "collector") <=> (DOMAIN r.goals # {})
        /\ (r.scope = "selected") <=> (r.selected # {})
        /\ r.excluded \subseteq Knowledge(r)
        /\ \A card \in Cards :
               r.keep[card] <= r.owned[card] /\ (card \in r.neverSell => r.owned[card] > 0)

\* A selection or goal outside what the request knows (scope_block).
ScopeBlocked(r) ==
    \/ ~ (r.selected \union DOMAIN r.goals) \subseteq Knowledge(r)
    \/ r.scope = "selected" /\ ~ (DOMAIN r.goals \subseteq r.selected)

\* _unavailable_reason, or something other than prices is missing.
SnapshotBlocked(r) ==
    ~ {r.inventoryAge, r.badgeAge} \subseteq 0..InventoryWindow \/ r.availability = "other"

InScope(r) == IF r.scope = "selected" THEN r.selected ELSE Knowledge(r)

\* _plan_eligible_stocks
Eligible(r) == IF r.mode = "collector" THEN InScope(r) \cap DOMAIN r.goals ELSE InScope(r)

\* Fault: the last, partial hundred of a target is rounded off.
NeededFloor(r) == AtLeast((MinimumXp(r.target) - r.xp) \div BadgeXp, 0)

\* The crafts a target level takes.
NeededForTarget(r) == AtLeast(-((-(MinimumXp(r.target) - r.xp)) \div BadgeXp), 0)

PerGame(r, g) == AtLeast(r.goals[g] - r.level[g], 0)

\* _plan_intent: how many crafts the mode asks for, None without a limit.
CraftsNeeded(r) ==
    CASE r.mode = "budget" -> None
      [] r.mode = "target" -> NeededForTarget(r)
      [] r.mode = "collector" -> SumFunction([g \in DOMAIN r.goals |-> PerGame(r, g)])
-----------------------------------------------------------------------------
\* What the passes differ in.
OfSale(name) == name \in {"replacement", "baseline"}

\* Fault: the sold set's game crafts on with what it has left.
StocksWithSource(r, name) ==
    IF OfSale(name) THEN InScope(r) ELSE Eligible(r)

Stocks(r, name) ==
    CASE name = "replacement" -> InScope(r) \ {r.compare}
      [] name = "baseline" -> InScope(r)
      [] OTHER -> Eligible(r)

Proceeds(r) ==
    SumFunction([card \in StockOf(r, r.compare) |->
                    SellerReceipt(r.bid[card].price, FeeContract)])

Budget(r, name) ==
    CASE name = "replacement" -> Proceeds(r) [] name = "baseline" -> 0 [] OTHER -> r.budget

Needed(r, name) == IF OfSale(name) THEN None ELSE CraftsNeeded(r)

\* _game_marginals: how many crafts of a game a pass may take at most.
Length(r, name, g) ==
    IF \/ g \in r.excluded
       \/ Composition(r, g) # "full"
       \/ r.level[g] >= 5
       \/ StockOf(r, g) = {}
       \/ g \notin Stocks(r, name)
    THEN 0
    ELSE Min({5 - r.level[g]}
               \union (IF r.mode = "collector" /\ ~ OfSale(name) THEN {PerGame(r, g)} ELSE {})
               \union {Available(r, card) + (IF Buyable(r, card) THEN r.ask[card].quantity ELSE 0) :
                         card \in StockOf(r, g)})

\* The j-th craft of a game: what is bought for it, what it costs, what it uses.
BoughtFor(r, g, j) == {card \in StockOf(r, g) : j > Available(r, card)}

CostOf(r, g, j) == SumFunction([card \in BoughtFor(r, g, j) |-> r.ask[card].price])

UsedBy(r, g, j) == Cardinality(StockOf(r, g) \ BoughtFor(r, g, j))

\* _marginal_priority, with the game that breaks ties
Priority(r, name, x) ==
    CASE name = "fewest_purchases" ->
           <<Cardinality(BoughtFor(r, x.game, x.craft)), CostOf(r, x.game, x.craft), x.game>>
      [] name = "preserve_cards" ->
           <<UsedBy(r, x.game, x.craft), CostOf(r, x.game, x.craft), x.game>>
      [] OTHER -> <<CostOf(r, x.game, x.craft), x.game>>

FirstCrafts(r, name) == {[game |-> g, craft |-> 1] : g \in {h \in Games : Length(r, name, h) > 0}}

Sum(e) == SumFunction(e)
-----------------------------------------------------------------------------
\* _build_opportunity: exactly one complete, unreserved, marketable set with bids.
SaleReady(r) ==
    /\ r.compare # None
    /\ r.compare \in Knowledge(r) \ r.excluded
    /\ Composition(r, r.compare) = "full"
    /\ r.level[r.compare] < 5
    /\ \A card \in StockOf(r, r.compare) :
           /\ r.owned[card] >= 1 /\ card \notin r.neverSell
           /\ Available(r, card) >= 1 /\ r.sellable[card] >= 1
           /\ Listed(r, card) /\ State(r, r.bid[card]) = "valid"
           /\ SellerReceipt(r.bid[card].price, FeeContract) # None

\* _purchase_quote_block_reason: the first eligible game that could be bought
\* ends the search, otherwise a stale quote names the reason.
Candidates(r) ==
    {g \in Eligible(r) \ r.excluded :
        /\ Composition(r, g) = "full" /\ r.level[g] < 5
        /\ \E card \in StockOf(r, g) : Available(r, card) = 0}

Missing(r, g) == {card \in StockOf(r, g) : Available(r, card) = 0}

QuoteBlocked(r) ==
    /\ Candidates(r) # {}
    /\ \A g \in Candidates(r) : \E card \in Missing(r, g) : ~ Buyable(r, card)

\* Without a single craft, prices that are missing are named instead.
NothingToShow(r, p) ==
    /\ \A i \in DOMAIN Policies : Sum(p[Policies[i]].executed) = 0
    /\ CraftsNeeded(r) # 0
    /\ QuoteBlocked(r)

\* The pass after one, given the results so far.
NextPhase(r, name, p) ==
    CASE name = "cheapest" -> "fewest_purchases"
      [] name = "fewest_purchases" -> "preserve_cards"
      [] name = "preserve_cards" ->
           IF NothingToShow(r, p) \/ ~ SaleReady(r) THEN "done" ELSE "replacement"
      [] name = "replacement" -> "baseline"
      [] name = "baseline" -> "done"

Begun(name) ==
    /\ phase' = name
    /\ heap' = IF name = "done" THEN {} ELSE FirstCrafts(request, name)
    /\ executed' = [g \in Games |-> 0]
    /\ spend' = 0
    /\ blocked' = FALSE

PlanInit ==
    /\ request \in Requests
    /\ phase = IF ScopeBlocked(request) \/ SnapshotBlocked(request) THEN "done" ELSE "cheapest"
    /\ heap = IF phase = "done" THEN {} ELSE FirstCrafts(request, phase)
    /\ executed = [g \in Games |-> 0]
    /\ spend = 0
    /\ blocked = FALSE
    /\ passes = [name \in PassNames |-> None]

\* while heap and (crafts_needed is None or total_executed < crafts_needed)
Open == heap # {} /\ (Needed(request, phase) # None => Sum(executed) < Needed(request, phase))

\* heapq.heappop
Popped ==
    CHOOSE x \in heap : \A y \in heap \ {x} :
        Before(Priority(request, phase, x), Priority(request, phase, y))

\* A craft the budget does not allow closes its game.
Drop ==
    /\ Open
    /\ LET x == Popped
       IN  /\ spend + CostOf(request, x.game, x.craft) > Budget(request, phase)
           /\ heap' = heap \ {x}
           /\ blocked' = TRUE
    /\ UNCHANGED <<request, phase, executed, spend, passes>>

\* Fault: a game's further crafts are not put on the heap.
CraftOnce ==
    /\ Open
    /\ LET x == Popped
           cost == CostOf(request, x.game, x.craft)
       IN  /\ spend + cost <= Budget(request, phase)
           /\ executed' = [executed EXCEPT ![x.game] = x.craft]
           /\ spend' = spend + cost
           /\ heap' = heap \ {x}
    /\ UNCHANGED <<request, phase, blocked, passes>>

\* Executing a craft makes the game's next one available.
Craft ==
    /\ Open
    /\ LET x == Popped
           cost == CostOf(request, x.game, x.craft)
       IN  /\ spend + cost <= Budget(request, phase)
           /\ executed' = [executed EXCEPT ![x.game] = x.craft]
           /\ spend' = spend + cost
           /\ heap' = (heap \ {x})
                \union (IF x.craft < Length(request, phase, x.game)
                        THEN {[x EXCEPT !.craft = @ + 1]} ELSE {})
    /\ UNCHANGED <<request, phase, blocked, passes>>

\* The pass ends; its result is kept and the next pass starts from nothing.
Close ==
    /\ phase # "done"
    /\ ~ Open
    /\ passes' = [passes EXCEPT ![phase] =
                    [executed |-> executed, spend |-> spend, blocked |-> blocked]]
    /\ Begun(NextPhase(request, phase, passes'))
    /\ UNCHANGED request

PlanNext == Craft \/ Drop \/ Close

PlanSpec == PlanInit /\ [][PlanNext]_planVars
-----------------------------------------------------------------------------
\* What the steps of a plan add up to: every card's purchases at its price.
StepSpend(r, e) ==
    SumFunction([g \in Games |->
        SumFunction([card \in StockOf(r, g) |->
            IF e[g] > Available(r, card)
            THEN (e[g] - Available(r, card)) * r.ask[card].price ELSE 0])])

\* A pass's crafts stay in the envelope of the request.
Sound(r, name, e, s) ==
    /\ s = StepSpend(r, e) /\ s <= Budget(r, name)
    /\ Needed(r, name) # None => Sum(e) <= Needed(r, name)
    /\ \A g \in Games : e[g] > 0 =>
         /\ g \in InScope(r) \ r.excluded
         /\ r.level[g] + e[g] <= IF r.mode = "collector" /\ ~ OfSale(name) THEN r.goals[g]
                                 ELSE 5
         /\ \A card \in StockOf(r, g) :
                e[g] > r.owned[card] - r.keep[card] =>
                    /\ Buyable(r, card)
                    /\ e[g] <= r.owned[card] - r.keep[card] + r.ask[card].quantity

\* At every step of a pass, and in every plan: what the grouped purchases cost is
\* what the heap charged, it stays within the budget, no reserved copy is used, no
\* ask is bought deeper than it is, and no level or goal is crafted past.
EnvelopeKept ==
    /\ phase # "done" => Sound(request, phase, executed, spend)
    /\ \A name \in PassNames : passes[name] # None =>
           Sound(request, name, passes[name].executed, passes[name].spend)

\* The crafts a pass may choose among.
Allowed(r, name) ==
    LET most == [g \in Games |-> Length(r, name, g)]
    IN  {e \in [Games -> 0..5] :
            /\ \A g \in Games : e[g] <= most[g]
            /\ Needed(r, name) # None => Sum(e) <= Needed(r, name)
            /\ StepSpend(r, e) <= Budget(r, name)}

\* The cheapest policy is exact: no choice of crafts within the same limits has
\* more of them, and none has as many for less.
CheapestExact ==
    phase = "done" =>
        \A name \in {"cheapest", "replacement", "baseline"} : passes[name] # None =>
            \A e \in Allowed(request, name) :
                \/ Sum(e) < Sum(passes[name].executed)
                \/ /\ Sum(e) = Sum(passes[name].executed)
                   /\ StepSpend(request, e) >= passes[name].spend

Finished == phase = "done" /\ passes["preserve_cards"] # None

\* _collector_outcome and _build_plan: the status of a policy's plan.
MissingCrafts(r, e) == SumFunction([g \in DOMAIN r.goals |-> AtLeast(PerGame(r, g) - e[g], 0)])

PlanStatus(r, e) ==
    IF r.mode = "budget" THEN IF Sum(e) = 0 THEN "no_opportunity" ELSE "ready"
    ELSE IF CraftsNeeded(r) <= 0 THEN "no_opportunity"
    ELSE IF \/ r.mode = "target" /\ Sum(e) >= CraftsNeeded(r)
            \/ r.mode = "collector" /\ MissingCrafts(r, e) = 0 THEN "ready"
    ELSE IF Sum(e) > 0 THEN "partial" ELSE "no_opportunity"

\* Whether the player, or every game of the collector, is where the goal is.
AtGoal(r, e) ==
    IF r.mode = "target" THEN LevelForXp(r.xp + BadgeXp * Sum(e)) >= r.target
    ELSE \A g \in DOMAIN r.goals : r.level[g] + e[g] >= r.goals[g]

\* A plan is ready exactly when its crafts reach a goal not yet met, and when the
\* cheapest plan is not, no affordable choice of crafts reaches the goal.
GoalTruth ==
    Finished /\ request.mode # "budget" =>
        LET none == [g \in Games |-> 0]
            status(i) == PlanStatus(request, passes[Policies[i]].executed)
        IN  /\ \A i \in DOMAIN Policies :
                 status(i) = "ready" <=> /\ AtGoal(request, passes[Policies[i]].executed)
                                         /\ ~ AtGoal(request, none)
            /\ status(1) # "ready" /\ ~ AtGoal(request, none) =>
                 \A e \in Allowed(request, "cheapest") : ~ AtGoal(request, e)

\* The sale alternative sells a set it may sell and keeps every reserve; its
\* additional points are those of the best plan outside the sold game for the
\* receipts, less all that could be crafted for nothing.
AlternativeTruth ==
    passes["baseline"] # None =>
        LET r == request
            kept == {e \in [Games -> 0..5] :
                        /\ e[r.compare] = 0
                        /\ \A g \in Games : e[g] <= Length(r, "baseline", g)
                        /\ StepSpend(r, e) <= Proceeds(r)}
            free == [g \in Games |-> IF g \in InScope(r) /\ Status(r, g) = "craftable"
                                     THEN CraftableCount(r, g) ELSE 0]
        IN  /\ \A card \in r.set[r.compare] :
                 card \notin r.neverSell /\ r.owned[card] - 1 >= r.keep[card]
            /\ Sum(passes["replacement"].executed) - Sum(passes["baseline"].executed)
                 = Max({Sum(e) : e \in kept}) - Sum(free)

\* Under a budget alone the dashboard and the cheapest plan, computed apart from each
\* other, agree about each row in scope. What a row counts as craftable is in the plan. A
\* next badge that a row prices is left out only when the rest of the budget does not pay
\* for it, and only for crafts that cost no more. And the plan crafts a badge only where
\* the row offers it, its first one at the row's price.
DashboardAgrees ==
    Finished /\ request.mode = "budget" =>
        \A g \in InScope(request) :
            LET plan == passes["cheapest"]
                cost == CompletionCost(request, g)
            IN  /\ Status(request, g) = "craftable" =>
                       plan.executed[g] >= CraftableCount(request, g)
                /\ Offering(request, g) /\ cost # None /\ plan.executed[g] = 0 =>
                       /\ plan.spend + cost > request.budget
                       /\ \A h \in Games : plan.executed[h] > 0 =>
                              CostOf(request, h, plan.executed[h]) <= cost
                /\ plan.executed[g] > 0 =>
                       Offering(request, g) /\ cost = CostOf(request, g, 1)
=============================================================================
