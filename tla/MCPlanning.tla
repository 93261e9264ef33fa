------------------------------ MODULE MCPlanning ------------------------------
(***************************************************************************)
(* The planning arithmetic on small instances: quotes, projections,        *)
(* level-up swaps and badge plans.  The four calculations share nothing,   *)
(* so one behaviour runs one of them while the others rest.                *)
(***************************************************************************)
EXTENDS FeeSearch, PlayerLevel, LevelUp, BadgePlan, TLC

MCSets == (1 :> 11..15) @@ (2 :> 21..25) @@ (3 :> 31..35)

Standard == [steam |-> 500, publisher |-> 1000, minimum |-> 1, minorDigits |-> 2]
Steep == [steam |-> 2500, publisher |-> 5000, minimum |-> 1, minorDigits |-> 1]
MCContracts == {Standard, Steep, [Standard EXCEPT !.minimum = 3, !.minorDigits = 3],
                [Standard EXCEPT !.minimum = 0, !.minorDigits = 0]}
MCFeeContract == Steep

\* Up to three decimals; the third is 0 or 5.
MCTexts ==
    [whole : 0..2, fraction : {<<>>} \union [1..1 -> 0..9] \union [1..2 -> 0..9]
                                \union {<<a, 0, b>> : a \in 0..9, b \in {0, 5}}]
      \union {[whole |-> 1000, fraction |-> <<>>]}
-----------------------------------------------------------------------------
Q(price, quantity, age) == [price |-> price, quantity |-> quantity, age |-> age]

Profile(owned, sellable, bid, ask) ==
    [owned |-> owned, sellable |-> sellable, bid |-> bid, ask |-> ask]

SwapProfiles ==
    {Profile(0, 0, None, Q(1, 1, 0)), Profile(0, 0, Q(3, 1, 0), Q(5, 1, 0)),
     Profile(0, 0, None, Q(5, 1, 1)), Profile(0, 0, None, Q(1, 1, 3)),
     Profile(1, 1, Q(7, 1, 1), Q(4, 1, 0)), Profile(1, 1, Q(11, 1, 0), Q(3, 1, 0)),
     Profile(2, 1, Q(10, 1, 0), Q(14, 1, 1))}

\* The cards that vary; the others are held in plenty.
SwapCards == {11, 12, 21, 31}

SwapProblem(l1, l2, f) ==
    LET of == [card \in Cards |-> IF card \in SwapCards THEN f[card]
                                  ELSE Profile(5, 0, None, None)]
    IN  [xp |-> 900, level |-> (1 :> l1) @@ (2 :> l2) @@ (3 :> 4),
         owned |-> [card \in Cards |-> of[card].owned],
         sellable |-> [card \in Cards |-> of[card].sellable],
         bid |-> [card \in Cards |-> of[card].bid], ask |-> [card \in Cards |-> of[card].ask],
         inventoryAge |-> 0, catalogAge |-> 0]

Swappable == {SwapProblem(l1, 0, f) : l1 \in {0, 4}, f \in [SwapCards -> SwapProfiles]}

AnySwap == SwapProblem(0, 5, [card \in SwapCards |-> Profile(1, 1, Q(11, 1, 0), Q(3, 1, 0))])

MCProblems ==
    Swappable \union {AnySwap}
      \union {[AnySwap EXCEPT !.inventoryAge = a, !.catalogAge = b] : a \in {-1, 2, 3}, b \in {-1, 1, 3}}
-----------------------------------------------------------------------------
Holding(owned, sellable, keep, neverSell, bid, ask) ==
    [owned |-> owned, sellable |-> sellable, keep |-> keep, neverSell |-> neverSell,
     bid |-> bid, ask |-> ask]

Plenty == Holding(5, 5, 0, FALSE, Q(7, 1, 0), None)
Absent == Holding(0, 0, 0, FALSE, None, Q(1, 1, 0))

PlanHoldings ==
    {Holding(0, 0, 0, FALSE, None, Q(3, 2, 0)), Holding(0, 0, 0, FALSE, Q(3, 1, 0), Q(1, 1, 3)),
     Holding(1, 1, 0, FALSE, Q(11, 1, 1), Q(4, 1, 0)),
     Holding(2, 1, 1, FALSE, Q(10, 1, 0), Q(3, 1, 0)), Holding(3, 2, 0, TRUE, Q(7, 1, 0), None)}

PlanCards == {11, 21, 31}

\* The request for holdings f, in the mode and scope of options o.
PlanRequest(f, o) ==
    LET of == [card \in Cards |-> IF card \in PlanCards THEN f[card] ELSE Plenty]
    IN  o @@ [xp |-> 250, level |-> (1 :> 1) @@ (2 :> 4) @@ (3 :> 2),
              owned |-> [card \in Cards |-> of[card].owned],
              sellable |-> [card \in Cards |-> of[card].sellable],
              keep |-> [card \in Cards |-> of[card].keep],
              neverSell |-> {card \in Cards : of[card].neverSell},
              bid |-> [card \in Cards |-> of[card].bid], ask |-> [card \in Cards |-> of[card].ask],
              set |-> MCSets, listed |-> {}, size |-> [g \in Games |-> None],
              inventoryAge |-> 0, badgeAge |-> 0, catalogAge |-> 0,
              contract |-> TRUE, availability |-> None,
              mode |-> "budget", target |-> None, goals |-> <<>>, budget |-> 7,
              scope |-> "inventory", selected |-> {}, excluded |-> {}, compare |-> None]

Goals == {(1 :> 1) @@ (2 :> 5) @@ (3 :> 3), (1 :> 3) @@ (3 :> 4), 3 :> 5}

Modes == {[mode |-> "budget"]} \union {[mode |-> "collector", goals |-> goals] : goals \in Goals}
           \union {[mode |-> "target", target |-> target] : target \in {2, 4, 6}}

Money == {[budget |-> 0, compare |-> None], [budget |-> 7, compare |-> 1],
          [budget |-> 14, compare |-> 3]}

\* What else a request may say, and what the server may know of a game.
Scopes == {[scope |-> "inventory"], [scope |-> "catalog"],
           [scope |-> "selected", selected |-> {1, 2}], [scope |-> "selected", selected |-> {3}]}

Circumstances ==
    {[catalogAge |-> 2], [contract |-> FALSE], [availability |-> "prices"],
     [availability |-> "other"], [badgeAge |-> 3], [excluded |-> {1}],
     [set |-> [MCSets EXCEPT ![2] = {}], size |-> [g \in Games |-> IF g = 2 THEN 5 ELSE None],
      listed |-> {2}],
     [set |-> [MCSets EXCEPT ![2] = {}]], [set |-> [MCSets EXCEPT ![1] = 12..15]]}

\* Game 3 is not held at all.
Unheld(r) ==
    [r EXCEPT !.owned = [card \in Cards |-> IF card \in MCSets[3] THEN 0 ELSE @[card]],
              !.sellable = [card \in Cards |-> IF card \in MCSets[3] THEN 0 ELSE @[card]],
              !.keep = [card \in Cards |-> IF card \in MCSets[3] THEN 0 ELSE @[card]],
              !.neverSell = @ \ MCSets[3],
              !.ask = [card \in Cards |-> IF card \in MCSets[3] THEN Absent.ask ELSE @[card]]]

Few == {Holding(0, 0, 0, FALSE, None, Q(3, 2, 0)), Holding(1, 1, 0, FALSE, Q(11, 1, 1), Q(4, 1, 0)),
        Holding(1, 1, 1, FALSE, Q(7, 1, 0), None)}

MCRequests ==
    {PlanRequest(f, mode @@ money) :
        f \in [PlanCards -> PlanHoldings], mode \in Modes, money \in Money}
      \union {PlanRequest(f, mode @@ circumstance @@ [compare |-> 1]) :
                f \in [PlanCards -> Few], mode \in Modes, circumstance \in Circumstances}
      \union UNION {{r, Unheld(r)} : r \in
                {PlanRequest(f, mode @@ scope @@ [compare |-> 1]) :
                   f \in [PlanCards -> Few], mode \in Modes, scope \in Scopes}}

AnyRequest == PlanRequest([card \in PlanCards |-> Plenty], [badgeAge |-> 3])
-----------------------------------------------------------------------------
Rest == [AnySwap EXCEPT !.inventoryAge = 3, !.catalogAge = 3]
RestAnswer == Optimize(Rest)

NoQuote ==
    /\ contract = Standard
    /\ text = [whole |-> 1000, fraction |-> <<>>]
    /\ total = None /\ receipt = None /\ low = 0 /\ high = 0

\* The last points of the highest level: nothing more is projected.
NoProjection == player = Projection(MinimumXp(MaxLevel + 1) - 1, 0)

NoSwap == problem = Rest /\ answer = RestAnswer

NoPlan ==
    /\ request = AnyRequest
    /\ phase = "done"
    /\ heap = {}
    /\ executed = [g \in Games |-> 0]
    /\ spend = 0
    /\ blocked = FALSE
    /\ passes = [name \in PassNames |-> None]

Init ==
    \/ FeeInit /\ NoProjection /\ NoSwap /\ NoPlan
    \/ NoQuote /\ XpInit /\ NoSwap /\ NoPlan
    \/ NoQuote /\ NoProjection /\ LevelUpInit /\ NoPlan
    \/ NoQuote /\ NoProjection /\ NoSwap /\ PlanInit

Next ==
    \/ FeeNext /\ UNCHANGED <<player, levelUpVars, planVars>>
    \/ CraftBadges /\ UNCHANGED <<feeVars, levelUpVars, planVars>>
    \/ Answer /\ UNCHANGED <<feeVars, player, planVars>>
    \/ PlanNext /\ UNCHANGED <<feeVars, player, levelUpVars>>

Spec == Init /\ [][Next]_<<feeVars, player, levelUpVars, planVars>>
=============================================================================
