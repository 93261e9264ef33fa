SPECIFICATION Spec
CONSTANTS
    MaxMinorUnits = 300
    Contracts <- MCContracts
    None = None
    Searching = Searching
    Texts <- MCTexts
    MaxXp = 7000
    MaxLevel = 30
    Games = {1, 2, 3}
    CardsOf <- MCSets
    FeeContract <- MCFeeContract
    QuoteWindow = 2
    InventoryWindow = 2
    Problems <- MCProblems
    MaxDestinations = 2
    MaxAlternatives = 2
    Requests <- MCRequests
INVARIANTS
    PriceExact
    ReceiptExact
    LevelExact
    AdvantageReal
    BestSwap
    AlternativesBest
    EnvelopeKept
    CheapestExact
    GoalTruth
    AlternativeTruth
    DashboardAgrees
\* A calculation ends with its answer.
CHECK_DEADLOCK FALSE
