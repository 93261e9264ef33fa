SPECIFICATION Spec
CONSTANTS
    a1 = a1
    a2 = a2
    r1 = r1
    r2 = r2
    r3 = r3
    c1 = c1
    c2 = c2
    card = card
    paint = paint
    n1 = n1
    n2 = n2
    g1 = g1
    y1 = y1
    Accounts = {a1, a2}
    Requests = {r1, r2, r3}
    None = None
    Class = {card, paint}
    Described <- MCDescribed
    Cursors = {c1, c2}
    Offers <- MCOffers
    MaxPages = 2
    MaxTotal = 3
INVARIANTS SingleFlight WholeInventory StatusTruthful StopLeavesNothing ResultsNotKept
SYMMETRY Alike
