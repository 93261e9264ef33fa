SPECIFICATION LiveSpec
CONSTANTS
    c1 = c1
    c2 = c2
    c3 = c3
    x = x
    y = y
    Workers = {}
    Calls = {c1, c2, c3}
    Interval = 1
    MaxCircuit = 3
    MaxThrottled = 2
    Apps = {x, y}
    Donors = 2
    Capacity = 1
    Cooldown = 2
    RetryAfter = {1, 3}
    NoApp = NoApp
INVARIANTS TypeOK CacheBounded
PROPERTIES CooldownHolds WalkEnds
