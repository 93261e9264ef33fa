SPECIFICATION Spec
CONSTANTS
    c1 = c1
    x = x
    Workers = {"gem", "booster"}
    Calls = {c1}
    Interval = 1
    MaxCircuit = 3
    MaxThrottled = 1
    KeysOf <- OneEach
    MinOpen = 2
    MaxRetry = 3
    Hints = {0, 3}
    NoHint = NoHint
    NoKey = NoKey
    Apps = {x}
    Donors = 1
    Capacity = 1
    Cooldown = 2
    RetryAfter = {1}
    NoApp = NoApp
INVARIANT OneRequestAtATime
