SPECIFICATION LiveSpec
CONSTANTS
    Workers = {"gem", "booster"}
    Calls = {}
    Interval = 1
    MaxCircuit = 3
    MaxThrottled = 2
    KeysOf <- OneEach
    MinOpen = 2
    MaxRetry = 3
    Hints = {0, 3, NoHint}
    NoHint = NoHint
    NoKey = NoKey
INVARIANTS TypeOK Serialised ScheduledExactly
PROPERTIES StartsSpaced FoundIsKept QueueDrains
