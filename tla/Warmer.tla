------------------------------- MODULE Warmer -------------------------------
(***************************************************************************)
(* GemPricingService and BoosterPricingService with their caches: resolve  *)
(* answers from SQLite and queues what is missing or stale, and one worker *)
(* per service looks the queue up at Steam Community through the limiter   *)
(* they share.  The cache outlives the process; the queue does not.        *)
(***************************************************************************)
EXTENDS CommunityLimiter

CONSTANTS
    KeysOf,    \* KeysOf[w]: gem keys, or game app ids: numbers, asked in their order
    MinOpen,   \* MIN_CIRCUIT_OPEN_SECONDS
    MaxRetry,  \* MAX_RETRY_AFTER_SECONDS
    Hints,     \* what a 429 says in Retry-After: numbers, or NoHint
    NoHint, NoKey

ASSUME WarmerAssumption ==
    /\ KeysOf \in [Workers -> SUBSET Nat]
    /\ \A w \in Workers : IsFiniteSet(KeysOf[w])
    /\ NoKey \notin Nat
    /\ MinOpen \in 0..MaxCircuit /\ MaxRetry \in 0..MaxCircuit
    /\ Hints \subseteq (0..MaxRetry) \union {NoHint}
    /\ NoHint \notin Nat

VARIABLES
    worker,      \* worker[w]: _worker_task and the item it processes
    queue,       \* queue[w]: _queue
    scheduled,   \* scheduled[w]: _scheduled
    nap,         \* nap[w]: time until _rate_limited_until, also the retry sleep
    cache        \* cache[w][k]: the row of k in w's table

warmerVars == <<worker, queue, scheduled, nap, cache>>
vars == <<limiterVars, warmerVars>>
-----------------------------------------------------------------------------
Keys == UNION Range(KeysOf)

Missing == [status |-> "none", fresh |-> FALSE]
Row == [status : {"positive", "negative"}, fresh : BOOLEAN] \union {Missing}
Caches == {c \in [Workers -> UNION {[KeysOf[w] -> Row] : w \in Workers}] :
              \A w \in Workers : c[w] \in [KeysOf[w] -> Row]}

Off == [pc |-> "off", key |-> NoKey, stage |-> 0]
Idle == [pc |-> "idle", key |-> NoKey, stage |-> 0]
Looking(k, s) == [pc |-> "busy", key |-> k, stage |-> s]
Dozing(k) == [pc |-> "asleep", key |-> k, stage |-> 0]

\* A gem lookup reads the listing, then the value; a booster lookup is one search.
Stages(w) == IF w = "gem" THEN 2 ELSE 1

TypeOK ==
    /\ LimiterTypeOK
    /\ worker \in [Workers -> [pc : {"off", "idle", "busy", "asleep"},
                               key : Keys \union {NoKey}, stage : 0..2]]
    /\ queue \in [Workers -> Seq(Keys)]
    /\ scheduled \in [Workers -> SUBSET Keys]
    /\ nap \in [Workers -> 0..MaxRetry]
    /\ cache \in Caches

\* The application starts with whatever earlier runs left in the file.
Init ==
    /\ LimiterInit
    /\ worker = [w \in Workers |-> Off]
    /\ queue = [w \in Workers |-> <<>>]
    /\ scheduled = [w \in Workers |-> {}]
    /\ nap = [w \in Workers |-> 0]
    /\ cache \in Caches
-----------------------------------------------------------------------------
Start(w) ==
    /\ worker[w].pc = "off"
    /\ worker' = [worker EXCEPT ![w] = Idle]
    /\ UNCHANGED <<limiterVars, queue, scheduled, nap, cache>>

\* Shutdown, or a crash: the worker is cancelled wherever it is.
Stop(w) ==
    /\ worker[w].pc # "off"
    /\ worker' = [worker EXCEPT ![w] = Off]
    /\ queue' = [queue EXCEPT ![w] = <<>>]
    /\ scheduled' = [scheduled EXCEPT ![w] = {}]
    /\ nap' = [nap EXCEPT ![w] = 0]
    /\ Leave(w)
    /\ UNCHANGED <<pause, gap, circuit, throttled, cache>>

\* What resolve asks the worker for: keys without a fresh row.  A gem key comes
\* with a market hash name when the inventory has one (K minus nameless); a stale
\* positive row remembers its own.  A failed read finds no rows at all.
Wanted(w, K, nameless, rows) ==
    {k \in K : ~rows[k].fresh /\ (k \notin nameless \/ rows[k].status = "positive")}

\* Fault: only keys still in the queue count as asked for.
UnqueuedOnly(w, K) == K \ Range(queue[w])

Unasked(w, K) == K \ scheduled[w]

\* The keys of K in their order, each once.
InOrder(K) == {s \in SetToSeqs(K) : \A i, j \in DOMAIN s : i < j => s[i] < s[j]}

Resolve(w, K) ==
    \E nameless \in IF w = "gem" THEN SUBSET K ELSE {{}},
       rows \in {cache[w], [k \in K |-> Missing]} :
        LET new == Unasked(w, Wanted(w, K, nameless, rows))
        IN  /\ new # {}
            /\ worker' = [worker EXCEPT ![w] = IF @.pc = "off" THEN Idle ELSE @]
            /\ \E asked \in InOrder(new) : queue' = [queue EXCEPT ![w] = @ \o asked]
            /\ scheduled' = [scheduled EXCEPT ![w] = @ \union new]
            /\ UNCHANGED <<limiterVars, nap, cache>>
-----------------------------------------------------------------------------
\* queue.get() returns and the lookup goes to the limiter.
Take(w) ==
    /\ worker[w].pc = "idle" /\ queue[w] # <<>>
    /\ worker' = [worker EXCEPT ![w] = Looking(Head(queue[w]), 1)]
    /\ queue' = [queue EXCEPT ![w] = Tail(@)]
    /\ Join(w)
    /\ UNCHANGED <<pause, gap, circuit, throttled, scheduled, nap, cache>>

\* The lookup is rate limited: the worker keeps the key and sleeps.
RetryDelay(retry) ==
    LET longer == IF retry > MinOpen THEN retry ELSE MinOpen
    IN  IF longer < MaxRetry THEN longer ELSE MaxRetry

Doze(w, retry) ==
    /\ worker' = [worker EXCEPT ![w] = Dozing(@.key)]
    /\ nap' = [nap EXCEPT ![w] = RetryDelay(retry)]
    /\ UNCHANGED <<queue, scheduled, cache>>

Refuse(w) ==
    /\ Refused(w)
    /\ Doze(w, circuit[LimiterOf(w)])

CircuitDelay(hint) ==
    IF hint = NoHint THEN MinOpen ELSE IF hint > Interval THEN hint ELSE Interval

TooMany(w) ==
    \E hint \in Hints :
        /\ Throttle(w, CircuitDelay(hint))
        /\ Doze(w, CircuitDelay(hint))

Wake(w) ==
    /\ worker[w].pc = "asleep" /\ nap[w] = 0
    /\ worker' = [worker EXCEPT ![w] = Looking(@.key, 1)]
    /\ Join(w)
    /\ UNCHANGED <<pause, gap, circuit, throttled, queue, scheduled, nap, cache>>

\* The listing is the expected one: the gem lookup asks for the value next.
Listed(w) ==
    /\ at[w] = "wire" /\ worker[w].stage < Stages(w)
    /\ worker' = [worker EXCEPT ![w].stage = @ + 1]
    /\ JoinAgain(w)
    /\ UNCHANGED <<pause, gap, circuit, throttled, queue, scheduled, nap, cache>>

Positive == [status |-> "positive", fresh |-> TRUE]
Negative == [status |-> "negative", fresh |-> TRUE]

\* Fault: put_negative without its WHERE status = 'negative'.
PutAnyway(row, outcome) == IF outcome = "found" THEN Positive ELSE Negative

\* put_positive and put_negative.
Put(row, outcome) ==
    IF outcome = "negative" /\ row.status = "positive" THEN row ELSE PutAnyway(row, outcome)

\* What an answer other than a 429 means.  A gem lookup that fails is recorded as
\* a negative; a booster lookup only when the search says there is no such set.
Outcomes(w) ==
    {"negative"} \union (IF worker[w].stage = Stages(w) THEN {"found"} ELSE {})
                 \union (IF w = "booster" THEN {"inconclusive"} ELSE {})

\* The key is done, whether or not its row could be written.
FinishWith(w, left) ==
    /\ at[w] = "wire"
    /\ \E outcome \in Outcomes(w), stored \in BOOLEAN :
          cache' = IF stored /\ outcome # "inconclusive"
                   THEN [cache EXCEPT ![w][worker[w].key] = Put(@, outcome)]
                   ELSE cache
    /\ scheduled' = [scheduled EXCEPT ![w] = left]
    /\ nap' = [nap EXCEPT ![w] = 0]
    /\ worker' = [worker EXCEPT ![w] = Idle]
    /\ Leave(w)
    /\ UNCHANGED <<pause, gap, circuit, throttled, queue>>

\* Fault: the key is not discarded from _scheduled.
FinishKeeping(w) == FinishWith(w, scheduled[w])

Finish(w) == FinishWith(w, scheduled[w] \ {worker[w].key})

\* expires_at passes.
Expire(w, k) ==
    /\ cache[w][k].fresh
    /\ cache' = [cache EXCEPT ![w][k].fresh = FALSE]
    /\ UNCHANGED <<limiterVars, worker, queue, scheduled, nap>>

\* Fault: what is left of the wait goes below zero.
NapTickPast == nap' = [w \in Workers |-> nap[w] - 1]

NapTick == nap' = [w \in Workers |-> IF nap[w] > 0 THEN nap[w] - 1 ELSE 0]

Tick ==
    /\ \/ \E a \in Actors : pause[a] > 0
       \/ \E l \in Limiters : gap[l] > 0 \/ circuit[l] > 0
       \/ \E w \in Workers : nap[w] > 0
    /\ LimiterTick
    /\ NapTick
    /\ UNCHANGED <<worker, queue, scheduled, cache>>
-----------------------------------------------------------------------------
\* What the worker does by itself, and Steam Community's answers.
Work(w) ==
    \/ Take(w) \/ Refuse(w) \/ Wake(w)
    \/ (Pace(w) \/ Send(w)) /\ UNCHANGED warmerVars
    \/ TooMany(w) \/ Listed(w) \/ Finish(w)

Warm ==
    \E w \in Workers :
        \/ Start(w) \/ Stop(w) \/ Work(w)
        \/ \E K \in SUBSET KeysOf[w] : Resolve(w, K)
        \/ \E k \in KeysOf[w] : Expire(w, k)

Next == Warm \/ Tick

Spec == Init /\ [][Next]_vars

\* A worker is a task of the event loop and every request has a timeout, so its
\* steps are taken; seconds pass.  Start, Stop, Resolve and Expire may never come.
LiveSpec == Spec /\ SF_vars(Tick) /\ \A w \in Workers : WF_vars(Work(w))
-----------------------------------------------------------------------------
InHand(w) == IF worker[w].key = NoKey THEN {} ELSE {worker[w].key}

\* Safety: _scheduled names exactly the keys in the queue or in the worker's hands,
\* each of which is there once: a key is never looked up twice at a time, and none
\* is left behind that resolve would refuse to queue again.
ScheduledExactly ==
    \A w \in Workers :
        /\ scheduled[w] = Range(queue[w]) \union InHand(w)
        /\ IsInjective(queue[w]) /\ Range(queue[w]) \intersect InHand(w) = {}
        /\ worker[w].pc = "off" => scheduled[w] = {}

\* Action: a value once found is never lost to a failed lookup, a restart or a
\* failed write; a newer value replaces it.
FoundIsKept ==
    [][\A w \in Workers : \A k \in KeysOf[w] :
          cache[w][k].status = "positive" => cache'[w][k].status = "positive"]_vars

\* Liveness: whatever is queued is looked up, or discarded by a shutdown; neither
\* the other warmer nor a rate limit holds it back for ever.
QueueDrains ==
    \A w \in Workers, k \in Keys : k \in scheduled[w] ~> k \notin scheduled[w]
=============================================================================
