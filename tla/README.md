# Steam Ally in TLA+

Steam Ally signs a user in through Steam OpenID, shows the user's Steam
Community inventory with market prices and gem values, and plans trading-card
badges. This directory models its stateful core in TLA+, model-checks small
instances with TLC, and proves with TLAPS, for all values of the constants, every
safety property of the runs that pass: those of the price cache and its refinement of
an abstract store, of the browser session, of the warmers and the artwork service with
their limiter, of the inventory fetch, and of the badge planner and the level-up
optimizer with their levels and fees. Only liveness is left to TLC.
Paths below are relative to the repository root.

## 1. The system

| Part | State it keeps | Operations | Talks to |
|---|---|---|---|
| Price cache (`backend/src/app/steamapis_price_cache.py`) | SQLite file: price rows, set rows, one meta row (generation, age, failures, retry time) | open and migrate, read, read the catalog, begin/add/commit/abort a streamed generation, record a failure | the file, which other processes may open |
| Price refresh (`SteamApisClient` in `steam_gateway.py`) | one refresh task per client, one lock per process and file | `fetch_prices`, `schedule_price_catalog_refresh`, `_refresh_prices`, `start`, `stop` | cache, SteamApis |
| Inventory fetch (`SteamApisClient.fetch_inventory`) | one task in flight per account | paginate, join prices, gems and boosters | SteamApis, price cache, warmers |
| Gem warmer (`gem_pricing.py`) | queue, scheduled keys, worker task, SQLite rows (positive, negative with expiry), limiter circuit | `read_cached`, `resolve`, worker, start, stop | Steam Community through the limiter |
| Booster warmer (`booster_pricing.py`) | the same, in the same file | the same | the same limiter |
| Badge artwork (`badge_artwork.py`) | bounded memory cache, cooldown | resolve through donor profiles | Steam Community through a limiter of its own |
| Limiter (`SteamCommunityLimiter` in `gem_pricing.py`) | lock, time of the last start, circuit | `run` | its callers |
| Badge planner, level-up optimizer, market fees | none: pure functions | `plan_badges`, `optimize_level_up`, fee arithmetic | price catalog |
| Auth (`auth_routes.py`, `cookies.py`, `steam_openid.py`) | signed cookies in the browser, no server session | start, callback, session, inventory, gems, logout | Steam OpenID, gateway |
| Browser session (`HomePage` in `frontend/src/App.tsx`) | view, inventory state, refs: active account, request token, load promise, in-flight flags | session load, recheck, retry, inventory refresh, gem refresh, logout | routes, IndexedDB |
| Browser cache (`frontend/src/inventoryCache.ts`) | IndexedDB: records by account, cache epoch, active account | read, write with expected epoch and stamp, clear, clear except | shared by all tabs |
| Planning panels (`BadgeWorkspace`, `LevelUpOptimizationPanel`) | request tokens, retry counters, response cache | request, poll, discard late answers | planning routes |
| Plan workflow (`planWorkflow.ts`) | saved plans | save, tick off, restore | local storage |

The backend is one asyncio event loop in one process
(`docs/PROJECT_SUMMARY.md:197-200` asks for one worker); SQLite calls are
synchronous and hold the loop. The price file may nevertheless be shared by two
processes during a deployment or by mistake. In the browser every tab runs its
handlers one at a time and interleaves at `await`; tabs share IndexedDB and the
cookie.

### What makes it hard, and what must hold

* **Price cache.** A generation is streamed for minutes inside one SQLite
  transaction while readers go on, the process may be stopped or crash, another
  process may migrate or refresh the same file, and the feed may break at any
  row. The committed file must always hold one whole generation; an answer must
  come from one generation; generation numbers wrap.
* **Refresh coordination.** Many requests of several clients find the cache
  stale at once, decide, and act later. A generation is to be fetched once, the
  backoff after a failure respected, and every waiting request answered.
* **Browser session.** Answers to session, inventory and gem requests arrive
  after an account change, a logout, or another load. What is shown must belong
  to the account shown, records must hold what they are filed under, and a
  cleared cache must stay cleared.
* **Warmers.** Queue, worker, rate limit, expiry, shutdown: each key is looked up,
  once at a time, and no key stays marked as scheduled with nobody to look it up.
* **Limiter.** A coroutine decides to start after having waited for a lock and
  slept; meanwhile others start, fail, open the circuit or are cancelled.
* **Badge artwork.** Walks over donors overlap on one lock, one cache and one
  cooldown.
* **Pure algorithms.** Fee rounding, sale-funded selection and the planner's
  strategies must agree with their definitions.

## 2. Order of work

1. `PriceStore`, `PriceRefresh`: modelled, checked; `PriceRefreshProofs`.
2. `InventorySession`: modelled, checked; `InventorySessionProofs`.
3. `CommunityLimiter`, `Warmer`, `BadgeArtwork`, `Community`: modelled, checked;
   `LimiterProofs` for what the callers of the limiter share, `WarmerProofs`,
   `BadgeArtworkProofs`.
4. `MarketFees`, `FeeSearch`, `Experience`, `PlayerLevel`, `CardCatalog`, `LevelUp`,
   `BadgePlan`: modelled, checked against reference definitions; `PlanningProofs`.
5. `InventoryFetch`: modelled, checked; `InventoryFetchProofs`.

`SumLemmas` has what the proofs need of sums over finite sets, of the first elements of
a set in an order, and of induction.

## 3. Modules

### PriceStore and PriceRefresh

`PriceStore` is the promise to readers: an active generation, replaced whole in
one step, never taken away; an answer is the generation that was active when the
read looked. `PriceRefresh` implements it; the refinement mapping takes `active`
from the committed file, `view` from the snapshot of a read under way, `answer`
from what a request returned. The checked property is `StoreSpec`.

`PriceRefresh` has processes (`Hosts`), clients, and requests. State and code:

| Variable | Code |
|---|---|
| `db` | the committed SQLite file: schema state, price rows, set rows, meta row |
| `source` | history: the two feeds the installed generation came from |
| `host`, `loop` | the process, and who is inside a synchronous call on its event loop |
| `lock` | `_price_refresh_lock` |
| `writer`, `txn` | SQLite's write lock, an open `SteamApisPriceRefresh` with its batch |
| `task` | `_price_refresh_task` and the age it was created for |
| `req` | a coroutine in `fetch_prices` or reading the catalog |

A read transaction is two steps, the snapshot and the answer computed from it,
so that commits of other processes fall in between. `Start` and `Migrate` are the
two looks of `_initialize`. `Halt` is both `stop()` and a crash: in each the
transaction disappears. `Begin`, `StreamRow`, `Commit`, `FailBegin`, `FailStream`
and `RecordFailure` are `_refresh_prices_uncached`; between `FailStream` and
`RecordFailure` the code does not await, which `loop` expresses for the host and
leaves open for other hosts. `Commit` includes the unpriced rows, the last flush,
the deletion of other generations and the meta row.

Abstracted: prices are quoted or not; a row is accepted or the feed breaks;
`optimizer_complete` is always set with a generation; the deployment has its API
key; the bulk-stream semaphore adds nothing to the lock of one file.

Not modelled: archiving a corrupt file, read-only files, a file whose WAL mode
could not be set, cancellation of a single request.

### InventorySession

One module for tabs, cookie, IndexedDB and the routes a tab calls. Per tab, two
coroutines can be inside a session request or a load (`flow[t]["mount"]` for the
mount effect or Retry, `flow[t]["act"]` for Recheck or Refresh inventory), plus
one gem refresh and one logout. `tab[t].load` stands for the request token and
the load promise together: the token changes exactly when a load replaces
another, and the promise is set exactly while the current load runs.

A step is one IndexedDB transaction or one delivered response with the
synchronous code that follows it up to the next `await`. That code touches only
the tab's own state, so nothing another tab does could tell the difference.
Sending an inventory request is a step of its own, because the cookie at that
moment decides the answer. `ClearExcept`, `ReadCache`, `ReadEpoch`,
`SendInventory`, `Arrive` and `WriteCache` are the body of
`loadInventoryForUser`; each ends with a test that the load is still the current
one, and `Superseded` is what happens otherwise.

Abstracted: an inventory is named by its owner and the fetch that made it; its
`refreshed_at` by the same number, since the code compares stamps only for
equality. Private results behave like public ones. The cooldown countdown, which
only disables a button, is left out, so the model may refresh when the page
would not. The epoch is unbounded in the model (the code wraps it at
`Number.MAX_SAFE_INTEGER`). `since` is a history variable: whether the cache has
been emptied by a logout, or pruned for the account now signed in, since the last
sign-in.

`DbMayFail` lets any IndexedDB operation fail. It is FALSE where a property
speaks of cleanups, because the code accepts that a failing cleanup leaves
records behind, and TRUE for liveness.

### CommunityLimiter, Warmer, BadgeArtwork and Community

`CommunityLimiter` has the steps of `SteamCommunityLimiter.run` and no next-state
relation: its callers take them. `line[l]` is the asyncio lock of limiter `l`
with its waiters, the first being the holder; `at[a]` is where caller `a` is;
`gap` and `circuit` count down to the moments `_last_started` plus the interval
and `_circuit_until`. The code's second look at the circuit, after the pacing
sleep, is kept (`Send` and `Refused` serve both looks), though with the lock held
nobody else has a request whose answer could open the circuit meanwhile.

`Warmer` is both pricing services, which differ only in what a lookup is: two
requests for a gem value (`Listed` is what lies between them) and one for a
booster, and in what a failure means: a negative row for a gem, none for a
booster unless the answer is definitive. `worker`, `queue`, `scheduled`, `nap`
are `_worker_task`, `_queue`, `_scheduled` and `_rate_limited_until`, which also
ends the retry sleep; `cache` is the service's SQLite table, and alone survives
`Stop`. `Stop` is one step: what `resolve` queues while the cancelled task
unwinds is drained with the rest. Cancellation reaches the worker in the lock's
queue, asleep or on the wire. Reads of the cache may fail (all rows look missing)
and writes may be lost, as both are swallowed by the code. A fresh row may expire
at any time. The gateway never requires a game name of a booster, so names are
left out.

`BadgeArtwork` is one action per outcome of a donor page; `art` is the `dict` in
insertion order, whose oldest entry goes first and whose updated entries keep
their place. `Community` puts all of them on one clock.

A tick lowers every countdown by one and waits for a lock holder that is ready to
run: the event loop resumes ready coroutines within milliseconds, a tick is
seconds. `CooldownHolds` depends on it: the walks waiting behind a 429 are
refused, one after the other, before the circuit (four seconds) closes.

Not modelled: `read_cached`, which changes nothing; parsing of pages and answers;
migration and archiving of the warmers' file, which may empty it.

### InventoryFetch

`fetch_inventory` and the task behind it. `inflight` is `_inventory_inflight`;
`task[t]` is the task created by request `t`, with the locals of
`_fetch_inventory_uncached` while it runs and its answer afterwards; `waits[r]` is
the task a request awaits. A step of a task is what runs between two awaits: a page
with all its limits up to the next request, or a lookup with what its answer
leads to. A lookup with nothing to ask does not await and is passed over.

`Create`, `Join` and `JoinDone` are the three ways into `fetch_inventory`: no
entry, a running task, or a task that has ended while its callbacks are still in
the loop's queue, which answers at once. `Callback` is the client's done callback,
which asyncio runs before the waiting requests resume. `Abort` cancels a request,
not its shielded task. `Stop`, `Unwind` and `Stopped` are the parts of `stop`; no
request comes in after it has begun, because the server ends its lifespan after its
connections. `Restart` is another process. A task that neither the table nor a
request nor a callback refers to is dropped (`Reachable`), as Python drops it.

`Offers` is what the provider may answer: for each account and cursor a set of pages,
one of which it picks afresh at every request. So the pages of one read may come from
different moments of the inventory, as they may when the user trades meanwhile: the code
asks for no version and compares none. The pages together may be whole, empty, cyclic,
too long or too large, may promise more without a cursor or leave out a description.
`given` is history, the page that each request of a task was answered with, and a public
answer carries it along as `pages`; the two properties of a read speak of them. What an
answer mixes from two moments is therefore not excluded, only that a page is left out,
counted twice or unfinished.

Abstracted: all refusals but the private one are "unavailable" (429 with its
Retry-After included); byte, asset and description limits are one limit on the
total quantity; booster rows and the gems' cash context depend on their lookups
but not the other way round, and are left out of the answer.

### MarketFees, FeeSearch, Experience, PlayerLevel

`MarketFees` is the arithmetic of `market_fees.py` in minor units: two fees, each
floored and raised to a minimum, the conversion of a decimal text, and as
`SellerReceipt` what the search of `seller_receipt_from_buyer_total` promises.
`FeeSearch` is that search, a step per turn of its loop. `Experience` is
`level_for_xp` and `project_xp`; `PlayerLevel` lets a player craft badges, up to the
greatest points and the greatest level there is a projection for (the code raises beyond
them, `level_up_optimizer.py:720` and `743`; the planners' own calls near
`MAX_PLAYER_LEVEL` are not modelled).
`LevelForXp` follows the code (integer square root, then correction), its property
states the thresholds. Powers of ten are written as a recursive function (`TenTo`),
because the provers know nothing of exponents that are not literals.

### CardCatalog, LevelUp

`CardCatalog` holds what the two planners share: sets of cards, quotes with an age,
lexicographic keys. `LevelUp` is `optimize_level_up`: sources with their receipts,
destinations with the cards they lack, the bounded prefixes in their orders, the
recommended swap, and the alternatives when no swap gains. One step is one call,
since the code is a pure function without anything to interleave; `Answer`
evaluates it, and the properties compare its answer with all swaps there are. The
code finds the alternatives in a bounded heap; the model takes the best of the
same candidates. `Offer` and `Swap` are the records that stand for `DestinationPlan` and
`_SourceCandidate`; `BoundsAssumption` says that `None`, the model's sign of a missing
record, is not one of them.

### BadgePlan

`plan_badges`: rows of the dashboard, what blocks a request, and five passes over
a heap of next crafts (three policies, then the replacement and the baseline of
the sale alternative). `Craft`, `Drop` and `Close` are the body of `_run_strategy`;
between the passes `NextPhase` is what `plan_badges` computes from the finished
ones. `EnvelopeKept`, `GoalTruth` and `CheapestExact` hold the greedy passes against
all choices of crafts. `DashboardAgrees` holds each row of the dashboard, whose count,
status and price the code computes apart from the passes, against the cheapest plan: a
next badge that a row prices within the budget may be missing from the plan, but only
because other crafts, none of them dearer, have used the budget up.

`MCPlanning` puts the four calculations into one state space, side by side: a
behaviour runs one of them while the others rest.

## 4. Runs

| Run | Instance | Shows |
|---|---|---|
| `price_one_host` | 1 host, 2 clients, 2 requests, 1 name, numbers 1-2, time 0-2, TTL 2, catalog age 1 | `TypeOK`, `WaitersHaveTask`, `NoTrafficWhileSuppressed`, `ReplacedOnlyWhenOld`, `EveryRequestEnds` |
| `price_two_hosts` | 2 hosts with a client each, 1 request, time 0-2 | `CompleteGeneration`, `StreamIsolated`, `StoreSpec` |
| `session_one_tab` | 1 tab with every ability, 2 accounts, 2 sign-ins, 2 fetches, failing IndexedDB | `TypeOK`, `ShownIsViewed`, `GoodKept`, `LoadingEnds` |
| `session_tabs` | 2 tabs that can log out, one of which refreshes inventory and gems, 2 accounts, 2 sign-ins, 2 fetches | `RecordsOwn`, `NothingKept` |
| `warmers` | both warmers, a key each, interval 1, circuit at least 2, 429s with hints 0, 3 or none, two of them | `TypeOK`, `Serialised`, `ScheduledExactly`, `StartsSpaced`, `FoundIsKept`, `QueueDrains` |
| `artwork` | 3 requests, 2 games, 2 donors, room for 1 entry, cooldown 2, hints 1 or 3, two 429s | `TypeOK`, `CacheBounded`, `CooldownHolds`, `WalkEnds` |
| `planning` | 4 fee contracts and prices up to 3.00; levels 0 to 30, and the refusal of the next; 3 games of 5 cards, of which 4 vary for a swap and 3 for a plan, every mode, scope and circumstance of a plan | `PriceExact`, `ReceiptExact`, `LevelExact`, `AdvantageReal`, `BestSwap`, `AlternativesBest`, `EnvelopeKept`, `CheapestExact`, `GoalTruth`, `AlternativeTruth`, `DashboardAgrees` |
| `fetch` | 3 requests at a time, 2 accounts, one of them with 4 first and 5 second pages in any mixture, 2 pages, with and without a key | `SingleFlight`, `WholeInventory`, `StatusTruthful`, `StopLeavesNothing`, `ResultsNotKept` |
| `unshared_limiter` | both warmers and one artwork request | violation, section 6 |
| `stale_gem`, `prior_account`, `late_session` | the smallest instances that show it | violations, section 6 |

**Bounds.** In `price_two_hosts` `BatchSize = 2` with two names makes one batch fill
and one stay partial. `MaxGeneration = 2`, with files that start at either number,
makes the number wrap in every run, at the first refresh or the second. `MaxTime`
is the only artificial bound of `PriceRefresh`: times up to 2 with a lifetime of 2,
a catalog age of 1 and a backoff of 1 or 2 let a generation go from fresh to too
old to plan with to stale, and a backoff run out. Two clients are needed for the
lock, two requests for a joined task; a third adds another of the same.
`price_two_hosts` starts from every kind of file: none, an older version's, an
unstamped one, a current one, empty or full. In `InventorySession` two accounts
suffice because every property compares one account with "another"; `MaxSignIns`
bounds account changes, `MaxFetch` the inventories fetched: two let a fetched
inventory replace a fetched one, after which further answers are errors, refusals
or "unavailable". Symmetry is used for safety runs only, over requests, accounts,
or over the two hosts exchanged together with their clients.

In `warmers` two services with a key each contend for the limiter. A queue of several
keys is beyond the run (with two gem keys the behaviour graph of `QueueDrains` outgrows
it); its safety is proved for any keys (`ScheduleExact`, `FoundStays`, `RequestsSerialised`,
`StartsAreSpaced`), that the second of two queued keys gets its turn is not checked.
`BadgeArtwork` has three callers, so that a walk waits behind one that waits. The
interval is one tick, and circuit, retry and cooldown differ from it and, with
the hints 0 and 3, lie on both sides of each other; a 429 without a hint opens the circuit
for its default. `MaxThrottled` bounds the 429s of a behaviour: two let a warmer that wakes
from its retry find the circuit opened by the other.

In `fetch` three requests are three at a time, not in all: a request that has ended
may come again. They are as many as the table's races need: one task has ended, a
request that met it has dropped the entry, the next has created another task, and
the first one's callback still comes. Two pages are the limit, so that the third of
a long inventory is one too many; the pages are one of each way the code distinguishes,
and every first page may be followed by every second one. The other account has a single
page, so that the two differ.

In `planning` the reference definitions enumerate: every receipt below a total,
every threshold of levels 0 to 30 (three changes of a decade; points are bounded by 7000,
which level 30 does not reach, as `MAX_PLAYER_XP` is out of reach of `MAX_PLAYER_LEVEL`), every
choice of games, every choice of crafts in three games. Two destinations and two
alternatives with three games let each limit cut off something; cards come in the
states that differ for the code (lacking with a cheap, a dear, an old or a thin ask,
single, double, reserved, never to be sold). The calculations share no state, so
their initial states are added, not multiplied.

**Deadlock** is checked in every passing run but `session_tabs` and `planning`. In
the first a browser whose users have signed out and used up the bounded sign-ins
really has nothing left to do, and in the second a calculation ends with its answer. The other session run has a tab that can always leave and reopen.

**Fairness.** In `PriceRefresh` the loop runs each ready coroutine: asyncio's
ready queue and lock are first-in first-out, so a refresh step or a wake-up that
is possible again and again happens (strong fairness, since other coroutines may
hold the loop in between), and a read already holding the loop finishes (weak
fairness). Each HTTP exchange ends, with a result or the client's timeout.
Nothing forces a host to stay up, a feed to be valid or anybody to ask. In
`InventorySession` each coroutine, gem refresh and logout is weakly fair:
transactions finish or abort and fetches answer or fail. Users are never forced
to act. In `Warmer` and `BadgeArtwork` each worker and walk is weakly fair (a task
of the loop, requests with timeouts), and ticks are strongly fair: restarts of one
warmer cannot stop the clock. That 429s end is the bound `MaxThrottled`; a service
that is throttled for ever is never answered, and the queue waits for ever too.

**One host only.** `NoTrafficWhileSuppressed` and `ReplacedOnlyWhenOld` rest on a
lock of the process. They are not properties of two hosts: both may fetch, and a
failure of one may suspend refreshes while the other has just committed.

## 5. Proofs

Every theorem holds for all values of the constants that satisfy the assumptions of
the model it is about (TLC evaluates them in the runs): sentinels are not values,
counters and sizes are natural numbers, games have finite card sets that are disjoint,
fee shares are at most `MAX_FEE_BPS`. A theorem that assumes more says so. An invariant
is proved by an inductive one, with a lemma per action or per conjunct; the temporal
step comes last.

### PriceRefreshProofs

`TypeCorrect`, `GenerationsWhole`, `StreamsIsolated` and `WaitersAwaitLiveTask` follow
from one inductive invariant, `IInv`. `CompleteGeneration` is not inductive by itself:
that a commit installs a whole generation depends on what the open transaction has
gathered. So `IInv` adds

* `StreamFaithful`: the rows inserted, the batch and the names still to come of an
  open transaction make up its feed, under its number, and its set rows are those
  of its composition;
* `StreamIsolated`: that number is no committed row's. It rests on the write lock
  (only the holder streams, so the committed generation cannot change under it)
  and on `MaxGeneration > 1` (or the wrapped number would be the current one);
* `RequestsPlaced`: a request that is doing something belongs to a client;
* `WaitersHaveTask`: `Finish` wakes all waiters of the task it ends, and the loop
  keeps requests from joining in between.

`QuietWhileSuppressed` and `YoungGenerationsStay` assume `OneHost`, that all clients
are in one process; without it both are false (two processes may both fetch). Their
invariant is `LockHeld`, a refresh past the lock holds it, with `RefreshDue`: what the
second look inside the lock found, no backoff and no young generation, stays true until
that refresh ends, because whoever could change it would need the lock.

`StoreImplemented` is the refinement, with any number of hosts: each step maps to a step
of `PriceStore` or to a stutter. A commit is `Install`; the snapshot of a read is the
store's `Look`; an answer computed from the snapshot is its `Reply`. `Unread`, that
a request has no answer before it is done, is the one fact `IInv` lacked for it.

### LimiterProofs, WarmerProofs, BadgeArtworkProofs

`LimiterInv` is what any caller of the limiter keeps. `LineInv`: whoever is in `run` is
in its limiter's line, once, and only the head is past the lock, from which `Serialised`
follows. `PacingInv`: a pacing sleep is no shorter than what is left of the interval,
which `StartsAreSpaced` needs when the sleep ends. The lemmas take one limiter step at a
time, cancellations included, and both callers use them.

`WarmerInv` adds `HandOK`, that a worker has a key exactly while it looks it up or sleeps
over it and is with the limiter exactly while it looks, and `ExactFor`, that the scheduled
set is the queue, free of repetitions, and the key in hand. `FoundStays` is an action
property of the same invariant.

`ArtworkInv` adds `WalkOK` and `CoolOK`. The cooldown stops new walks, but walks that
already wait in the line have passed that test; `CoolOK` says that while anyone waits
during a cooldown the circuit is open, and a tick waits for a lock holder that is ready to
run (section 3), so the line is empty before the circuit closes. `CacheStaysBounded` needs
that there is one entry per game, whichever walk stored it.

### InventorySessionProofs

`SessionInv` says what each tab carries across an `await`. `LoadOK`: the current load is
for the active account, so an answer that passes the test of the token is the active
account's. `FlowOK`: an inventory answer that was accepted was served for the account it
was asked for. `GemOK`: a gem refresh holds a good inventory of its own account. `ViewOK`
has the exception that the code allows, between the 204 of a logout and the end of its
cleanup. From them follow `ShowsItsUser`, `RecordsBelong` and `GoodStays`.
`NothingComesBack` rests on epochs: `EpochOK`, no load is ahead of the cache, and
`EmptyOK`, after a logout has emptied the cache a load that has read its epoch was
refused by the server, and every other one is behind and cannot write. `DbMayFail` may
have either value: `since` is "emptied" only by a cleanup that succeeded.

### InventoryFetchProofs

`OneFlight`, `ResultsGo` and `NothingLeft` are inductive together with the types
(`FlightInv`): a running task is the table's entry for its account, so creating one for an
account without an entry makes no second, dropping an entry needs a task that is done, and
`stop`, which knows only the table, reaches every task. `WorkLeadsOnwards` states of each
step of a task that it stays with its account or ends untold; `BecomeKeeps` that dropping
unreachable tasks changes nothing else.

`InventoriesWhole` and `StatusesTrue` need what a read has gathered (`ReadInv`). A task
that is about to ask for a page has been given all the other pages it has reached, each of
which named another of them, and its counts are the sum over those pages (`Reading`). The
page it is given next is any that the provider offers at that moment, whatever it would
have answered before. When that page is a last one, the pages given are closed under "leads
to", and every set closed under it has them all (`AllLed`), so they are the whole chain;
each was counted once because a repeated cursor ends the read (`HasAll`). Statuses of
answers that are not public are not compared with anything: the code does not say more of
them than that they are private or unavailable.

### PlanningProofs

* **Fees.** `ReceiptIsExact`: a fee, floored and raised to its minimum, does not fall while
  the receipt grows (`FeeMonotone`), so the total grows strictly (`TotalStrict`); the
  invariant `SearchHolds` says that a receipt of the total, if there is one, lies between
  `low` and `high`.
* **Prices.** `PriceIsExact`: digits and powers of ten are one scheme (`Horner`). The
  digits behind the kept ones add less than one unit, and nothing exactly when they are
  zeros (`DigitsSplit`), so the division of the text's number by its scale has the amount
  as quotient and their part as remainder (`DivRem`).
* **Levels.** `LevelIsExact`: the two recursive corrections of the estimated decade end, from
  every estimate, in the one decade that has begun and not ended (`DecadesExact`), so the
  rounding of the square root does not matter.
* **Passes.** `PassesAgree` is the inductive invariant of the planner. While a pass runs
  (`Course`), what it spent is what its crafts cost grouped per game (`StepSpend`), within
  the budget; its heap has next crafts only; a game whose next craft is not on the heap is
  one the rest of the budget does not allow (`Shut`), for good, because spending only grows
  and the costs within a game never fall (`CostGrows`); and in the passes by cost no craft
  taken is dearer than one not taken (`Even`). A finished pass (`Result`) keeps all of it with
  an empty heap, or has all the crafts it needs.
* **The greedy choice.** `CheapestIsExact` from `Result`: there is a price between the last
  craft taken of each game and the first one not taken (`PriceBetween`); compared with any
  other choice, a craft added costs at least that price and a craft left out saves at most
  that price, each summed over the games (`Exchange`). So no choice with as many crafts is
  cheaper, and one with more would need a craft that the budget does not allow.
* **What is computed beside the passes.** `EnvelopeIsKept`, `DashboardIsTrue`,
  `AlternativeIsTrue` and `GoalIsTrue` relate the results to the reserve, the dashboard's
  rows, the sale and the goal. A row's price is known exactly when each card it lacks can be
  bought, and is then the cost of the game's first craft (`FirstCost`); so a game without a
  craft in the plan is `Shut` at that price, `Even` makes all crafts taken no dearer, and a
  game with one had its first craft on the heap, which the row must offer (`OfferingIs`).
  The last two theorems use in one direction that no affordable choice does better
  (`PassExact`), and for target levels the lemmas of `LevelIsExact`.

* **The level-up answer.** A call takes one step, so the invariant (`AnswersProblem`) only
  says that the answer is `Optimize` of the arguments; the work is about `Optimize`.
  * `SwapIsBest`. A set of games that a sale pays for is, but for games with no card
    missing, a set of destinations of the same cost (`ChosenIs`): the cards to buy are the
    destinations' rows, and rows of two games share no card. Buying completes each badge that
    the sale leaves incomplete once and changes no other (`CraftAfter`), so the gain is the number of destinations
    less the crafts of the source's own game that the sale gives up (`GainIs`, `LostIs`).
    No m destinations cost less than the first m of the first
    `MAX_DESTINATION_SETS + 1` (`PrefixCheapest`, by `CheapestSum`), and `Select` keeps
    every prefix that the receipt covers (`SelectedIs`); hence a swap exists whenever
    something gains, and it gains as much (`SwapBeats`). Advantage comes first in the key
    of the final minimum (`RecommendedIs`). `LimitedIs` is the same argument for one
    destination more than the bound.
  * `AdvantageIsReal`: the recommended swap is one of its source's (`SwapReal`), the
    oldest quote it names is the oldest of the bid and of all asks it buys (`OldestIs`),
    and the deadline is the first of those of inventory, prices and quotes (`DeadlineIs`).
  * `AlternativesAreBest`: of two destinations of a source the one with the smaller key
    gives the alternative with the smaller rank, since the source's receipt and loss are
    the same in both (`CheaperFirst`). An alternative outside its source's prefix
    therefore has `MAX_EXCHANGE_ALTERNATIVES` of the same source before it and is not
    among the first (`NoneIsLost`); and a part that contains the first n of a set has the
    same first n (`FirstWithin`).

Requests are assumed to be what request validation leaves (`RequestsAssumption`, and
`BoundsAssumption` for the optimizer).

### SumLemmas

The induction theorems of the proof library take a predicate, which no prover here can
instantiate. `LeastNat` (from the well-foundedness of `<`), `AllNat` and `AllFinite` state
induction of sets instead: a set of numbers that has 0 and each successor has them all, a
family of subsets that is closed under adding an element has all finite sets. With them the
fold behind `SumFunctionOnSet` is shown to exist (`TableExists`, `TablesAgree`) and to add up
one element at a time, whatever order it takes; other lemmas compare sums. A finite set
that a relation puts in a row (`Orders`) has a first and a last element; its first n
elements (`FirstOf`) are n or all (`FirstSize`) and go before the others (`FirstAhead`).
The heap of the optimizer, its prefixes and its final minimum are used through these, with
the order that `KeyOrders` gives to keys that tell the elements apart.

### Only model-checked

* Liveness (`EveryRequestEnds`, `LoadingEnds`, `QueueDrains`, `WalkEnds`): liveness under
  fairness and ENABLED are beyond the prover.
* `OneRequestAtATime` and the three other properties of the violation runs are false.

## 6. What the code does not keep

* `stale_gem`. `handleGemRefresh` merges into the inventory it captured at its
  start, but stamps and guards the write with the `refreshed_at` shown when the
  answer arrives (`App.tsx:3936`, `3962-3973`). If the tab has meanwhile shown a
  newer record (a late session answer reloads the cache another tab has written),
  the comparison succeeds and old content is filed under the new time.
  `inventoryCache.test.ts:208` promises that a stale gem refresh loses.
* `prior_account`. `clearInventoryCacheExcept` advances the epoch only if it sees
  another active account or a foreign record. With a second tab acting on an
  older session answer, the pruning for the new account can find both already in
  order, and an older request of the previous account puts its record back,
  against `docs/PROJECT_SUMMARY.md:334-336`. The next pruning removes it.
* `late_session`. The session request that the mount effect repeats after a
  changed session is not invalidated by a logout. Its older answer shows the
  signed-in view again after "Signed out successfully."
  (`App.test.tsx:3323`).
* `unshared_limiter`. `create_app` builds `SteamGateway` without a limiter
  (`main.py:51`), so the artwork service makes its own (`badge_artwork.py:332`)
  beside the one of the warmers (`steam_gateway.py:2359`), against
  `docs/PROJECT_SUMMARY.md:144-145` and `badge_artwork.py:404`, which speak of the
  shared limiter. Two requests can be on the wire, and a 429 to one service does
  not hold back the other.

Each of these is a violation run with the property stated as the documentation or
the test states it.

One comment is wrong without consequence and has no run: `badge_planner.py:1579`
says that with usable asks for a next craft zero crafts mean that the budget blocked
every route. A collector whose goal for the game with asks is already met, beside a
game without quotes, gets zero crafts at any budget; only the wording of the reason
depends on it.

## 7. Not modelled

* **Sign-in, cookies, lifecycle.** A stateless exchange of signed values, checked by
  the request that carries them. `InventorySession` has what the other parts see of
  it. The lifespan starts and stops the services in one order; their own starts and
  stops are modelled.
* **Planning panels.** A request loop per panel whose token and abort controller
  discard late answers, without state shared with the modelled parts. The loop that
  `check_level_up` may keep going by answering `price_generation_refreshing` for a
  fresh but incomplete catalog is listed as a hazard without a property.
* **Plan workflow.** A key of local storage per account, written whole.
* **Settings, parsing helpers, view components.** No state to interleave.
* Of modelled parts: archiving a corrupt file, the parsing of feeds and pages,
  read-only files, display names and wording, the JSON form of answers, and the
  validation of arguments, which includes that `optimize_level_up` refuses a holding
  outside the catalog (`level_up_optimizer.py:806`; `Problems` has none).
