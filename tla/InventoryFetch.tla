--------------------------- MODULE InventoryFetch ---------------------------
(***************************************************************************)
(* SteamApisClient.fetch_inventory: one task in flight per account reads   *)
(* the account's inventory page by page, joins it with prices, booster     *)
(* details and gem values, and answers every request that waits for it.    *)
(* A request that is cancelled leaves the task running; stop ends it.      *)
(***************************************************************************)
EXTENDS Naturals, Sequences, FiniteSets, FiniteSetsExt, Functions

CONSTANTS
    Accounts, Requests, \* a task has the name of the request that creates it
    None,               \* no task, no cursor, no name, no gem key, no game
    Class,              \* (classid, instanceid) of items
    Described,          \* what the descriptions say: Class -> [market, marketable, gem, game]
    Cursors,
    Offers,             \* Offers[a][p]: the pages the provider may answer with for
                        \* account a and cursor p, whatever it answered before
    MaxPages,           \* MAX_INVENTORY_PAGES
    MaxTotal            \* MAX_INVENTORY_TOTAL_QUANTITY

Page == [assets : [Class -> Nat], described : SUBSET Class,
         more : BOOLEAN, last : Cursors \union {None}]

ASSUME FetchAssumption ==
    /\ None \notin Requests \union Cursors
    /\ MaxPages \in Nat \ {0} /\ MaxTotal \in Nat
    /\ Offers \in [Accounts -> [Cursors \union {None} -> SUBSET Page]]

VARIABLES
    keyed,    \* a SteamApis key is configured
    service,  \* "running", "stopping" (stop gathers the tasks) or "stopped"
    inflight, \* _inventory_inflight, None where it has no entry
    task,     \* the tasks somebody can still reach
    waits     \* waits[r]: the task request r awaits, None outside a request

vars == <<keyed, service, inflight, task, waits>>
-----------------------------------------------------------------------------
Fetching == {"new", "page", "prices", "boosters", "gems", "cancelling"}

Unavailable == [status |-> "unavailable"]
Private == [status |-> "private"]
Cancelled == [status |-> "cancelled"]

\* given is history: under each cursor asked for, the page the provider gave.
Blank(a) == [account |-> a, phase |-> "new", cursor |-> None, seen |-> {},
             assets |-> [c \in Class |-> 0], described |-> {}, given |-> <<>>,
             priced |-> {}, valued |-> {}]

\* A finished task keeps its answer; told says that its done callbacks have run.
Done(answer) == [phase |-> "done", answer |-> answer, told |-> FALSE]
Absent == [phase |-> "absent"]

Running(t) == task[t].phase \in Fetching

Init ==
    /\ keyed \in BOOLEAN
    /\ service = "running"
    /\ inflight = [a \in Accounts |-> None]
    /\ task = [t \in Requests |-> Absent]
    /\ waits = [r \in Requests |-> None]
-----------------------------------------------------------------------------
(* Requests and the table of tasks in flight *)

\* A finished task that neither the table, a request nor a callback refers to is gone.
Reachable(tasks, table, waiting) ==
    [t \in Requests |->
        IF /\ tasks[t].phase = "done" /\ tasks[t].told
           /\ \A a \in Accounts : table[a] # t
           /\ \A r \in Requests : waiting[r] # t
        THEN Absent
        ELSE tasks[t]]

Become(tasks, table, waiting) ==
    /\ task' = Reachable(tasks, table, waiting)
    /\ inflight' = table
    /\ waits' = waiting

\* Fault: the entry goes although its task still runs.
DiscardedRunning(t) ==
    [a \in Accounts |-> IF inflight[a] = t THEN None ELSE inflight[a]]

\* _discard_inventory_task: only the entry of this very task, and only when it is done.
Discarded(t) ==
    [a \in Accounts |-> IF inflight[a] = t /\ task[t].phase = "done"
                        THEN None ELSE inflight[a]]

\* A request finds no task for its account and creates one.
Create(r, a) ==
    /\ service = "running" /\ waits[r] = None /\ task[r] = Absent
    /\ inflight[a] = None
    /\ task' = [task EXCEPT ![r] = Blank(a)]
    /\ inflight' = [inflight EXCEPT ![a] = r]
    /\ waits' = [waits EXCEPT ![r] = r]
    /\ UNCHANGED <<keyed, service>>

\* A request joins the task in flight.
Join(r, a) ==
    /\ service = "running" /\ waits[r] = None
    /\ inflight[a] # None /\ Running(inflight[a])
    /\ waits' = [waits EXCEPT ![r] = inflight[a]]
    /\ UNCHANGED <<keyed, service, inflight, task>>

\* A request comes between the end of the task and its callbacks: it is answered on
\* the spot and discards the entry.
JoinDone(r, a) ==
    /\ service = "running" /\ waits[r] = None
    /\ inflight[a] # None /\ ~Running(inflight[a])
    /\ Become(task, Discarded(inflight[a]), waits)
    /\ UNCHANGED <<keyed, service>>

\* Fault: the client has no callback of its own.
CallbackKeeps(t) ==
    /\ task[t].phase = "done" /\ ~task[t].told
    /\ Become([task EXCEPT ![t].told = TRUE], inflight, waits)
    /\ UNCHANGED <<keyed, service>>

\* The done callbacks: the client's own comes first, the waiting requests follow.
Callback(t) ==
    /\ task[t].phase = "done" /\ ~task[t].told
    /\ Become([task EXCEPT ![t].told = TRUE], Discarded(t), waits)
    /\ UNCHANGED <<keyed, service>>

Resume(r) ==
    LET t == waits[r]
    IN  /\ t # None /\ task[t].phase = "done" /\ task[t].told
        /\ Become(task, Discarded(t), [waits EXCEPT ![r] = None])
        /\ UNCHANGED <<keyed, service>>

\* A request is cancelled while it waits; the shield keeps the task.
Abort(r) ==
    /\ waits[r] # None
    /\ Become(task, Discarded(waits[r]), [waits EXCEPT ![r] = None])
    /\ UNCHANGED <<keyed, service>>
-----------------------------------------------------------------------------
(* One task *)

Set(t, own) ==
    /\ task' = [task EXCEPT ![t] = own]
    /\ UNCHANGED <<keyed, service, inflight, waits>>

Start(t) ==
    /\ task[t].phase = "new"
    /\ Set(t, IF keyed THEN [task[t] EXCEPT !.phase = "page"] ELSE Done(Unavailable))

Total(assets) == SumFunction(assets)

\* What the provider may answer to the request under the task's cursor.
Offered(t) == Offers[task[t].account][task[t].cursor]

\* The task with a page added.
Added(t, page) ==
    [task[t] EXCEPT
        !.assets = [c \in Class |-> @[c] + page.assets[c]],
        !.described = @ \union page.described,
        !.given = [p \in DOMAIN @ \union {task[t].cursor} |->
                      IF p = task[t].cursor THEN page ELSE @[p]]]

Fits(t, page) == Total(Added(t, page).assets) <= MaxTotal

\* Fault: a page that announces more without saying where counts as the last.
EndsLoosely(page) == ~page.more \/ page.last = None

Ends(page) == ~page.more

\* The cursor of the next page is new, and the page is not one too many.
Goes(t, page) ==
    /\ page.more /\ page.last # None
    /\ page.last \notin task[t].seen
    /\ Cardinality(task[t].seen) + 1 < MaxPages

NextPage(t) ==
    /\ task[t].phase = "page"
    /\ \E page \in Offered(t) :
        /\ Fits(t, page) /\ Goes(t, page)
        /\ Set(t, [Added(t, page) EXCEPT !.cursor = page.last,
                                         !.seen = @ \union {page.last}])

\* The classes the task holds, what of them has a price, a gem value, a booster.
Held(own) == {c \in Class : own.assets[c] > 0}
Priceable(own) == {c \in Held(own) : Described[c].marketable}
GemItems(own) == {c \in Held(own) : Described[c].gem # None}
MarketNames(own) == {Described[c].market : c \in Priceable(own)} \ {None}
GemKeys(own) == {Described[c].gem : c \in GemItems(own)}
BoosterGames(own) == {Described[c].game : c \in Held(own)} \ {None}

\* A lookup with nothing to ask is passed over.  The prices include the sack of gems
\* where there are gem values, and the boosters' where there are games.
Asks(own, phase) ==
    CASE phase = "prices" ->
            MarketNames(own) # {} \/ GemItems(own) # {} \/ BoosterGames(own) # {}
      [] phase = "boosters" -> BoosterGames(own) # {}
      [] phase = "gems" -> GemItems(own) # {}

\* Every item has the price of its market name and the value of its gem key.
Priced(own) == {c \in Priceable(own) : Described[c].market \in own.priced}
Valued(own) == {c \in GemItems(own) : Described[c].gem \in own.valued}

\* _price_status_for_items and _gem_status_for_items.
StatusOf(have, of) ==
    CASE have = of -> "complete"
      [] have # of /\ have # {} -> "partial"
      [] OTHER -> "unavailable"

\* Fault: only the items that could be asked about count as priceable.
AnswerNamed(own) ==
    [status |-> "public", pages |-> own.given, items |-> own.assets,
     priced |-> Priced(own), valued |-> Valued(own),
     prices |-> StatusOf(Priced(own), {c \in Priceable(own) : Described[c].market # None}),
     gems |-> StatusOf(Valued(own), GemItems(own))]

\* pages is history too.
Answer(own) ==
    [status |-> "public", pages |-> own.given, items |-> own.assets,
     priced |-> Priced(own), valued |-> Valued(own),
     prices |-> StatusOf(Priced(own), Priceable(own)),
     gems |-> StatusOf(Valued(own), GemItems(own))]

Lookups == <<"prices", "boosters", "gems">>

\* The task goes on with the first lookup from the n-th on that has something to ask.
Proceed(own, n) ==
    LET due == {k \in n..Len(Lookups) : Asks(own, Lookups[k])}
    IN  IF due = {} THEN Done(Answer(own))
                    ELSE [own EXCEPT !.phase = Lookups[Min(due)]]

LastPage(t) ==
    /\ task[t].phase = "page"
    /\ \E page \in Offered(t) :
        /\ Fits(t, page) /\ Ends(page)
        /\ Set(t, IF Held(Added(t, page)) \subseteq Added(t, page).described
                  THEN Proceed(Added(t, page), 1)
                  ELSE Done(Unavailable))

\* The page exceeds a limit, or points nowhere, back, or too far.
PageRefused(t) ==
    /\ task[t].phase = "page"
    /\ \E page \in Offered(t) :
        /\ ~(Fits(t, page) /\ (Ends(page) \/ Goes(t, page)))
        /\ Set(t, Done(Unavailable))

\* The request for a page raises, is refused (429, 403, another status) or is answered
\* with what _parse_inventory_page does not accept.
PageFails(t) ==
    /\ task[t].phase = "page"
    /\ \E answer \in {Unavailable, Private} : Set(t, Done(answer))

\* Each lookup answers a part of what it is asked, or nothing when it raises.
Prices(t) ==
    /\ task[t].phase = "prices"
    /\ \E found \in SUBSET MarketNames(task[t]) :
        Set(t, Proceed([task[t] EXCEPT !.priced = found], 2))

Boosters(t) ==
    /\ task[t].phase = "boosters"
    /\ Set(t, Proceed(task[t], 3))

Gems(t) ==
    /\ task[t].phase = "gems"
    /\ \E found \in SUBSET GemKeys(task[t]) :
        Set(t, Proceed([task[t] EXCEPT !.valued = found], 4))
-----------------------------------------------------------------------------
(* The end of the process *)

\* stop cancels the tasks of the table ...
Stop ==
    /\ service = "running"
    /\ service' = "stopping"
    /\ task' = [t \in Requests |->
                    IF Running(t) /\ t \in Range(inflight)
                    THEN [task[t] EXCEPT !.phase = "cancelling"] ELSE task[t]]
    /\ UNCHANGED <<keyed, inflight, waits>>

Unwind(t) ==
    /\ task[t].phase = "cancelling"
    /\ Set(t, Done(Cancelled))

\* Fault: the table is emptied without waiting for the tasks.
StoppedAtOnce ==
    /\ service = "stopping"
    /\ service' = "stopped"
    /\ Become(task, [a \in Accounts |-> None], waits)
    /\ UNCHANGED keyed

\* ... waits for them and empties it.
Stopped ==
    /\ service = "stopping"
    /\ \A t \in Range(inflight) \ {None} : ~Running(t)
    /\ service' = "stopped"
    /\ Become(task, [a \in Accounts |-> None], waits)
    /\ UNCHANGED keyed

\* Another process begins, with a service of its own, when the requests are gone.
Restart ==
    /\ service = "stopped"
    /\ \A r \in Requests : waits[r] = None /\ task[r] = Absent
    /\ service' = "running"
    /\ UNCHANGED <<keyed, inflight, task, waits>>

Next ==
    \/ \E r \in Requests, a \in Accounts : Create(r, a) \/ Join(r, a) \/ JoinDone(r, a)
    \/ \E r \in Requests : Resume(r) \/ Abort(r)
    \/ \E t \in Requests :
        \/ Start(t) \/ NextPage(t) \/ LastPage(t) \/ PageRefused(t) \/ PageFails(t)
        \/ Prices(t) \/ Boosters(t) \/ Gems(t)
        \/ Unwind(t) \/ Callback(t)
    \/ Stop \/ Stopped \/ Restart

Spec == Init /\ [][Next]_vars
-----------------------------------------------------------------------------
(* Properties *)

\* The pages from the first one on that follow from one another: what every set has
\* that has the first page and with a page the next.
Chain(pages) ==
    LET Closed(P) ==
            /\ None \in P
            /\ \A p \in P : pages[p].more /\ pages[p].last # None => pages[p].last \in P
    IN  {p \in DOMAIN pages : \A P \in SUBSET DOMAIN pages : Closed(P) => p \in P}

\* What a task has been given so far.
Given == UNION {[P -> Page] : P \in SUBSET (Cursors \union {None})}

\* Type invariant.
Flying ==
    [account : Accounts, phase : Fetching, cursor : Cursors \union {None},
     seen : SUBSET Cursors, assets : [Class -> Nat], described : SUBSET Class, given : Given,
     priced : SUBSET {Described[c].market : c \in Class},
     valued : SUBSET {Described[c].gem : c \in Class}]

Answers ==
    {Unavailable, Private, Cancelled} \union
    [status : {"public"}, pages : Given, items : [Class -> Nat],
     priced : SUBSET Class, valued : SUBSET Class,
     prices : {"complete", "partial", "unavailable"},
     gems : {"complete", "partial", "unavailable"}]

Landed == [phase : {"done"}, answer : Answers, told : BOOLEAN]

TypeOK ==
    /\ keyed \in BOOLEAN
    /\ service \in {"running", "stopping", "stopped"}
    /\ inflight \in [Accounts -> Requests \union {None}]
    /\ waits \in [Requests -> Requests \union {None}]
    /\ task \in [Requests -> Flying \union Landed \union {Absent}]

\* A task that runs is the one in flight for its account: an account's inventory is
\* read by one task at a time, however requests come, are cancelled and go, and stop
\* finds every task there is (fetch_inventory, _discard_inventory_task).
SingleFlight == \A t \in Requests : Running(t) => inflight[task[t].account] = t

\* An answer "public" holds every page of one chain once, from the first page over the
\* cursors the pages name to one that is the last: never the part before a page that
\* leads nowhere, nothing twice, no item without a description. The pages may come from
\* different moments of an inventory that changes meanwhile (_fetch_inventory_uncached).
WholeInventory ==
    \A t \in Requests :
        (task[t].phase = "done" /\ task[t].answer.status = "public") =>
            LET answer == task[t].answer
                pages == answer.pages
                chain == Chain(pages)
            IN  /\ \A c \in Class :
                    answer.items[c] = SumFunction([p \in chain |-> pages[p].assets[c]])
                /\ \A c \in Class : answer.items[c] > 0 =>
                    \E p \in chain : c \in pages[p].described
                /\ \E p \in chain : ~pages[p].more

\* "complete" promises a price for every marketable item on the pages given, and a
\* value for every one with gems; "unavailable" shows none (_price_status_for_items,
\* _gem_status_for_items).
StatusTruthful ==
    \A t \in Requests :
        (task[t].phase = "done" /\ task[t].answer.status = "public") =>
            LET answer == task[t].answer
                pages == answer.pages
                owned == {c \in Class : \E p \in Chain(pages) : pages[p].assets[c] > 0}
            IN  /\ answer.prices = "complete" <=>
                    \A c \in owned : Described[c].marketable => c \in answer.priced
                /\ answer.gems = "complete" <=>
                    \A c \in owned : Described[c].gem # None => c \in answer.valued
                /\ answer.prices = "unavailable" => answer.priced = {}
                /\ answer.gems = "unavailable" => answer.valued = {}

\* When stop has returned no task of the client is left, not even one whose request
\* was cancelled long ago (test_steamapis_stop_cancels_shielded_inventory).
StopLeavesNothing ==
    service = "stopped" =>
        /\ \A t \in Requests : ~Running(t)
        /\ \A a \in Accounts : inflight[a] = None

\* Results are not kept: once a task has ended and its callbacks have run, no request
\* can meet its answer any more, also when every request that waited was cancelled
\* (test_inventory_single_flight_does_not_retain_completed_results).
ResultsNotKept ==
    \A a \in Accounts :
        inflight[a] # None =>
            LET t == inflight[a]
            IN  Running(t) \/ (task[t].phase = "done" /\ ~task[t].told)

=============================================================================
