------------------------ MODULE InventoryFetchProofs ------------------------
(***************************************************************************)
(* For any accounts, requests, inventories and limits: one task at a time  *)
(* reads the inventory of an account, its result is not kept, and stop     *)
(* leaves no task behind. Whatever pages a read is given, a public answer  *)
(* has each page of one whole chain once, and its price and gem statuses   *)
(* say how many of its items have a price or a gem value.                  *)
(***************************************************************************)
EXTENDS InventoryFetch, SumLemmas

\* The table and the tasks agree; what the three safety properties rest on.
FlightInv == TypeOK /\ SingleFlight /\ ResultsNotKept /\ StopLeavesNothing

\* The two records of a task are told apart by their phase.
LEMMA Phases ==
    /\ \A own \in Flying : own.phase \in Fetching
    /\ \A own \in Landed : own.phase = "done"
    /\ "done" \notin Fetching /\ "absent" \notin Fetching
    /\ Absent.phase = "absent"
BY DEF Flying, Landed, Fetching, Absent

\* A task whose phase is known is the record of that phase.
LEMMA Kinds ==
    ASSUME TypeOK, NEW t \in Requests
    PROVE  /\ Running(t) => task[t] \in Flying
           /\ task[t].phase = "done" => task[t] \in Landed
           /\ task[t] = Absent => ~Running(t)
<1>1. task[t] \in Flying \union Landed \union {Absent}
  BY DEF TypeOK
<1> QED
  BY <1>1, Phases DEF Running

\* What a task becomes when it leaves a lookup or the last page: a task of the same
\* account in a later phase, or one that is done and has told nobody (Proceed).
Onwards(own, next) ==
    \/ next \in Flying /\ next.account = own.account
    \/ next \in Landed /\ ~next.told

LEMMA ProceedIs ==
    ASSUME NEW own, NEW n \in 1..4
    PROVE  \/ Proceed(own, n) = Done(Answer(own))
           \/ \E phase \in {"prices", "boosters", "gems"} :
                Proceed(own, n) = [own EXCEPT !.phase = phase]
<1> DEFINE due == {k \in n..Len(Lookups) : Asks(own, Lookups[k])}
<1>1. Len(Lookups) = 3 /\ Lookups[1] = "prices" /\ Lookups[2] = "boosters" /\ Lookups[3] = "gems"
  BY DEF Lookups
<1>2. CASE due = {}
  BY <1>2 DEF Proceed
<1>3. CASE due # {}
  <2>1. due \subseteq 1..3
    BY <1>1
  <2> HIDE DEF due
  <2>2. Min(due) \in due
    <3>1. due \subseteq Nat
      BY <2>1
    <3>2. \E k \in due : \A j \in due : k <= j
      BY <1>3, <3>1, LeastNat
    <3> QED BY <3>2 DEF Min
  <2>3. Lookups[Min(due)] \in {"prices", "boosters", "gems"}
    <3>1. PICK k \in 1..3 : k = Min(due)
      BY <2>1, <2>2
    <3>2. k = 1 \/ k = 2 \/ k = 3
      OBVIOUS
    <3> QED BY <3>1, <3>2, <1>1
  <2>4. Proceed(own, n) = [own EXCEPT !.phase = Lookups[Min(due)]]
    BY <1>3 DEF Proceed, due
  <2> QED
    BY <2>3, <2>4
<1> QED
  BY <1>2, <1>3

LEMMA ProceedType ==
    ASSUME NEW own \in Flying, NEW n \in 1..4
    PROVE  Onwards(own, Proceed(own, n))
<1>1. CASE Proceed(own, n) = Done(Answer(own))
  <2>1. /\ own.given \in Given /\ own.assets \in [Class -> Nat]
        /\ Priced(own) \in SUBSET Class /\ Valued(own) \in SUBSET Class
    BY DEF Flying, Priced, Valued, Priceable, GemItems, Held
  <2>2. ASSUME NEW have, NEW of
        PROVE  StatusOf(have, of) \in {"complete", "partial", "unavailable"}
    BY DEF StatusOf
  <2>3. Answer(own) \in Answers
    BY <2>1, <2>2 DEF Answer, Answers
  <2> QED
    BY <1>1, <2>3 DEF Done, Landed, Onwards
<1>2. ASSUME NEW phase \in {"prices", "boosters", "gems"},
             Proceed(own, n) = [own EXCEPT !.phase = phase]
      PROVE  Onwards(own, Proceed(own, n))
  BY <1>2 DEF Flying, Fetching, Onwards
<1> QED
  BY <1>1, <1>2, ProceedIs

\* A task that begins has been given nothing.
LEMMA NothingGiven == <<>> \in Given /\ DOMAIN <<>> = {}
<1>1. DOMAIN <<>> = {} /\ <<>> \in [{} -> Page]
  OBVIOUS
<1> QED
  BY <1>1 DEF Given

\* A page more is recorded under its cursor, the others stay.
LEMMA GivenGrows ==
    ASSUME NEW given \in Given, NEW q \in Cursors \union {None}, NEW page \in Page,
           NEW more, more = [p \in DOMAIN given \union {q} |-> IF p = q THEN page ELSE given[p]]
    PROVE  /\ more \in Given /\ DOMAIN more = DOMAIN given \union {q}
           /\ more[q] = page /\ \A p \in DOMAIN given \ {q} : more[p] = given[p]
           /\ DOMAIN given \in SUBSET (Cursors \union {None})
           /\ \A p \in DOMAIN given : given[p] \in Page
<1>1. PICK P \in SUBSET (Cursors \union {None}) : given \in [P -> Page]
  BY DEF Given
<1>2. DOMAIN given = P /\ \A p \in P : given[p] \in Page
  BY <1>1
<1>3. PICK S \in SUBSET (Cursors \union {None}) : S = P \union {q}
  OBVIOUS
<1>4. more \in [S -> Page]
  BY <1>2, <1>3
<1>5. more \in Given
  BY <1>4 DEF Given
<1> QED
  BY <1>1, <1>2, <1>3, <1>5

\* A task with a page added is a task of the same account (_fetch_inventory_uncached).
LEMMA AddedType ==
    ASSUME TypeOK, NEW t \in Requests, task[t] \in Flying, NEW page \in Offered(t)
    PROVE  /\ Added(t, page) \in Flying /\ page \in Page
           /\ Added(t, page).account = task[t].account
           /\ Added(t, page).phase = task[t].phase /\ Added(t, page).seen = task[t].seen
           /\ Added(t, page).assets = [c \in Class |-> task[t].assets[c] + page.assets[c]]
           /\ Added(t, page).described = task[t].described \union page.described
           /\ Added(t, page).given =
                [p \in DOMAIN task[t].given \union {task[t].cursor} |->
                    IF p = task[t].cursor THEN page ELSE task[t].given[p]]
<1>1. task[t].account \in Accounts /\ task[t].cursor \in Cursors \union {None}
  BY DEF Flying
<1>2. page \in Page
  BY <1>1, FetchAssumption DEF Offered
<1>3. PICK assets : assets = [c \in Class |-> task[t].assets[c] + page.assets[c]]
  OBVIOUS
<1>4. PICK described : described = task[t].described \union page.described
  OBVIOUS
<1>5. PICK given : given = [p \in DOMAIN task[t].given \union {task[t].cursor} |->
                              IF p = task[t].cursor THEN page ELSE task[t].given[p]]
  OBVIOUS
<1>6. Added(t, page) = [task[t] EXCEPT !.assets = assets, !.described = described,
                                       !.given = given]
  BY <1>3, <1>4, <1>5 DEF Added
<1>7. assets \in [Class -> Nat] /\ described \in SUBSET Class
  BY <1>2, <1>3, <1>4 DEF Page, Flying
<1>8. task[t].given \in Given
  BY DEF Flying
<1>9. given \in Given
  <2>1. PICK old \in Given : old = task[t].given
    BY <1>8
  <2>2. PICK q \in Cursors \union {None} : q = task[t].cursor
    BY <1>1
  <2>3. given = [p \in DOMAIN old \union {q} |-> IF p = q THEN page ELSE old[p]]
    BY <1>5, <2>1, <2>2
  <2> QED BY <1>2, <2>3, GivenGrows
<1>10. /\ Added(t, page) \in Flying /\ Added(t, page).account = task[t].account
       /\ Added(t, page).phase = task[t].phase /\ Added(t, page).seen = task[t].seen
       /\ Added(t, page).assets = assets /\ Added(t, page).described = described
       /\ Added(t, page).given = given
  BY <1>6, <1>7, <1>9 DEF Flying
<1> QED
  BY <1>2, <1>3, <1>4, <1>5, <1>10

\* Each step of a running task leads onwards, and touches nothing else.
Works(t) ==
    \/ Start(t) \/ NextPage(t) \/ LastPage(t) \/ PageRefused(t) \/ PageFails(t)
    \/ Prices(t) \/ Boosters(t) \/ Gems(t) \/ Unwind(t)

LEMMA WorkLeadsOnwards ==
    ASSUME TypeOK, NEW t \in Requests, Works(t)
    PROVE  /\ Running(t)
           /\ \E next : Onwards(task[t], next) /\ Set(t, next)
<1>1. Running(t)
  BY DEF Works, Running, Fetching, Start, NextPage, LastPage, PageRefused, PageFails,
         Prices, Boosters, Gems, Unwind
<1>2. task[t] \in Flying
  BY <1>1, Kinds
<1>3. \A answer \in {Unavailable, Private, Cancelled} : Onwards(task[t], Done(answer))
  BY DEF Onwards, Done, Landed, Answers
<1>4. CASE Start(t)
  <2>1. CASE keyed
    <3>1. Set(t, [task[t] EXCEPT !.phase = "page"])
      BY <1>4, <2>1 DEF Start
    <3>2. Onwards(task[t], [task[t] EXCEPT !.phase = "page"])
      BY <1>2 DEF Onwards, Flying, Fetching
    <3> QED BY <1>1, <3>1, <3>2
  <2>2. CASE ~keyed
    BY <1>1, <1>3, <1>4, <2>2 DEF Start
  <2> QED BY <2>1, <2>2
<1>5. CASE NextPage(t)
  <2>1. PICK page \in Offered(t) :
            /\ Goes(t, page)
            /\ Set(t, [Added(t, page) EXCEPT !.cursor = page.last,
                                             !.seen = @ \union {page.last}])
    BY <1>5 DEF NextPage
  <2>2. PICK own : own = Added(t, page)
    OBVIOUS
  <2>3. own \in Flying /\ own.account = task[t].account /\ page \in Page
    BY <1>2, <2>2, AddedType
  <2>4. page.last \in Cursors
    BY <2>1, <2>3 DEF Goes, Page
  <2>5. PICK next : next = [own EXCEPT !.cursor = page.last, !.seen = @ \union {page.last}]
    OBVIOUS
  <2>6. next \in Flying /\ next.account = task[t].account
    BY <2>3, <2>4, <2>5 DEF Flying
  <2>7. Set(t, next)
    BY <2>1, <2>2, <2>5
  <2> QED BY <1>1, <2>6, <2>7 DEF Onwards
<1>6. CASE LastPage(t)
  <2>1. PICK page \in Offered(t) :
            Set(t, IF Held(Added(t, page)) \subseteq Added(t, page).described
                   THEN Proceed(Added(t, page), 1)
                   ELSE Done(Unavailable))
    BY <1>6 DEF LastPage
  <2>2. PICK own : own = Added(t, page)
    OBVIOUS
  <2>3. own \in Flying /\ own.account = task[t].account
    BY <1>2, <2>2, AddedType
  <2>4. Onwards(own, Proceed(own, 1))
    BY <2>3, ProceedType
  <2>5. Onwards(task[t], Proceed(own, 1))
    BY <2>3, <2>4 DEF Onwards
  <2>6. Set(t, Proceed(own, 1)) \/ Set(t, Done(Unavailable))
    BY <2>1, <2>2
  <2> QED BY <1>1, <1>3, <2>5, <2>6
<1>7. CASE PageRefused(t)
  BY <1>1, <1>3, <1>7 DEF PageRefused
<1>8. CASE PageFails(t)
  BY <1>1, <1>3, <1>8 DEF PageFails
<1>9. CASE Prices(t)
  <2>1. PICK found \in SUBSET MarketNames(task[t]) :
            Set(t, Proceed([task[t] EXCEPT !.priced = found], 2))
    BY <1>9 DEF Prices
  <2>2. found \subseteq {Described[c].market : c \in Class}
    BY DEF MarketNames, Priceable, Held
  <2>3. PICK own : own = [task[t] EXCEPT !.priced = found]
    OBVIOUS
  <2>4. own \in Flying /\ own.account = task[t].account
    BY <1>2, <2>2, <2>3 DEF Flying
  <2>5. Onwards(own, Proceed(own, 2))
    BY <2>4, ProceedType
  <2>6. Onwards(task[t], Proceed(own, 2))
    BY <2>4, <2>5 DEF Onwards
  <2> QED BY <1>1, <2>1, <2>3, <2>6
<1>10. CASE Boosters(t)
  <2>1. Onwards(task[t], Proceed(task[t], 3))
    BY <1>2, ProceedType
  <2> QED BY <1>1, <1>10, <2>1 DEF Boosters
<1>11. CASE Gems(t)
  <2>1. PICK found \in SUBSET GemKeys(task[t]) :
            Set(t, Proceed([task[t] EXCEPT !.valued = found], 4))
    BY <1>11 DEF Gems
  <2>2. found \subseteq {Described[c].gem : c \in Class}
    BY DEF GemKeys, GemItems, Held
  <2>3. PICK own : own = [task[t] EXCEPT !.valued = found]
    OBVIOUS
  <2>4. own \in Flying /\ own.account = task[t].account
    BY <1>2, <2>2, <2>3 DEF Flying
  <2>5. Onwards(own, Proceed(own, 4))
    BY <2>4, ProceedType
  <2>6. Onwards(task[t], Proceed(own, 4))
    BY <2>4, <2>5 DEF Onwards
  <2> QED BY <1>1, <2>1, <2>3, <2>6
<1>12. CASE Unwind(t)
  BY <1>1, <1>3, <1>12 DEF Unwind
<1> QED
  BY <1>4, <1>5, <1>6, <1>7, <1>8, <1>9, <1>10, <1>11, <1>12 DEF Works

\* A step that sets one running task leaves the table right.
LEMMA WorkKeeps ==
    ASSUME FlightInv, NEW t \in Requests, Works(t)
    PROVE  FlightInv'
<1>1. Running(t) /\ task[t] \in Flying /\ TypeOK
  BY WorkLeadsOnwards, Kinds DEF FlightInv
<1>2. PICK next : Onwards(task[t], next) /\ Set(t, next)
  BY WorkLeadsOnwards DEF FlightInv
<1>3. /\ task' = [task EXCEPT ![t] = next]
      /\ UNCHANGED <<keyed, service, inflight, waits>>
  BY <1>2 DEF Set
<1>4. /\ \A u \in Requests : u # t => task'[u] = task[u]
      /\ task'[t] = next
  BY <1>1, <1>3 DEF TypeOK
<1>5. next \in Flying \union Landed
  BY <1>2 DEF Onwards
<1>6. TypeOK'
  BY <1>1, <1>3, <1>5 DEF TypeOK
<1>7. SingleFlight'
  <2> SUFFICES ASSUME NEW u \in Requests, Running(u)'
               PROVE  inflight'[task'[u].account] = u
    BY DEF SingleFlight
  <2>1. CASE u # t
    BY <1>3, <1>4, <2>1 DEF FlightInv, SingleFlight, Running
  <2>2. CASE u = t
    <3>1. next \in Flying /\ next.account = task[t].account
      BY <1>2, <1>4, <2>2, Phases DEF Onwards, Running
    <3> QED BY <1>1, <1>3, <1>4, <2>2, <3>1 DEF FlightInv, SingleFlight
  <2> QED BY <2>1, <2>2
<1>8. ResultsNotKept'
  <2> SUFFICES ASSUME NEW a \in Accounts, inflight'[a] # None
               PROVE  \/ task'[inflight'[a]].phase \in Fetching
                      \/ task'[inflight'[a]].phase = "done" /\ ~task'[inflight'[a]].told
    BY DEF ResultsNotKept, Running
  <2>1. inflight[a] \in Requests
    BY <1>1, <1>3 DEF TypeOK
  <2>2. CASE inflight[a] = t
    BY <1>2, <1>3, <1>4, <2>2, Phases DEF Onwards
  <2>3. CASE inflight[a] # t
    BY <1>3, <1>4, <2>1, <2>3 DEF FlightInv, ResultsNotKept, Running
  <2> QED BY <2>2, <2>3
<1>9. service # "stopped" /\ StopLeavesNothing'
  BY <1>1, <1>3 DEF FlightInv, StopLeavesNothing
<1> QED
  BY <1>6, <1>7, <1>8, <1>9 DEF FlightInv

\* What a step over the table must bring about for the tasks and the table to agree;
\* dropping the tasks nobody can reach disturbs none of it (Reachable).
LEMMA BecomeKeeps ==
    ASSUME NEW tasks \in [Requests -> Flying \union Landed \union {Absent}],
           NEW table \in [Accounts -> Requests \union {None}],
           NEW waiting \in [Requests -> Requests \union {None}],
           Become(tasks, table, waiting),
           \A t \in Requests : tasks[t].phase \in Fetching => table[tasks[t].account] = t,
           \A a \in Accounts : table[a] # None =>
                \/ tasks[table[a]].phase \in Fetching
                \/ tasks[table[a]].phase = "done" /\ ~tasks[table[a]].told
    PROVE  /\ task' \in [Requests -> Flying \union Landed \union {Absent}]
           /\ inflight' = table /\ waits' = waiting
           /\ SingleFlight' /\ ResultsNotKept'
           /\ \A t \in Requests : Running(t)' => tasks[t].phase \in Fetching
<1>1. inflight' = table /\ waits' = waiting /\ task' = Reachable(tasks, table, waiting)
  BY DEF Become
<1>2. task' \in [Requests -> Flying \union Landed \union {Absent}]
  BY <1>1 DEF Reachable
<1>3. \A t \in Requests : task'[t] = tasks[t] \/ task'[t] = Absent
  BY <1>1 DEF Reachable
<1>4. \A t \in Requests : Running(t)' => task'[t] = tasks[t] /\ tasks[t].phase \in Fetching
  BY <1>3, Phases DEF Running
<1>5. SingleFlight'
  BY <1>1, <1>4 DEF SingleFlight
<1>6. ASSUME NEW a \in Accounts, table[a] # None
      PROVE  task'[table[a]] = tasks[table[a]]
  BY <1>1, <1>6 DEF Reachable
<1>7. ResultsNotKept'
  BY <1>1, <1>6 DEF ResultsNotKept, Running
<1> QED
  BY <1>1, <1>2, <1>4, <1>5, <1>7

\* Discarding a task that is done takes nothing from one that runs, and no entry of
\* the task remains (_discard_inventory_task).
LEMMA DiscardKeeps ==
    ASSUME FlightInv, NEW t \in Requests
    PROVE  /\ Discarded(t) \in [Accounts -> Requests \union {None}]
           /\ \A u \in Requests : Running(u) => Discarded(t)[task[u].account] = u
           /\ \A a \in Accounts : Discarded(t)[a] # None =>
                /\ Discarded(t)[a] = inflight[a]
                /\ task[t].phase = "done" => inflight[a] # t
<1>1. inflight \in [Accounts -> Requests \union {None}]
  BY DEF FlightInv, TypeOK
<1>2. \A a \in Accounts : Discarded(t)[a] =
        IF inflight[a] = t /\ task[t].phase = "done" THEN None ELSE inflight[a]
  BY DEF Discarded
<1>3. Discarded(t) \in [Accounts -> Requests \union {None}]
  BY <1>1 DEF Discarded
<1>4. ASSUME NEW u \in Requests, Running(u)
      PROVE  Discarded(t)[task[u].account] = u
  <2>1. task[u].account \in Accounts
    BY <1>4, Kinds DEF FlightInv, Flying
  <2>2. inflight[task[u].account] = u
    BY <1>4 DEF FlightInv, SingleFlight
  <2>3. u = t => task[t].phase # "done"
    BY <1>4, Phases DEF Running
  <2> QED BY <1>2, <2>1, <2>2, <2>3
<1> QED
  BY <1>2, <1>3, <1>4

\* The steps that change who waits, by way of a discard: JoinDone, Resume, Abort.
LEMMA WaitersKeep ==
    ASSUME FlightInv, NEW t \in Requests,
           NEW waiting \in [Requests -> Requests \union {None}],
           Become(task, Discarded(t), waiting),
           UNCHANGED <<keyed, service>>
    PROVE  FlightInv'
<1>1. task \in [Requests -> Flying \union Landed \union {Absent}]
  BY DEF FlightInv, TypeOK
<1>2. \A a \in Accounts : Discarded(t)[a] # None =>
        \/ task[Discarded(t)[a]].phase \in Fetching
        \/ task[Discarded(t)[a]].phase = "done" /\ ~task[Discarded(t)[a]].told
  BY DiscardKeeps DEF FlightInv, ResultsNotKept, Running
<1>3. \A u \in Requests : task[u].phase \in Fetching => Discarded(t)[task[u].account] = u
  BY DiscardKeeps DEF Running
<1>4. Discarded(t) \in [Accounts -> Requests \union {None}]
  BY DiscardKeeps
<1>5. /\ task' \in [Requests -> Flying \union Landed \union {Absent}]
      /\ inflight' = Discarded(t) /\ waits' = waiting
      /\ SingleFlight' /\ ResultsNotKept'
      /\ \A u \in Requests : Running(u)' => task[u].phase \in Fetching
  BY <1>1, <1>2, <1>3, <1>4, BecomeKeeps
<1>6. TypeOK'
  BY <1>4, <1>5 DEF FlightInv, TypeOK
<1>7. StopLeavesNothing'
  BY <1>5, DiscardKeeps DEF FlightInv, StopLeavesNothing, Running
<1> QED
  BY <1>5, <1>6, <1>7 DEF FlightInv

\* Every step of the requests, the tasks and stop keeps the invariant.
LEMMA FlightInvNext == FlightInv /\ [Next]_vars => FlightInv'
<1> SUFFICES ASSUME FlightInv, [Next]_vars
             PROVE  FlightInv'
  OBVIOUS
<1> USE DEF FlightInv
<1>0. None \notin Requests
  BY FetchAssumption
<1>1. ASSUME NEW r \in Requests, NEW a \in Accounts, Create(r, a)
      PROVE  FlightInv'
  <2>1. /\ task' = [task EXCEPT ![r] = Blank(a)]
        /\ inflight' = [inflight EXCEPT ![a] = r]
        /\ waits' = [waits EXCEPT ![r] = r]
        /\ UNCHANGED <<keyed, service>>
        /\ service = "running" /\ task[r] = Absent /\ inflight[a] = None
    BY <1>1 DEF Create
  <2>2. /\ Blank(a) \in Flying /\ Blank(a).account = a
        /\ Blank(a).phase \in Fetching
    BY NothingGiven DEF Blank, Flying, Fetching
  <2>3. TypeOK'
    BY <2>1, <2>2 DEF TypeOK
  <2>4. SingleFlight'
    <3> SUFFICES ASSUME NEW u \in Requests, Running(u)'
                 PROVE  inflight'[task'[u].account] = u
      BY DEF SingleFlight
    <3>1. CASE u = r
      BY <2>1, <2>2, <3>1 DEF TypeOK
    <3>2. CASE u # r
      <4>1. task'[u] = task[u] /\ Running(u) /\ inflight[task[u].account] = u
        BY <2>1, <3>2 DEF TypeOK, Running, SingleFlight
      <4>2. task[u].account # a
        BY <1>0, <2>1, <4>1
      <4> QED BY <2>1, <4>1, <4>2 DEF TypeOK
    <3> QED BY <3>1, <3>2
  <2>5. ResultsNotKept'
    <3> SUFFICES ASSUME NEW b \in Accounts, inflight'[b] # None
                 PROVE  \/ task'[inflight'[b]].phase \in Fetching
                        \/ task'[inflight'[b]].phase = "done" /\ ~task'[inflight'[b]].told
      BY DEF ResultsNotKept, Running
    <3>1. CASE b = a
      BY <2>1, <2>2, <3>1 DEF TypeOK
    <3>2. CASE b # a
      <4>1. inflight'[b] = inflight[b] /\ inflight[b] \in Requests
        BY <2>1, <3>2 DEF TypeOK
      <4>2. \/ task[inflight[b]].phase \in Fetching
            \/ task[inflight[b]].phase = "done" /\ ~task[inflight[b]].told
        BY <4>1 DEF ResultsNotKept, Running
      <4>3. inflight[b] # r
        BY <2>1, <4>2, Phases
      <4> QED BY <2>1, <4>1, <4>2, <4>3 DEF TypeOK
    <3> QED BY <3>1, <3>2
  <2> QED
    BY <2>1, <2>3, <2>4, <2>5 DEF StopLeavesNothing
<1>2. ASSUME NEW r \in Requests, NEW a \in Accounts, Join(r, a)
      PROVE  FlightInv'
  <2>1. /\ waits' = [waits EXCEPT ![r] = inflight[a]]
        /\ UNCHANGED <<keyed, service, inflight, task>>
    BY <1>2 DEF Join
  <2> QED
    BY <2>1 DEF TypeOK, SingleFlight, ResultsNotKept, StopLeavesNothing, Running
<1>3. ASSUME NEW r \in Requests, NEW a \in Accounts, JoinDone(r, a)
      PROVE  FlightInv'
  <2>1. inflight[a] \in Requests /\ waits \in [Requests -> Requests \union {None}]
    BY <1>3 DEF JoinDone, TypeOK
  <2> QED
    BY <1>3, <2>1, WaitersKeep DEF JoinDone
<1>4. ASSUME NEW r \in Requests, Resume(r)
      PROVE  FlightInv'
  <2>1. /\ waits[r] \in Requests
        /\ [waits EXCEPT ![r] = None] \in [Requests -> Requests \union {None}]
    BY <1>4 DEF Resume, TypeOK
  <2> QED
    BY <1>4, <2>1, WaitersKeep DEF Resume
<1>5. ASSUME NEW r \in Requests, Abort(r)
      PROVE  FlightInv'
  <2>1. /\ waits[r] \in Requests
        /\ [waits EXCEPT ![r] = None] \in [Requests -> Requests \union {None}]
    BY <1>5 DEF Abort, TypeOK
  <2> QED
    BY <1>5, <2>1, WaitersKeep DEF Abort
<1>6. ASSUME NEW t \in Requests, Works(t)
      PROVE  FlightInv'
  BY <1>6, WorkKeeps
<1>7. ASSUME NEW t \in Requests, Callback(t)
      PROVE  FlightInv'
  <2> DEFINE tasks == [task EXCEPT ![t].told = TRUE]
  <2>1. /\ task[t].phase = "done" /\ Become(tasks, Discarded(t), waits)
        /\ UNCHANGED <<keyed, service>>
    BY <1>7 DEF Callback
  <2>2. task[t] \in Landed
    BY <2>1, Kinds
  <2>3. /\ [task[t] EXCEPT !.told = TRUE] \in Landed
        /\ [task[t] EXCEPT !.told = TRUE].phase = "done"
    BY <2>2 DEF Landed
  <2>4. /\ tasks \in [Requests -> Flying \union Landed \union {Absent}]
        /\ tasks[t].phase = "done"
        /\ \A u \in Requests : u # t => tasks[u] = task[u]
    BY <2>3 DEF TypeOK
  <2> HIDE DEF tasks
  <2>5. \A u \in Requests : tasks[u].phase \in Fetching => Discarded(t)[task[u].account] = u /\ u # t
    BY <2>4, DiscardKeeps, Phases DEF Running
  <2>6. \A u \in Requests : tasks[u].phase \in Fetching => Discarded(t)[tasks[u].account] = u
    BY <2>4, <2>5
  <2>7. ASSUME NEW a \in Accounts, Discarded(t)[a] # None
        PROVE  \/ tasks[Discarded(t)[a]].phase \in Fetching
               \/ tasks[Discarded(t)[a]].phase = "done" /\ ~tasks[Discarded(t)[a]].told
    <3>1. Discarded(t)[a] = inflight[a] /\ inflight[a] # t /\ inflight[a] \in Requests
      BY <2>1, <2>7, DiscardKeeps DEF TypeOK
    <3> QED BY <2>4, <2>7, <3>1 DEF ResultsNotKept, Running
  <2>8. Discarded(t) \in [Accounts -> Requests \union {None}]
    BY DiscardKeeps
  <2>9. waits \in [Requests -> Requests \union {None}]
    BY DEF TypeOK
  <2>10. /\ task' \in [Requests -> Flying \union Landed \union {Absent}]
         /\ inflight' = Discarded(t) /\ waits' = waits
         /\ SingleFlight' /\ ResultsNotKept'
         /\ \A u \in Requests : Running(u)' => tasks[u].phase \in Fetching
    BY <2>1, <2>4, <2>6, <2>7, <2>8, <2>9, BecomeKeeps
  <2>11. TypeOK'
    BY <2>1, <2>8, <2>10 DEF TypeOK
  <2>12. StopLeavesNothing'
    BY <2>1, <2>4, <2>5, <2>10, DiscardKeeps DEF StopLeavesNothing, Running
  <2> QED
    BY <2>10, <2>11, <2>12
<1>8. CASE Stop
  <2>1. /\ service' = "stopping"
        /\ UNCHANGED <<keyed, inflight, waits>>
    BY <1>8 DEF Stop
  <2>2. ASSUME NEW t \in Requests
        PROVE  \/ task'[t] = task[t]
               \/ /\ Running(t) /\ task'[t] \in Flying /\ task'[t].account = task[t].account
                  /\ task'[t].phase \in Fetching
    <3>1. task'[t] = IF Running(t) /\ t \in Range(inflight)
                     THEN [task[t] EXCEPT !.phase = "cancelling"] ELSE task[t]
      BY <1>8 DEF Stop
    <3>2. Running(t) => task[t] \in Flying
      BY Kinds
    <3> QED BY <3>1, <3>2 DEF Flying, Fetching
  <2>3. TypeOK'
    <3>1. task' = [t \in Requests |-> task'[t]]
      BY <1>8 DEF Stop
    <3>2. \A t \in Requests : task'[t] \in Flying \union Landed \union {Absent}
      BY <2>2 DEF TypeOK
    <3>3. task' \in [Requests -> Flying \union Landed \union {Absent}]
      BY <3>1, <3>2
    <3> QED BY <2>1, <3>3 DEF TypeOK
  <2>4. SingleFlight'
    BY <2>1, <2>2 DEF SingleFlight, Running
  <2>5. ResultsNotKept'
    BY <2>1, <2>2 DEF ResultsNotKept, Running, TypeOK
  <2> QED
    BY <2>1, <2>3, <2>4, <2>5 DEF StopLeavesNothing
<1>9. CASE Stopped
  <2> DEFINE empty == [a \in Accounts |-> None]
  <2>1. /\ \A t \in Range(inflight) \ {None} : ~Running(t)
        /\ Become(task, empty, waits)
        /\ UNCHANGED keyed /\ service' = "stopped"
    BY <1>9 DEF Stopped
  <2>2. ASSUME NEW t \in Requests
        PROVE  ~Running(t)
    <3> SUFFICES ASSUME Running(t)
                 PROVE  FALSE
      OBVIOUS
    <3>1. task[t].account \in Accounts /\ inflight[task[t].account] = t
      BY Kinds DEF SingleFlight, Flying
    <3>2. t \in Range(inflight) \ {None}
      BY <1>0, <3>1 DEF Range, TypeOK
    <3> QED BY <2>1, <3>2
  <2>3. /\ task \in [Requests -> Flying \union Landed \union {Absent}]
        /\ waits \in [Requests -> Requests \union {None}]
        /\ empty \in [Accounts -> Requests \union {None}]
        /\ \A a \in Accounts : empty[a] = None
    BY DEF TypeOK
  <2> HIDE DEF empty
  <2>4. /\ task' \in [Requests -> Flying \union Landed \union {Absent}]
        /\ inflight' = empty /\ waits' = waits
        /\ SingleFlight' /\ ResultsNotKept'
        /\ \A u \in Requests : Running(u)' => task[u].phase \in Fetching
    BY <2>1, <2>2, <2>3, BecomeKeeps DEF Running
  <2> QED
    BY <2>1, <2>2, <2>3, <2>4 DEF TypeOK, StopLeavesNothing, Running
<1>10. CASE Restart
  BY <1>10 DEF Restart, TypeOK, SingleFlight, ResultsNotKept, StopLeavesNothing, Running
<1>11. CASE UNCHANGED vars
  BY <1>11 DEF vars, TypeOK, SingleFlight, ResultsNotKept, StopLeavesNothing, Running
<1> QED
  BY <1>1, <1>2, <1>3, <1>4, <1>5, <1>6, <1>7, <1>8, <1>9, <1>10, <1>11 DEF Next, Works

\* The invariant holds in every behaviour of the client.
THEOREM FlightsAgree == Spec => []FlightInv
<1>1. Init => FlightInv
  <2> SUFFICES ASSUME Init
               PROVE  FlightInv
    OBVIOUS
  <2>1. TypeOK
    BY DEF Init, TypeOK
  <2>2. \A t \in Requests : ~Running(t)
    BY Phases DEF Init, Running
  <2>3. \A a \in Accounts : inflight[a] = None
    BY DEF Init
  <2> QED
    BY <2>1, <2>2, <2>3 DEF FlightInv, SingleFlight, ResultsNotKept, StopLeavesNothing
<1> QED
  BY <1>1, FlightInvNext, PTL DEF Spec

-----------------------------------------------------------------------------
(* What is read and answered *)

\* The pages a task has asked for or is about to ask for.
Reached(own) == {None} \union own.seen

\* What a task has gathered is what the pages of P hold.
Gathers(pages, own, P) ==
    /\ \A c \in Class : own.assets[c] = SumFunction([p \in P |-> pages[p].assets[c]])
    /\ \A c \in own.described : \E p \in P : c \in pages[p].described

\* Whatever has the first page, and with a page given the one it names, has all pages
\* the task has reached.
AllLed(own) ==
    \A P \in SUBSET (Cursors \union {None}) :
        /\ None \in P
        /\ \A p \in P : p \in DOMAIN own.given => own.given[p].last \in P
        => Reached(own) \subseteq P

\* A task that is about to ask for the page under its cursor has been given all other
\* pages it has reached, each of which named another, and holds what is on them.
Reading(own) ==
    /\ own.cursor \in Reached(own) /\ IsFiniteSet(own.seen)
    /\ DOMAIN own.given = Reached(own) \ {own.cursor}
    /\ \A p \in DOMAIN own.given :
            own.given[p].more /\ own.given[p].last # None /\ own.given[p].last \in own.seen
    /\ AllLed(own)
    /\ Gathers(own.given, own, DOMAIN own.given)

\* A task that looks up prices has the whole inventory.
HasAll(own) ==
    /\ IsFiniteSet(Chain(own.given)) /\ Gathers(own.given, own, Chain(own.given))
    /\ Held(own) \subseteq own.described
    /\ \E p \in Chain(own.given) : ~own.given[p].more

OnCourse(own) ==
    /\ own.phase = "new" =>
        /\ own.cursor = None /\ own.seen = {} /\ DOMAIN own.given = {}
        /\ own.assets = [c \in Class |-> 0] /\ own.described = {}
    /\ own.phase = "page" => Reading(own)
    /\ own.phase \in {"prices", "boosters", "gems"} => HasAll(own)

\* WholeInventory and StatusTruthful of one answer.
IsWhole(pages, answer) ==
    /\ \A c \in Class : answer.items[c] = SumFunction([p \in Chain(pages) |-> pages[p].assets[c]])
    /\ \A c \in Class : answer.items[c] > 0 =>
            \E p \in Chain(pages) : c \in pages[p].described
    /\ \E p \in Chain(pages) : ~pages[p].more

Owned(pages) == {c \in Class : \E p \in Chain(pages) : pages[p].assets[c] > 0}

IsTrue(pages, answer) ==
    /\ answer.prices = "complete" <=>
            \A c \in Owned(pages) : Described[c].marketable => c \in answer.priced
    /\ answer.gems = "complete" <=>
            \A c \in Owned(pages) : Described[c].gem # None => c \in answer.valued
    /\ answer.prices = "unavailable" => answer.priced = {}
    /\ answer.gems = "unavailable" => answer.valued = {}

Good(own) ==
    /\ own.phase \in Fetching => OnCourse(own)
    /\ (own.phase = "done" /\ own.answer.status = "public") =>
            IsWhole(own.answer.pages, own.answer) /\ IsTrue(own.answer.pages, own.answer)

ReadInv == \A t \in Requests : Good(task[t])

\* The pages given are pages, under cursors, and the chain is made of them.
LEMMA GivenIs ==
    ASSUME NEW pages \in Given
    PROVE  /\ DOMAIN pages \in SUBSET (Cursors \union {None})
           /\ Chain(pages) \subseteq DOMAIN pages
           /\ \A p \in DOMAIN pages : pages[p] \in Page
<1>1. PICK P \in SUBSET (Cursors \union {None}) : pages \in [P -> Page]
  BY DEF Given
<1>2. DOMAIN pages = P /\ \A p \in P : pages[p] \in Page
  BY <1>1
<1> QED
  BY <1>1, <1>2 DEF Chain

\* One more page, and what it holds.
LEMMA GathersPage ==
    ASSUME NEW pages, NEW P, IsFiniteSet(P), NEW q, q \notin P, NEW page \in Page,
           \A p \in P : pages[p] \in Page,
           NEW longer, longer[q] = page, \A p \in P : longer[p] = pages[p],
           NEW own \in Flying, Gathers(pages, own, P),
           NEW next \in Flying,
           next.assets = [c \in Class |-> own.assets[c] + page.assets[c]],
           next.described = own.described \union page.described
    PROVE  Gathers(longer, next, P \union {q})
<1>1. ASSUME NEW c \in Class
      PROVE  next.assets[c] = SumFunction([p \in P \union {q} |-> longer[p].assets[c]])
  <2>1. PICK f : f = [p \in P \union {q} |-> longer[p].assets[c]]
    OBVIOUS
  <2>2. PICK g : g = [p \in P |-> pages[p].assets[c]]
    OBVIOUS
  <2>3. /\ DOMAIN f = P \union {q} /\ DOMAIN g = P
        /\ \A p \in P \union {q} : f[p] \in Int
        /\ \A p \in P : f[p] = g[p]
        /\ f[q] = page.assets[c]
    BY <2>1, <2>2 DEF Page
  <2>4. IsFiniteSet(P \union {q}) /\ (P \union {q}) \ {q} = P
    BY FS_AddElement
  <2>5. SumFunctionOnSet(f, P \union {q}) = f[q] + SumFunctionOnSet(f, (P \union {q}) \ {q})
    BY <2>3, <2>4, SumRemove
  <2>6. SumFunctionOnSet(f, P) = SumFunctionOnSet(g, P)
    BY <2>3, SumSame
  <2>7. SumFunctionOnSet(f, P \union {q}) = f[q] + SumFunctionOnSet(g, P)
    BY <2>4, <2>5, <2>6
  <2>8. own.assets[c] = SumFunctionOnSet(g, P)
    BY <2>2, <2>3 DEF Gathers, SumFunction
  <2>9. next.assets[c] = own.assets[c] + f[q]
    BY <2>3
  <2>10. own.assets[c] \in Int /\ f[q] \in Int
    BY <2>3 DEF Flying
  <2>11. SumFunction(f) = SumFunctionOnSet(f, P \union {q})
    BY <2>3 DEF SumFunction
  <2> QED BY <2>1, <2>7, <2>8, <2>9, <2>10, <2>11
<1>2. \A c \in next.described : \E p \in P \union {q} : c \in longer[p].described
  BY DEF Gathers
<1> QED
  BY <1>1, <1>2 DEF Gathers

\* Nothing is gathered before the first page.
LEMMA GathersNothing ==
    ASSUME NEW pages, NEW own, own.assets = [c \in Class |-> 0], own.described = {}
    PROVE  Gathers(pages, own, {})
<1>1. ASSUME NEW c \in Class PROVE SumFunction([p \in {} |-> pages[p].assets[c]]) = 0
  <2>1. PICK f : f = [p \in {} |-> pages[p].assets[c]]
    OBVIOUS
  <2>2. DOMAIN f = {}
    BY <2>1
  <2> QED BY <2>1, <2>2, SumEmpty DEF SumFunction
<1> QED
  BY <1>1 DEF Gathers

\* What is held of the whole inventory is what the account has.
LEMMA HeldIsOwned ==
    ASSUME NEW own \in Flying, HasAll(own), NEW pages, pages = own.given
    PROVE  Held(own) = Owned(pages)
<1>0. pages \in Given
  BY DEF Flying
<1>1. ASSUME NEW c \in Class
      PROVE  own.assets[c] > 0 <=> \E p \in Chain(pages) : pages[p].assets[c] > 0
  <2>1. PICK f : f = [p \in Chain(pages) |-> pages[p].assets[c]]
    OBVIOUS
  <2>2. /\ DOMAIN f = Chain(pages)
        /\ \A p \in Chain(pages) : f[p] = pages[p].assets[c] /\ f[p] \in Nat
    <3>1. \A p \in Chain(pages) : pages[p] \in Page
      BY <1>0, GivenIs
    <3> QED BY <2>1, <3>1 DEF Page
  <2>3. SumFunctionOnSet(f, Chain(pages)) > 0 <=> \E p \in Chain(pages) : f[p] > 0
    BY <2>2, SumPositive DEF HasAll
  <2>4. own.assets[c] = SumFunctionOnSet(f, Chain(pages))
    BY <2>1, <2>2 DEF HasAll, Gathers, SumFunction
  <2> QED BY <2>2, <2>3, <2>4
<1> QED
  BY <1>1 DEF Held, Owned

\* The answer computed from the whole inventory is whole and true.
LEMMA AnswerIsGood ==
    ASSUME NEW own \in Flying, HasAll(own), NEW pages, pages = own.given
    PROVE  IsWhole(pages, Answer(own)) /\ IsTrue(pages, Answer(own))
<1>1. Held(own) = Owned(pages)
  BY HeldIsOwned
<1>2. /\ Answer(own).items = own.assets
      /\ Answer(own).priced = Priced(own) /\ Answer(own).valued = Valued(own)
      /\ Answer(own).prices = StatusOf(Priced(own), Priceable(own))
      /\ Answer(own).gems = StatusOf(Valued(own), GemItems(own))
  BY DEF Answer
<1>3. IsWhole(pages, Answer(own))
  <2>1. \A c \in Class : own.assets[c] > 0 => \E p \in Chain(pages) : c \in pages[p].described
    BY DEF HasAll, Gathers, Held
  <2> QED BY <1>2, <2>1 DEF IsWhole, HasAll, Gathers
<1>4. ASSUME NEW have, NEW of
      PROVE  /\ StatusOf(have, of) = "complete" <=> have = of
             /\ StatusOf(have, of) = "unavailable" => have = {}
  BY DEF StatusOf
<1>5. /\ Priced(own) \subseteq Priceable(own)
      /\ Priceable(own) = {c \in Owned(pages) : Described[c].marketable}
  BY <1>1 DEF Priced, Priceable
<1>6. /\ Valued(own) \subseteq GemItems(own)
      /\ GemItems(own) = {c \in Owned(pages) : Described[c].gem # None}
  BY <1>1 DEF Valued, GemItems
<1>7. IsTrue(pages, Answer(own))
  <2>1. /\ Answer(own).prices = "complete" <=> Priced(own) = Priceable(own)
        /\ Answer(own).gems = "complete" <=> Valued(own) = GemItems(own)
        /\ Answer(own).prices = "unavailable" => Priced(own) = {}
        /\ Answer(own).gems = "unavailable" => Valued(own) = {}
    BY <1>2, <1>4
  <2>2. Priced(own) = Priceable(own) <=>
            \A c \in Owned(pages) : Described[c].marketable => c \in Priced(own)
    BY <1>5
  <2>3. Valued(own) = GemItems(own) <=>
            \A c \in Owned(pages) : Described[c].gem # None => c \in Valued(own)
    BY <1>6
  <2> QED BY <1>2, <2>1, <2>2, <2>3 DEF IsTrue
<1> QED
  BY <1>3, <1>7

\* A task as it is after a page under its cursor.
Grown(own, page, next) ==
    /\ next.assets = [c \in Class |-> own.assets[c] + page.assets[c]]
    /\ next.described = own.described \union page.described
    /\ next.given = [p \in DOMAIN own.given \union {own.cursor} |->
                        IF p = own.cursor THEN page ELSE own.given[p]]

\* The page joins the pages given, and its items those that are held.
LEMMA PageIsAdded ==
    ASSUME NEW own \in Flying, Reading(own), NEW page \in Page,
           NEW next \in Flying, Grown(own, page, next)
    PROVE  /\ DOMAIN next.given = Reached(own) /\ IsFiniteSet(Reached(own))
           /\ next.given[own.cursor] = page
           /\ \A p \in Reached(own) \ {own.cursor} :
                p \in DOMAIN own.given /\ next.given[p] = own.given[p]
           /\ Gathers(next.given, next, Reached(own))
<1> DEFINE P == DOMAIN own.given
<1>1. own.given \in Given /\ own.cursor \in Cursors \union {None}
  BY DEF Flying
<1>2. own.cursor \in Reached(own) /\ P = Reached(own) \ {own.cursor}
  BY DEF Reading
<1>3. own.cursor \notin P /\ P \union {own.cursor} = Reached(own)
  BY <1>2
<1>4. /\ DOMAIN next.given = P \union {own.cursor}
      /\ next.given[own.cursor] = page
      /\ \A p \in P : next.given[p] = own.given[p]
  BY <1>3 DEF Grown
<1>5. \A p \in P : own.given[p] \in Page
  BY <1>1, GivenIs
<1>6. IsFiniteSet(Reached(own))
  <2>1. Reached(own) = own.seen \union {None}
    BY DEF Reached
  <2> QED BY <2>1, FS_AddElement DEF Reading
<1>7. IsFiniteSet(P)
  BY <1>2, <1>6, FS_RemoveElement
<1>8. Gathers(own.given, own, P)
  BY DEF Reading
<1>9. /\ next.assets = [c \in Class |-> own.assets[c] + page.assets[c]]
      /\ next.described = own.described \union page.described
  BY DEF Grown
<1>10. Gathers(next.given, next, P \union {own.cursor})
  <2> HIDE DEF P
  <2> QED BY <1>3, <1>4, <1>5, <1>7, <1>8, <1>9, GathersPage
<1> QED
  BY <1>2, <1>3, <1>4, <1>6, <1>10

\* With the last page a task has been given exactly the chain.
LEMMA ChainIsRead ==
    ASSUME NEW own \in Flying, Reading(own), NEW page \in Page, ~page.more,
           NEW next \in Flying, Grown(own, page, next)
    PROVE  Chain(next.given) = Reached(own)
<1>1. /\ DOMAIN next.given = Reached(own) /\ next.given[own.cursor] = page
      /\ \A p \in Reached(own) \ {own.cursor} :
           p \in DOMAIN own.given /\ next.given[p] = own.given[p]
  BY PageIsAdded
<1>2. Reached(own) \in SUBSET (Cursors \union {None})
  BY DEF Reached, Flying
<1>3. ASSUME NEW P \in SUBSET Reached(own), None \in P,
             \A p \in P : next.given[p].more /\ next.given[p].last # None
                            => next.given[p].last \in P
      PROVE  Reached(own) \subseteq P
  <2>1. ASSUME NEW p \in P, p \in DOMAIN own.given
        PROVE  own.given[p].last \in P
    <3>1. p \in Reached(own) \ {own.cursor}
      BY <2>1 DEF Reading
    <3>2. next.given[p] = own.given[p] /\ own.given[p].more /\ own.given[p].last # None
      BY <1>1, <2>1, <3>1 DEF Reading
    <3> QED BY <1>3, <3>2
  <2>2. P \in SUBSET (Cursors \union {None})
    BY <1>2
  <2> QED BY <1>3, <2>1, <2>2 DEF Reading, AllLed
<1> QED
  BY <1>1, <1>3 DEF Chain

\* With a page that names the next a task goes on reading.
LEMMA ReadsOn ==
    ASSUME NEW own \in Flying, Reading(own), NEW page \in Page,
           page.more, page.last # None, page.last \in Cursors, page.last \notin own.seen,
           NEW mid \in Flying, Grown(own, page, mid),
           NEW next, next.cursor = page.last, next.seen = own.seen \union {page.last},
           next.given = mid.given, next.assets = mid.assets, next.described = mid.described
    PROVE  Reading(next)
<1>1. /\ DOMAIN next.given = Reached(own) /\ next.given[own.cursor] = page
      /\ \A p \in Reached(own) \ {own.cursor} :
           p \in DOMAIN own.given /\ next.given[p] = own.given[p]
  BY PageIsAdded
<1>2. Gathers(next.given, next, DOMAIN next.given)
  <2>1. Gathers(mid.given, mid, Reached(own))
    BY PageIsAdded
  <2> QED BY <1>1, <2>1 DEF Gathers
<1>3. /\ next.cursor \in Reached(next) /\ IsFiniteSet(next.seen)
      /\ DOMAIN next.given = Reached(next) \ {next.cursor}
  BY <1>1, FS_AddElement DEF Reading, Reached
<1>4. ASSUME NEW p \in DOMAIN next.given
      PROVE  /\ next.given[p].more /\ next.given[p].last # None
             /\ next.given[p].last \in next.seen
  <2>1. CASE p = own.cursor
    BY <1>1, <2>1
  <2>2. CASE p # own.cursor
    BY <1>1, <1>4, <2>2 DEF Reading
  <2> QED BY <2>1, <2>2
<1>5. ASSUME NEW P \in SUBSET (Cursors \union {None}), None \in P,
             \A p \in P : p \in DOMAIN next.given => next.given[p].last \in P
      PROVE  Reached(next) \subseteq P
  <2>1. ASSUME NEW p \in P, p \in DOMAIN own.given
        PROVE  own.given[p].last \in P
    <3>1. p \in Reached(own) \ {own.cursor}
      BY <2>1 DEF Reading
    <3> QED BY <1>1, <1>5, <3>1
  <2>2. Reached(own) \subseteq P
    BY <1>5, <2>1 DEF Reading, AllLed
  <2>3. own.cursor \in P /\ own.cursor \in DOMAIN next.given
    BY <1>1, <2>2 DEF Reading
  <2>4. page.last \in P
    BY <1>1, <1>5, <2>3
  <2> QED BY <2>2, <2>4 DEF Reached
<1>6. AllLed(next)
  BY <1>5 DEF AllLed
<1> QED
  BY <1>2, <1>3, <1>4, <1>6 DEF Reading

LEMMA HasAllSame ==
    ASSUME NEW own, NEW next, HasAll(own), next.given = own.given,
           next.assets = own.assets, next.described = own.described
    PROVE  HasAll(next)
BY DEF HasAll, Gathers, Held

\* A refusal says nothing of the inventory.
LEMMA RefusalIsGood ==
    ASSUME NEW answer \in {Unavailable, Private, Cancelled}
    PROVE  Good(Done(answer))
<1>1. Done(answer).phase = "done" /\ Done(answer).answer = answer
  BY DEF Done
<1>2. answer.status # "public"
  BY DEF Unavailable, Private, Cancelled
<1> QED
  BY <1>1, <1>2, Phases DEF Good

\* A task with the whole inventory goes on with it or answers it.
LEMMA ProceedIsGood ==
    ASSUME NEW own \in Flying, NEW n \in 1..4, HasAll(own)
    PROVE  Good(Proceed(own, n))
<1>1. CASE Proceed(own, n) = Done(Answer(own))
  <2>1. /\ Done(Answer(own)).phase = "done" /\ Done(Answer(own)).answer = Answer(own)
        /\ Answer(own).pages = own.given
    BY DEF Done, Answer
  <2>2. IsWhole(own.given, Answer(own)) /\ IsTrue(own.given, Answer(own))
    BY AnswerIsGood
  <2> QED BY <1>1, <2>1, <2>2, Phases DEF Good
<1>2. ASSUME NEW phase \in {"prices", "boosters", "gems"},
             Proceed(own, n) = [own EXCEPT !.phase = phase]
      PROVE  Good(Proceed(own, n))
  <2>1. PICK next : next = [own EXCEPT !.phase = phase]
    OBVIOUS
  <2>2. /\ next.phase = phase /\ next.given = own.given
        /\ next.assets = own.assets /\ next.described = own.described
    BY <2>1 DEF Flying
  <2>3. HasAll(next)
    BY <2>2, HasAllSame
  <2>4. OnCourse(next)
    BY <2>2, <2>3 DEF OnCourse
  <2>5. Good(next)
    BY <2>2, <2>4 DEF Good
  <2> QED BY <1>2, <2>1, <2>5
<1> QED
  BY <1>1, <1>2, ProceedIs

\* Each step of a task keeps it on course or ends it with a good answer.
LEMMA WorkIsGood ==
    ASSUME TypeOK, NEW t \in Requests, Works(t), Good(task[t])
    PROVE  \E next : Set(t, next) /\ Good(next)
<1>1. Running(t) /\ task[t] \in Flying
  BY WorkLeadsOnwards, Kinds
<1>2. OnCourse(task[t])
  BY <1>1 DEF Good, Running
<1>3. ASSUME NEW page \in Offered(t)
      PROVE  /\ Added(t, page) \in Flying /\ page \in Page
             /\ Added(t, page).seen = task[t].seen /\ Added(t, page).phase = task[t].phase
             /\ Grown(task[t], page, Added(t, page))
  BY <1>1, <1>3, AddedType DEF Grown
<1>4. CASE Start(t)
  <2>1. CASE keyed
    <3>1. PICK next : next = [task[t] EXCEPT !.phase = "page"]
      OBVIOUS
    <3>2. Set(t, next)
      BY <1>4, <2>1, <3>1 DEF Start
    <3>3. /\ next.phase = "page" /\ next.cursor = None /\ next.seen = {}
          /\ DOMAIN next.given = {}
          /\ next.assets = [c \in Class |-> 0] /\ next.described = {}
      BY <1>1, <1>2, <1>4, <3>1 DEF OnCourse, Start, Flying
    <3>4. Gathers(next.given, next, DOMAIN next.given)
      BY <3>3, GathersNothing
    <3>5. Reading(next)
      BY <3>3, <3>4, FS_EmptySet DEF Reading, Reached, AllLed
    <3>6. Good(next)
      BY <3>3, <3>5 DEF Good, OnCourse
    <3> QED BY <3>2, <3>6
  <2>2. CASE ~keyed
    BY <1>4, <2>2, RefusalIsGood DEF Start
  <2> QED BY <2>1, <2>2
<1>5. CASE NextPage(t)
  <2>1. Reading(task[t])
    BY <1>2, <1>5 DEF OnCourse, NextPage
  <2>2. PICK page \in Offered(t) :
            /\ Goes(t, page)
            /\ Set(t, [Added(t, page) EXCEPT !.cursor = page.last,
                                             !.seen = @ \union {page.last}])
    BY <1>5 DEF NextPage
  <2>3. PICK mid : mid = Added(t, page)
    OBVIOUS
  <2>4. /\ mid \in Flying /\ page \in Page /\ mid.seen = task[t].seen
        /\ mid.phase = "page" /\ Grown(task[t], page, mid)
    BY <1>3, <1>5, <2>3 DEF NextPage
  <2>5. /\ page.more /\ page.last # None /\ page.last \notin task[t].seen
        /\ page.last \in Cursors
    BY <2>2, <2>4 DEF Goes, Page
  <2>6. PICK next : next = [mid EXCEPT !.cursor = page.last, !.seen = @ \union {page.last}]
    OBVIOUS
  <2>7. Set(t, next)
    BY <2>2, <2>3, <2>6
  <2>8. /\ next.phase = "page" /\ next.cursor = page.last
        /\ next.seen = task[t].seen \union {page.last} /\ next.given = mid.given
        /\ next.assets = mid.assets /\ next.described = mid.described
    BY <2>4, <2>6 DEF Flying
  <2>9. Reading(next)
    BY <1>1, <2>1, <2>4, <2>5, <2>8, ReadsOn
  <2>10. Good(next)
    BY <2>8, <2>9 DEF Good, OnCourse
  <2> QED BY <2>7, <2>10
<1>6. CASE LastPage(t)
  <2>1. Reading(task[t])
    BY <1>2, <1>6 DEF OnCourse, LastPage
  <2>2. PICK page \in Offered(t) :
            /\ ~page.more
            /\ Set(t, IF Held(Added(t, page)) \subseteq Added(t, page).described
                      THEN Proceed(Added(t, page), 1)
                      ELSE Done(Unavailable))
    BY <1>6 DEF LastPage, Ends
  <2>3. PICK mid : mid = Added(t, page)
    OBVIOUS
  <2>4. mid \in Flying /\ page \in Page /\ Grown(task[t], page, mid)
    BY <1>3, <2>3
  <2>5. CASE Held(mid) \subseteq mid.described
    <3>1. Set(t, Proceed(mid, 1))
      BY <2>2, <2>3, <2>5
    <3>2. Chain(mid.given) = Reached(task[t])
      BY <1>1, <2>1, <2>2, <2>4, ChainIsRead
    <3>3. /\ IsFiniteSet(Reached(task[t])) /\ Gathers(mid.given, mid, Reached(task[t]))
          /\ mid.given[task[t].cursor] = page /\ task[t].cursor \in Reached(task[t])
      BY <1>1, <2>1, <2>4, PageIsAdded DEF Reading
    <3>4. HasAll(mid)
      BY <2>2, <2>5, <3>2, <3>3 DEF HasAll
    <3>5. Good(Proceed(mid, 1))
      BY <2>4, <3>4, ProceedIsGood
    <3> QED BY <3>1, <3>5
  <2>6. CASE ~(Held(mid) \subseteq mid.described)
    BY <2>2, <2>3, <2>6, RefusalIsGood
  <2> QED BY <2>5, <2>6
<1>7. CASE PageRefused(t)
  BY <1>7, RefusalIsGood DEF PageRefused
<1>8. CASE PageFails(t)
  BY <1>8, RefusalIsGood DEF PageFails
<1>9. CASE Prices(t)
  <2>1. PICK found \in SUBSET MarketNames(task[t]) :
            Set(t, Proceed([task[t] EXCEPT !.priced = found], 2))
    BY <1>9 DEF Prices
  <2>2. found \subseteq {Described[c].market : c \in Class}
    BY DEF MarketNames, Priceable, Held
  <2>3. PICK own : own = [task[t] EXCEPT !.priced = found]
    OBVIOUS
  <2>4. /\ own \in Flying /\ own.given = task[t].given
        /\ own.assets = task[t].assets /\ own.described = task[t].described
    BY <1>1, <2>2, <2>3 DEF Flying
  <2>5. HasAll(own)
    BY <1>2, <1>9, <2>4, HasAllSame DEF OnCourse, Prices
  <2>6. Good(Proceed(own, 2))
    BY <2>4, <2>5, ProceedIsGood
  <2> QED BY <2>1, <2>3, <2>6
<1>10. CASE Boosters(t)
  <2>1. HasAll(task[t])
    BY <1>2, <1>10 DEF OnCourse, Boosters
  <2>2. Good(Proceed(task[t], 3))
    BY <1>1, <2>1, ProceedIsGood
  <2> QED BY <1>10, <2>2 DEF Boosters
<1>11. CASE Gems(t)
  <2>1. PICK found \in SUBSET GemKeys(task[t]) :
            Set(t, Proceed([task[t] EXCEPT !.valued = found], 4))
    BY <1>11 DEF Gems
  <2>2. found \subseteq {Described[c].gem : c \in Class}
    BY DEF GemKeys, GemItems, Held
  <2>3. PICK own : own = [task[t] EXCEPT !.valued = found]
    OBVIOUS
  <2>4. /\ own \in Flying /\ own.given = task[t].given
        /\ own.assets = task[t].assets /\ own.described = task[t].described
    BY <1>1, <2>2, <2>3 DEF Flying
  <2>5. HasAll(own)
    BY <1>2, <1>11, <2>4, HasAllSame DEF OnCourse, Gems
  <2>6. Good(Proceed(own, 4))
    BY <2>4, <2>5, ProceedIsGood
  <2> QED BY <2>1, <2>3, <2>6
<1>12. CASE Unwind(t)
  BY <1>12, RefusalIsGood DEF Unwind
<1> QED
  BY <1>4, <1>5, <1>6, <1>7, <1>8, <1>9, <1>10, <1>11, <1>12 DEF Works

\* Where nobody can reach a task there is nothing to say of it.
LEMMA AbsentIsGood == Good(Absent)
BY Phases DEF Good, Absent

LEMMA ReadInvNext == TypeOK /\ ReadInv /\ [Next]_vars => ReadInv'
<1> SUFFICES ASSUME TypeOK, ReadInv, [Next]_vars
             PROVE  ReadInv'
  OBVIOUS
<1>1. ASSUME \A t \in Requests : Good(task'[t])
      PROVE  ReadInv'
  BY <1>1 DEF ReadInv
<1>2. ASSUME NEW tasks \in [Requests -> Flying \union Landed \union {Absent}],
             NEW table, NEW waiting, Become(tasks, table, waiting),
             \A t \in Requests : Good(tasks[t])
      PROVE  ReadInv'
  <2>1. \A t \in Requests : task'[t] = tasks[t] \/ task'[t] = Absent
    BY <1>2 DEF Become, Reachable
  <2> QED BY <1>1, <1>2, <2>1, AbsentIsGood
<1>3. task \in [Requests -> Flying \union Landed \union {Absent}]
  BY DEF TypeOK
<1>4. ASSUME NEW r \in Requests, NEW a \in Accounts, Create(r, a)
      PROVE  ReadInv'
  <2>1. task' = [task EXCEPT ![r] = Blank(a)]
    BY <1>4 DEF Create
  <2>2. Good(Blank(a))
    BY DEF Blank, Good, OnCourse, Fetching
  <2> QED BY <1>1, <1>3, <2>1, <2>2 DEF ReadInv
<1>5. ASSUME NEW r \in Requests, NEW a \in Accounts, Join(r, a)
      PROVE  ReadInv'
  BY <1>5 DEF Join, ReadInv
<1>6. ASSUME NEW r \in Requests, NEW a \in Accounts, JoinDone(r, a)
      PROVE  ReadInv'
  BY <1>2, <1>3, <1>6 DEF JoinDone, ReadInv
<1>7. ASSUME NEW r \in Requests, Resume(r)
      PROVE  ReadInv'
  BY <1>2, <1>3, <1>7 DEF Resume, ReadInv
<1>8. ASSUME NEW r \in Requests, Abort(r)
      PROVE  ReadInv'
  BY <1>2, <1>3, <1>8 DEF Abort, ReadInv
<1>9. ASSUME NEW t \in Requests, Works(t)
      PROVE  ReadInv'
  <2>1. PICK next : Set(t, next) /\ Good(next)
    BY <1>9, WorkIsGood DEF ReadInv
  <2> QED BY <1>1, <1>3, <2>1 DEF Set, ReadInv
<1>10. ASSUME NEW t \in Requests, Callback(t)
       PROVE  ReadInv'
  <2> DEFINE own == [task[t] EXCEPT !.told = TRUE]
             tasks == [task EXCEPT ![t] = own]
  <2>1. /\ task[t].phase = "done"
        /\ Become(tasks, Discarded(t), waits)
    BY <1>10 DEF Callback
  <2>2. task[t] \in Landed
    BY <2>1, Kinds
  <2>3. own \in Landed /\ own.phase = "done" /\ own.answer = task[t].answer
    BY <2>2 DEF Landed
  <2>4. Good(own)
    <3> HIDE DEF own
    <3> QED BY <2>1, <2>3, Phases DEF ReadInv, Good
  <2>5. tasks \in [Requests -> Flying \union Landed \union {Absent}]
    <3> HIDE DEF own
    <3> QED BY <1>3, <2>3
  <2>6. \A u \in Requests : Good(tasks[u])
    <3> HIDE DEF own
    <3> QED BY <1>3, <2>4 DEF ReadInv
  <2> HIDE DEF tasks
  <2> QED BY <1>2, <2>1, <2>5, <2>6
<1>11. CASE Stop
  <2>1. ASSUME NEW t \in Requests PROVE Good(task'[t])
    <3>1. \/ task'[t] = task[t]
          \/ Running(t) /\ task'[t] = [task[t] EXCEPT !.phase = "cancelling"]
      BY <1>11 DEF Stop
    <3>2. ASSUME Running(t), task'[t] = [task[t] EXCEPT !.phase = "cancelling"]
          PROVE  Good(task'[t])
      <4>1. task[t] \in Flying
        BY <3>2, Kinds
      <4>2. task'[t].phase = "cancelling"
        BY <3>2, <4>1 DEF Flying
      <4> QED BY <4>2 DEF Good, OnCourse
    <3> QED BY <3>1, <3>2 DEF ReadInv
  <2> QED BY <1>1, <2>1
<1>12. CASE Stopped
  BY <1>2, <1>3, <1>12 DEF Stopped, ReadInv
<1>13. CASE Restart
  BY <1>13, AbsentIsGood DEF Restart, ReadInv
<1>14. CASE UNCHANGED vars
  BY <1>14 DEF vars, ReadInv
<1> QED
  BY <1>4, <1>5, <1>6, <1>7, <1>8, <1>9, <1>10, <1>11, <1>12, <1>13, <1>14 DEF Next, Works

\* An account's inventory is read by one task at a time.
THEOREM OneFlight == Spec => []SingleFlight
<1>1. FlightInv => SingleFlight
  BY DEF FlightInv
<1> QED
  BY <1>1, FlightsAgree, PTL

\* The answer of a task that has ended and told so is met by no later request.
THEOREM ResultsGo == Spec => []ResultsNotKept
<1>1. FlightInv => ResultsNotKept
  BY DEF FlightInv
<1> QED
  BY <1>1, FlightsAgree, PTL

\* When stop has returned no task runs and the table is empty.
THEOREM NothingLeft == Spec => []StopLeavesNothing
<1>1. FlightInv => StopLeavesNothing
  BY DEF FlightInv
<1> QED
  BY <1>1, FlightsAgree, PTL

\* Tasks keep to their course and answers to the pages given.
THEOREM ReadsAgree == Spec => []ReadInv
<1>1. Init => ReadInv
  BY AbsentIsGood DEF Init, ReadInv
<1>2. FlightInv => TypeOK
  BY DEF FlightInv
<1> QED
  BY <1>1, <1>2, ReadInvNext, FlightsAgree, PTL DEF Spec

\* A public answer holds each page of one chain of the pages given once, up to a last
\* page, and describes all of it, whatever the provider answers from one page to the next.
THEOREM InventoriesWhole == Spec => []WholeInventory
<1>1. ReadInv => WholeInventory
  BY DEF ReadInv, Good, WholeInventory, IsWhole
<1> QED
  BY <1>1, ReadsAgree, PTL

\* The price and the gem status of a public answer say how much of it is priced and
\* valued.
THEOREM StatusesTrue == Spec => []StatusTruthful
<1>1. ReadInv => StatusTruthful
  BY DEF ReadInv, Good, StatusTruthful, IsTrue, Owned
<1> QED
  BY <1>1, ReadsAgree, PTL

=============================================================================
