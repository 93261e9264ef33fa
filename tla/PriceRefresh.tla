---------------------------- MODULE PriceRefresh ----------------------------
(***************************************************************************)
(* The global price cache: one SQLite file that holds one generation of    *)
(* normalized prices (SteamApisPriceCache), the transaction that streams a *)
(* new generation into it (SteamApisPriceRefresh), and the clients that    *)
(* read it and decide when to refresh it (SteamApisClient.fetch_prices,    *)
(* schedule_price_catalog_refresh, _refresh_prices).                       *)
(*                                                                         *)
(* A host is one server process with one asyncio event loop.  Coroutines   *)
(* of a host interleave only where the code awaits: a synchronous SQLite   *)
(* call holds the loop, so loop[h] names who is inside one.  Hosts share   *)
(* the file and nothing else, and interleave everywhere.                   *)
(***************************************************************************)
EXTENDS Naturals, FiniteSets

CONSTANTS
    Hosts, Clients, HostOf,      \* processes, their SteamApisClients
    Requests,                    \* coroutines that need prices
    Names, Apps, Cards,          \* hash names; Cards[a]: the names of game a
    BatchSize,                   \* _BATCH_SIZE
    MaxGeneration,               \* _MAX_GENERATION
    MaxFailureCount,             \* _MAX_FAILURE_COUNT
    Ttl,                         \* PRICE_CACHE_TTL_SECONDS
    CatalogMaxAge,               \* LEVEL_UP_PRICE_MAX_AGE_SECONDS
    RetryBase, RetryMax,         \* PRICE_REFRESH_RETRY_*_SECONDS
    MaxTime,                     \* bound: the clock stops here
    Nobody, NoApp, NoMeta, NoTxn, NoFile, NoGeneration

ASSUME HostAssumption == HostOf \in [Clients -> Hosts]
ASSUME CardAssumption ==
    /\ Cards \in [Apps -> SUBSET Names]
    /\ \A a, b \in Apps : a # b => Cards[a] \intersect Cards[b] = {}
    /\ \A a \in Apps : IsFiniteSet(Cards[a])
    /\ NoApp \notin Apps
ASSUME BoundAssumption ==
    /\ BatchSize \in Nat \ {0}
    /\ MaxGeneration \in Nat \ {0, 1}
    /\ MaxFailureCount \in Nat \ {0}
    /\ MaxTime \in Nat
ASSUME TimeAssumption ==
    /\ Ttl \in Nat \ {0} /\ CatalogMaxAge \in Nat \ {0} /\ CatalogMaxAge <= Ttl
    /\ RetryBase \in Nat \ {0} /\ RetryMax \in Nat \ {0}
    /\ \A n \in 1..MaxFailureCount : 2^(n - 1) \in Nat \ {0}
ASSUME SentinelAssumption ==
    /\ Nobody \notin Clients \union Requests
    /\ Clients \intersect Requests = {}

VARIABLES
    db,      \* the committed content of the SQLite file
    source,  \* history: the feed and composition of the installed generation
    now,     \* time.time()
    host,    \* host[h]: "down", "starting" or "up"
    loop,    \* loop[h]: who holds the event loop inside a synchronous call
    lock,    \* lock[h]: holder of the process-wide price refresh lock
    writer,  \* the client whose connection holds SQLite's write lock
    task,    \* task[c]: the client's _price_refresh_task
    txn,     \* txn[c]: its open SteamApisPriceRefresh
    req     \* req[r]: a fetch_prices or catalog request

vars == <<db, source, now, host, loop, lock, writer, task, txn, req>>
fileVars == <<db, source>>
-----------------------------------------------------------------------------
\* The composition feed lists plannable sets only; {} is a game it leaves out.
Composition == {c \in [Apps -> SUBSET Names] : \A a \in Apps : c[a] \subseteq Cards[a]}

Row == [gen : 1..MaxGeneration, name : Names, app : Apps \union {NoApp}, quoted : BOOLEAN]
SetRow == [gen : 1..MaxGeneration, app : Apps, size : Nat]
Meta == [generation : 0..MaxGeneration, refreshedAt : Nat, retryUntil : Nat,
         failures : 0..MaxFailureCount]
Db == [schema : {"absent", "stale", "unversioned", "current"},
       rows : SUBSET Row, sets : SUBSET SetRow, meta : Meta \union {NoMeta}]
Txn == [gen : 1..MaxGeneration, comp : Composition, feed : SUBSET Names,
        todo : SUBSET Names, rows : SUBSET Row, sets : SUBSET SetRow,
        batch : SUBSET Row]
Source == [feed : SUBSET Names, comp : Composition]

MetaAt(g, t) == [generation |-> g, refreshedAt |-> t, retryUntil |-> 0, failures |-> 0]
FirstMeta == MetaAt(0, 0)
MetaOf(d) == IF d.meta = NoMeta THEN FirstMeta ELSE d.meta
HasGeneration(d) == d.meta # NoMeta /\ d.meta.generation > 0
Readable(d) == d.schema \in {"unversioned", "current"}

\* PriceCacheRead.fresh, .retry_suppressed and the age test of _refresh_prices.
Fresh(d) == HasGeneration(d) /\ now < d.meta.refreshedAt + Ttl
Suppressed(d) == d.meta # NoMeta /\ d.meta.retryUntil > now
YoungerThan(d, maxAge) == HasGeneration(d) /\ now <= d.meta.refreshedAt + maxAge

\* Rows of the active generation: priced names, and the catalog by game.
PricesIn(d) == {row.name : row \in {x \in d.rows : x.gen = d.meta.generation /\ x.quoted}}
CatalogIn(d) == [a \in Apps |->
    {row.name : row \in {x \in d.rows : x.gen = d.meta.generation /\ x.app = a}}]
Content(d) ==
    IF Readable(d) /\ HasGeneration(d)
    THEN [gen |-> d.meta.generation, prices |-> PricesIn(d), catalog |-> CatalogIn(d)]
    ELSE NoGeneration

RetrySeconds(n) ==
    LET doubled == RetryBase * 2^(n - 1)
    IN  IF doubled <= RetryMax THEN doubled ELSE RetryMax

Member(comp, n) == IF \E a \in Apps : n \in comp[a]
                   THEN CHOOSE a \in Apps : n \in comp[a] ELSE NoApp
Listed(comp) == {n \in Names : \E a \in Apps : n \in comp[a]}

\* The rows of generation g: one per name of the feed, one per card that the feed
\* does not quote, and one set row per game.
RowOf(g, comp, n, quoted) ==
    [gen |-> g, name |-> n, app |-> Member(comp, n), quoted |-> quoted]
Quoted(g, comp, names) == {RowOf(g, comp, n, TRUE) : n \in names}
Unquoted(g, comp, feed) == {RowOf(g, comp, n, FALSE) : n \in Listed(comp) \ feed}
SetsOf(g, comp) == {[gen |-> g, app |-> a, size |-> Cardinality(comp[a])]
                      : a \in {b \in Apps : comp[b] # {}}}

IsOn(r, h) == req[r].client # Nobody /\ HostOf[req[r].client] = h
OnClient(r, c) == req[r].client = c

Idle == [pc |-> "idle", client |-> Nobody, kind |-> "prices",
         snap |-> NoFile, answer |-> NoGeneration]
Free(c) == host[HostOf[c]] = "up" /\ loop[HostOf[c]] = Nobody
-----------------------------------------------------------------------------
\* A file that no version of the program wrote, or one that some version left
\* behind: possibly with a whole generation in it.
TablesOf(g, comp, feed, t) ==
    [rows |-> Quoted(g, comp, feed) \union Unquoted(g, comp, feed),
     sets |-> SetsOf(g, comp),
     meta |-> MetaAt(g, t)]
NoSource == [feed |-> {}, comp |-> [a \in Apps |-> {}]]

InitialFile ==
    \/ /\ db \in {[schema |-> s, rows |-> {}, sets |-> {}, meta |-> NoMeta]
                    : s \in {"absent", "unversioned", "current"}}
       /\ source = NoSource
    \/ \E s \in {"stale", "unversioned", "current"}, g \in 1..MaxGeneration :
          LET old == TablesOf(g, Cards, Names, 0)
          IN  /\ db = [schema |-> s, rows |-> old.rows, sets |-> old.sets, meta |-> old.meta]
              /\ source = [feed |-> Names, comp |-> Cards]

Init ==
    /\ InitialFile
    /\ now = 0
    /\ host = [h \in Hosts |-> "down"]
    /\ loop = [h \in Hosts |-> Nobody]
    /\ lock = [h \in Hosts |-> Nobody]
    /\ writer = Nobody
    /\ task = [c \in Clients |-> [pc |-> "none", maxAge |-> Ttl]]
    /\ txn = [c \in Clients |-> NoTxn]
    /\ req = [r \in Requests |-> Idle]
-----------------------------------------------------------------------------
(* Processes: SteamApisClient.start and stop, and the crash of a process.  *)

\* SteamApisPriceCache._initialize, first look: nothing to do on a current file.
Start(h) ==
    /\ host[h] = "down"
    /\ host' = [host EXCEPT ![h] = IF db.schema = "current" THEN "up" ELSE "starting"]
    /\ UNCHANGED <<fileVars, now, loop, lock, writer, task, txn, req>>

\* Fault: the second look is forgotten, and the first one's verdict acted upon.
MigratedBlindly(d) ==
    IF d.schema = "unversioned" THEN [d EXCEPT !.schema = "current"]
    ELSE [schema |-> "current", rows |-> {}, sets |-> {}, meta |-> NoMeta]

\* _initialize under BEGIN IMMEDIATE, after looking again: a compatible file of
\* no version is only stamped, anything else loses its tables.
Migrated(d) ==
    CASE d.schema = "current" -> d
      [] d.schema = "unversioned" -> [d EXCEPT !.schema = "current"]
      [] OTHER -> [schema |-> "current", rows |-> {}, sets |-> {}, meta |-> NoMeta]

Migrate(h) ==
    /\ host[h] = "starting"
    /\ writer = Nobody
    /\ db' = Migrated(db)
    /\ source' = IF Readable(db) THEN source ELSE NoSource
    /\ host' = [host EXCEPT ![h] = "up"]
    /\ UNCHANGED <<now, loop, lock, writer, task, txn, req>>

\* A crash, or stop(): the refresh task is cancelled, and its transaction rolled
\* back by abort() or by SQLite's recovery.  A host that cannot get the write
\* lock to migrate fails to start and is down again too.
Halt(h) ==
    LET mine == {c \in Clients : HostOf[c] = h}
    IN  /\ host[h] # "down"
        /\ host' = [host EXCEPT ![h] = "down"]
        /\ loop' = [loop EXCEPT ![h] = Nobody]
        /\ lock' = [lock EXCEPT ![h] = Nobody]
        /\ writer' = IF writer \in mine THEN Nobody ELSE writer
        /\ task' = [c \in Clients |-> IF c \in mine THEN [pc |-> "none", maxAge |-> Ttl]
                                                    ELSE task[c]]
        /\ txn' = [c \in Clients |-> IF c \in mine THEN NoTxn ELSE txn[c]]
        /\ req' = [r \in Requests |-> IF IsOn(r, h) THEN Idle ELSE req[r]]
        /\ UNCHANGED <<fileVars, now>>

Tick ==
    /\ now < MaxTime
    /\ now' = now + 1
    /\ UNCHANGED <<fileVars, host, loop, lock, writer, task, txn, req>>
-----------------------------------------------------------------------------
(* Requests.  A read is one SQLite read transaction: its first statement   *)
(* fixes the snapshot (Ask, Resume), its later ones use it (the Read       *)
(* actions and Reread).                                                    *)

Ask(r, c, kind) ==
    /\ req[r].pc \in {"idle", "done"}
    /\ Free(c)
    /\ req' = [req EXCEPT ![r] = [pc |-> "reading", client |-> c, kind |-> kind,
                                  snap |-> db, answer |-> NoGeneration]]
    /\ loop' = [loop EXCEPT ![HostOf[c]] = r]
    /\ UNCHANGED <<fileVars, now, host, lock, writer, task, txn>>

Answered(r) == [req[r] EXCEPT !.pc = "done", !.answer = Content(req[r].snap), !.snap = NoFile]

\* _price_refresh_task is created when there is none and joined otherwise.
Joined(c, maxAge) ==
    IF task[c].pc = "none"
    THEN [task EXCEPT ![c] = [pc |-> "queued", maxAge |-> maxAge]] ELSE task

\* fetch_prices: a fresh or suppressed cache answers at once.
ReadPrices(r) ==
    /\ req[r].pc = "reading" /\ req[r].kind = "prices"
    /\ Fresh(req[r].snap) \/ Suppressed(req[r].snap)
    /\ req' = [req EXCEPT ![r] = Answered(r)]
    /\ loop' = [loop EXCEPT ![HostOf[req[r].client]] = Nobody]
    /\ UNCHANGED <<fileVars, now, host, lock, writer, task, txn>>

\* Fault: a task that is done is awaited like one that runs.
AwaitAnyRefresh(r) ==
    LET c == req[r].client
    IN  /\ req[r].pc = "reading" /\ req[r].kind = "prices"
        /\ ~Fresh(req[r].snap) /\ ~Suppressed(req[r].snap)
        /\ req' = [req EXCEPT ![r] = [@ EXCEPT !.pc = "waiting", !.snap = NoFile]]
        /\ task' = Joined(c, Ttl)
        /\ loop' = [loop EXCEPT ![HostOf[c]] = Nobody]
        /\ UNCHANGED <<fileVars, now, host, lock, writer, txn>>

\* Any other cache makes it await the client's refresh.  Awaiting a task that is
\* done does not suspend: it is dropped and the cache read again on the spot.
AwaitRefresh(r) ==
    LET c == req[r].client
    IN  /\ req[r].pc = "reading" /\ req[r].kind = "prices"
        /\ ~Fresh(req[r].snap) /\ ~Suppressed(req[r].snap)
        /\ IF task[c].pc = "done"
           THEN /\ req' = [req EXCEPT ![r] = [@ EXCEPT !.pc = "rereading", !.snap = db]]
                /\ task' = [task EXCEPT ![c].pc = "none"]
                /\ UNCHANGED loop
           ELSE /\ req' = [req EXCEPT ![r] = [@ EXCEPT !.pc = "waiting", !.snap = NoFile]]
                /\ task' = Joined(c, Ttl)
                /\ loop' = [loop EXCEPT ![HostOf[c]] = Nobody]
        /\ UNCHANGED <<fileVars, now, host, lock, writer, txn>>

\* read_catalog, then for a catalog that is missing or too old to plan with
\* schedule_price_catalog_refresh: it reads the cache again and starts or joins
\* a refresh, and the caller never waits for it.
ReadCatalog(r) ==
    LET c == req[r].client
        plannable == HasGeneration(req[r].snap)
                     /\ now < req[r].snap.meta.refreshedAt + CatalogMaxAge
    IN  /\ req[r].pc = "reading" /\ req[r].kind = "catalog"
        /\ loop' = [loop EXCEPT ![HostOf[c]] = Nobody]
        /\ req' = [req EXCEPT ![r] = Answered(r)]
        /\ task' = IF plannable \/ YoungerThan(db, CatalogMaxAge) \/ Suppressed(db)
                   THEN task ELSE Joined(c, CatalogMaxAge)
        /\ UNCHANGED <<fileVars, now, host, lock, writer, txn>>

\* fetch_prices after its await reads again.  The done callback has dropped the
\* task before: callbacks run in the order they were added, and it was first.
Resume(r) ==
    LET c == req[r].client
    IN  /\ req[r].pc = "waking"
        /\ Free(c)
        /\ req' = [req EXCEPT ![r] = [@ EXCEPT !.pc = "rereading", !.snap = db]]
        /\ loop' = [loop EXCEPT ![HostOf[c]] = r]
        /\ UNCHANGED <<fileVars, now, host, lock, writer, task, txn>>

Reread(r) ==
    /\ req[r].pc = "rereading"
    /\ req' = [req EXCEPT ![r] = Answered(r)]
    /\ loop' = [loop EXCEPT ![HostOf[req[r].client]] = Nobody]
    /\ UNCHANGED <<fileVars, now, host, lock, writer, task, txn>>
-----------------------------------------------------------------------------
(* The refresh task: _refresh_prices and _refresh_prices_uncached.         *)

\* Fault: the task ends without waking whoever awaits it.
FinishSilently(c) ==
    /\ task' = [task EXCEPT ![c].pc = "done"]
    /\ lock' = [lock EXCEPT ![HostOf[c]] = Nobody]
    /\ UNCHANGED req

\* The task ends: its waiters become runnable, the lock is released.
Finish(c) ==
    /\ task' = [task EXCEPT ![c].pc = "done"]
    /\ lock' = [lock EXCEPT ![HostOf[c]] = Nobody]
    /\ req' = [r \in Requests |-> IF OnClient(r, c) /\ req[r].pc = "waiting"
                                  THEN [req[r] EXCEPT !.pc = "waking"] ELSE req[r]]

\* Fault: inside the lock only the age of the cache is looked at again.
AcquireThoughSuppressed(c) ==
    /\ task[c].pc = "queued"
    /\ Free(c)
    /\ lock[HostOf[c]] = Nobody
    /\ IF YoungerThan(db, task[c].maxAge)
       THEN Finish(c)
       ELSE /\ task' = [task EXCEPT ![c].pc = "composing"]
            /\ lock' = [lock EXCEPT ![HostOf[c]] = c]
            /\ UNCHANGED req
    /\ UNCHANGED <<fileVars, now, host, loop, writer, txn>>

\* Fault: the refresh does not take the lock.
AcquireUnlocked(c) ==
    /\ task[c].pc = "queued"
    /\ Free(c)
    /\ IF YoungerThan(db, task[c].maxAge) \/ Suppressed(db)
       THEN Finish(c)
       ELSE /\ task' = [task EXCEPT ![c].pc = "composing"]
            /\ UNCHANGED <<lock, req>>
    /\ UNCHANGED <<fileVars, now, host, loop, writer, txn>>

\* _refresh_prices inside the lock: someone else may have refreshed or failed.
Acquire(c) ==
    /\ task[c].pc = "queued"
    /\ Free(c)
    /\ lock[HostOf[c]] = Nobody
    /\ IF YoungerThan(db, task[c].maxAge) \/ Suppressed(db)
       THEN Finish(c)
       ELSE /\ task' = [task EXCEPT ![c].pc = "composing"]
            /\ lock' = [lock EXCEPT ![HostOf[c]] = c]
            /\ UNCHANGED req
    /\ UNCHANGED <<fileVars, now, host, loop, writer, txn>>

\* Fault: the largest generation number is not wrapped.
NextGenerationUnwrapped(d) == MetaOf(d).generation + 1

NextGeneration(d) ==
    LET current == MetaOf(d).generation
    IN  IF current >= MaxGeneration THEN 1 ELSE current + 1

\* The composition and the bulk redirect have arrived: begin_refresh takes the
\* write lock (BEGIN IMMEDIATE) and seed_normal_cards inserts the set rows.
Begin(c, comp, feed) ==
    LET g == NextGeneration(db)
    IN  /\ task[c].pc = "composing"
        /\ Free(c)
        /\ writer = Nobody
        /\ writer' = c
        /\ txn' = [txn EXCEPT ![c] =
              [gen |-> g, comp |-> comp, feed |-> feed, todo |-> feed, rows |-> {},
               sets |-> SetsOf(g, comp), batch |-> {}]]
        /\ task' = [task EXCEPT ![c].pc = "streaming"]
        /\ UNCHANGED <<fileVars, now, host, loop, lock, req>>

\* The provider failed, or the write lock stayed taken for the busy timeout.
FailBegin(c) ==
    /\ task[c].pc = "composing"
    /\ Free(c)
    /\ task' = [task EXCEPT ![c].pc = "failing"]
    /\ loop' = [loop EXCEPT ![HostOf[c]] = c]
    /\ UNCHANGED <<fileVars, now, host, lock, writer, txn, req>>

\* SteamApisPriceRefresh.add, with the flush of a full batch.
Added(t, n) ==
    LET batch == t.batch \union {RowOf(t.gen, t.comp, n, TRUE)}
    IN  IF Cardinality(batch) >= BatchSize
        THEN [t EXCEPT !.rows = @ \union batch, !.batch = {}, !.todo = @ \ {n}]
        ELSE [t EXCEPT !.batch = batch, !.todo = @ \ {n}]

StreamRow(c) ==
    /\ task[c].pc = "streaming"
    /\ Free(c)
    /\ \E n \in txn[c].todo : txn' = [txn EXCEPT ![c] = Added(txn[c], n)]
    /\ UNCHANGED <<fileVars, now, host, loop, lock, writer, task, req>>

\* Fault: the transaction is not rolled back.
FailStreamOpen(c) ==
    /\ task[c].pc = "streaming"
    /\ Free(c)
    /\ task' = [task EXCEPT ![c].pc = "failing"]
    /\ loop' = [loop EXCEPT ![HostOf[c]] = c]
    /\ UNCHANGED <<fileVars, now, host, lock, writer, txn, req>>

\* A malformed, truncated or duplicate feed, a lost connection, a failed commit:
\* abort() rolls back, then the failure is recorded without yielding the loop.
FailStream(c) ==
    /\ task[c].pc = "streaming"
    /\ Free(c)
    /\ writer' = Nobody
    /\ txn' = [txn EXCEPT ![c] = NoTxn]
    /\ task' = [task EXCEPT ![c].pc = "failing"]
    /\ loop' = [loop EXCEPT ![HostOf[c]] = c]
    /\ UNCHANGED <<fileVars, now, host, lock, req>>

\* _validate_price_generation: some row was accepted and the declared count of
\* the feed is the number of rows parsed.
ValidGeneration(t) == t.todo = {} /\ t.feed # {}

\* Fault: the rows of the last batch are never flushed.
StreamedUnflushed(t) == t.rows \union Unquoted(t.gen, t.comp, t.feed)

\* _install_unpriced_normal_cards and the last _flush.
Streamed(t) == t.rows \union t.batch \union Unquoted(t.gen, t.comp, t.feed)

Installed(d, t) ==
    [d EXCEPT !.rows = {row \in d.rows \union Streamed(t) : row.gen = t.gen},
              !.sets = {s \in d.sets \union t.sets : s.gen = t.gen},
              !.meta = MetaAt(t.gen, now)]

Commit(c) ==
    /\ task[c].pc = "streaming"
    /\ Free(c)
    /\ ValidGeneration(txn[c])
    /\ db' = Installed(db, txn[c])
    /\ source' = [feed |-> txn[c].feed, comp |-> txn[c].comp]
    /\ writer' = Nobody
    /\ txn' = [txn EXCEPT ![c] = NoTxn]
    /\ Finish(c)
    /\ UNCHANGED <<now, host, loop>>

\* record_refresh_failure; with another process streaming, BEGIN IMMEDIATE times
\* out and the failure is swallowed.
FailureMeta(d) ==
    LET m == MetaOf(d)
        n == IF m.failures + 1 <= MaxFailureCount THEN m.failures + 1 ELSE MaxFailureCount
    IN  [m EXCEPT !.failures = n, !.retryUntil = now + RetrySeconds(n)]

RecordFailure(c) ==
    /\ task[c].pc = "failing"
    /\ db' = IF writer = Nobody THEN [db EXCEPT !.meta = FailureMeta(db)] ELSE db
    /\ loop' = [loop EXCEPT ![HostOf[c]] = Nobody]
    /\ Finish(c)
    /\ UNCHANGED <<source, now, host, writer, txn>>

\* _discard_price_refresh_task as the task's done callback.
Discard(c) ==
    /\ task[c].pc = "done"
    /\ Free(c)
    /\ task' = [task EXCEPT ![c].pc = "none"]
    /\ UNCHANGED <<fileVars, now, host, loop, lock, writer, txn, req>>
-----------------------------------------------------------------------------
RefreshStep(c) ==
    \/ Acquire(c)
    \/ \E comp \in Composition, feed \in SUBSET Names : Begin(c, comp, feed)
    \/ FailBegin(c)
    \/ StreamRow(c)
    \/ FailStream(c)
    \/ Commit(c)
    \/ RecordFailure(c)
    \/ Discard(c)

RequestStep(r) == ReadPrices(r) \/ AwaitRefresh(r) \/ ReadCatalog(r) \/ Resume(r) \/ Reread(r)

Next ==
    \/ \E h \in Hosts : Start(h) \/ Migrate(h) \/ Halt(h)
    \/ Tick
    \/ \E r \in Requests, c \in Clients, kind \in {"prices", "catalog"} : Ask(r, c, kind)
    \/ \E r \in Requests : RequestStep(r)
    \/ \E c \in Clients : RefreshStep(c)

Spec == Init /\ [][Next]_vars

\* The event loop runs every coroutine that is ready, and each HTTP exchange of
\* a refresh ends, with a result or with the client's timeout.
Fairness ==
    /\ \A r \in Requests : WF_vars(RequestStep(r)) /\ SF_vars(Resume(r))
    /\ \A c \in Clients : SF_vars(RefreshStep(c))

LiveSpec == Spec /\ Fairness
-----------------------------------------------------------------------------
RequestPc == {"idle", "reading", "waiting", "waking", "rereading", "done"}
TaskPc == {"none", "queued", "composing", "streaming", "failing", "done"}
Answer == [gen : 1..MaxGeneration, prices : SUBSET Names, catalog : [Apps -> SUBSET Names]]
Request == [pc : RequestPc, client : Clients \union {Nobody}, kind : {"prices", "catalog"},
            snap : Db \union {NoFile}, answer : Answer \union {NoGeneration}]

ASSUME RecordAssumption ==
    NoMeta \notin Meta /\ NoTxn \notin Txn /\ NoFile \notin Db /\ NoGeneration \notin Answer

\* Every variable has its type; a generation number never leaves its range.
TypeOK ==
    /\ db \in Db
    /\ source \in Source
    /\ now \in Nat
    /\ host \in [Hosts -> {"down", "starting", "up"}]
    /\ loop \in [Hosts -> Clients \union Requests \union {Nobody}]
    /\ lock \in [Hosts -> Clients \union {Nobody}]
    /\ writer \in Clients \union {Nobody}
    /\ task \in [Clients -> [pc : TaskPc, maxAge : {Ttl, CatalogMaxAge}]]
    /\ txn \in [Clients -> Txn \union {NoTxn}]
    /\ req \in [Requests -> Request]

\* The committed file holds the installed generation, all of it and nothing else:
\* every row of its feed, every card of its composition (priced or not), one set
\* row per game whose size is the number of its cards, no row of another number.
CompleteGeneration ==
    LET g == MetaOf(db).generation
    IN  IF g = 0 THEN db.rows = {} /\ db.sets = {}
        ELSE LET whole == TablesOf(g, source.comp, source.feed, 0)
             IN  db.rows = whole.rows /\ db.sets = whole.sets

\* A streaming transaction inserts under a number that no committed row has, and
\* only the client that holds SQLite's write lock has one.
StreamIsolated ==
    \A c \in Clients :
        /\ task[c].pc = "streaming" <=> writer = c
        /\ txn[c] # NoTxn <=> writer = c
        /\ writer = c => \A row \in db.rows \union db.sets : row.gen # txn[c].gen

\* Whoever waits in fetch_prices waits for a task that is still going to end.
WaitersHaveTask ==
    \A r \in Requests : req[r].pc = "waiting" =>
        task[req[r].client].pc \in {"queued", "composing", "streaming", "failing"}

\* On one host the lock and the second look keep every client from calling the
\* provider while a recorded failure has suspended refreshes.
NoTrafficWhileSuppressed ==
    \A c \in Clients : task[c].pc \in {"composing", "streaming"} => ~Suppressed(db)

\* On one host a generation is only replaced when it has become too old to plan
\* with: however many clients and requests find it stale, it is fetched once.
ReplacedOnlyWhenOld ==
    [][Content(db) # NoGeneration /\ Content(db)' # Content(db)
         => ~YoungerThan(db, CatalogMaxAge)]_vars

\* Readers, refreshes, crashes and migrations together are the price store of
\* PriceStore: a generation is replaced whole or stays, and every answer is the
\* whole generation that was active when its read looked.
Store == INSTANCE PriceStore WITH
    active <- Content(db),
    view <- [r \in Requests |-> IF req[r].pc \in {"reading", "rereading"}
                                THEN Content(req[r].snap) ELSE NoGeneration],
    answer <- [r \in Requests |-> req[r].answer]
StoreSpec == Store!Spec

\* Every request is answered, or goes down with its process: neither the lock, nor
\* a refresh that fails, nor a task nobody has discarded keeps it waiting for ever.
EveryRequestEnds ==
    \A r \in Requests :
        req[r].pc \in {"reading", "waiting"} ~> req[r].pc \in {"idle", "done"}
=============================================================================
