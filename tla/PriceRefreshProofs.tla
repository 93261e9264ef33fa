------------------------- MODULE PriceRefreshProofs -------------------------
(***************************************************************************)
(* Machine-checked facts about PriceRefresh, for any number of hosts,      *)
(* clients, requests, names and games, and for any bounds.                 *)
(***************************************************************************)
EXTENDS PriceRefresh, FiniteSetTheorems, TLAPS

\* Every size a set row can record is a number.
LEMMA SetSize ==
    ASSUME NEW comp \in Composition, NEW a \in Apps
    PROVE  Cardinality(comp[a]) \in Nat
<1>1. IsFiniteSet(Cards[a]) /\ comp[a] \subseteq Cards[a]
  BY CardAssumption DEF Composition
<1> QED
  BY <1>1, FS_Subset, FS_CardinalityType

\* A name belongs to the game that lists it, or to none.
LEMMA MemberType ==
    ASSUME NEW comp, NEW n
    PROVE  Member(comp, n) \in Apps \union {NoApp}
<1>1. CASE \E a \in Apps : n \in comp[a]
  BY <1>1 DEF Member
<1>2. CASE ~ \E a \in Apps : n \in comp[a]
  BY <1>2 DEF Member
<1> QED
  BY <1>1, <1>2

\* The number begin_refresh chooses is in range and not the one in use.
LEMMA NextGenerationType ==
    ASSUME NEW d, d.meta \in Meta \union {NoMeta}
    PROVE  /\ NextGeneration(d) \in 1..MaxGeneration
           /\ NextGeneration(d) # MetaOf(d).generation
<1>1. MetaOf(d).generation \in 0..MaxGeneration
  <2>1. FirstMeta.generation = 0
    BY DEF FirstMeta, MetaAt
  <2>2. CASE d.meta = NoMeta
    BY <2>1, <2>2, BoundAssumption DEF MetaOf
  <2>3. CASE d.meta # NoMeta
    BY <2>3 DEF MetaOf, Meta
  <2> QED
    BY <2>2, <2>3
<1> QED
  BY <1>1, BoundAssumption DEF NextGeneration

LEMMA MetaOfType ==
    ASSUME NEW d, d.meta \in Meta \union {NoMeta}
    PROVE  MetaOf(d) \in Meta
  BY BoundAssumption DEF MetaOf, Meta, FirstMeta, MetaAt

\* The rows and set rows of a generation are well formed.
LEMMA RowsType ==
    ASSUME NEW g \in 1..MaxGeneration, NEW comp \in Composition, NEW names \in SUBSET Names
    PROVE  /\ Quoted(g, comp, names) \in SUBSET Row
           /\ Unquoted(g, comp, names) \in SUBSET Row
           /\ SetsOf(g, comp) \in SUBSET SetRow
<1>1. \A n \in Names, q \in BOOLEAN : RowOf(g, comp, n, q) \in Row
  BY MemberType DEF RowOf, Row
<1>2. Quoted(g, comp, names) \in SUBSET Row /\ Unquoted(g, comp, names) \in SUBSET Row
  BY <1>1 DEF Quoted, Unquoted, Listed
<1>3. SetsOf(g, comp) \in SUBSET SetRow
  BY SetSize DEF SetsOf, SetRow
<1> QED
  BY <1>2, <1>3

\* The tables of a generation are well formed.
LEMMA TablesType ==
    ASSUME NEW g \in 1..MaxGeneration, NEW comp \in Composition,
           NEW feed \in SUBSET Names, NEW t \in Nat
    PROVE  /\ TablesOf(g, comp, feed, t).rows \in SUBSET Row
           /\ TablesOf(g, comp, feed, t).sets \in SUBSET SetRow
           /\ TablesOf(g, comp, feed, t).meta \in Meta
<1>1. MetaAt(g, t) \in Meta
  BY BoundAssumption DEF MetaAt, Meta
<1> QED
  BY <1>1, RowsType DEF TablesOf

\* What record_refresh_failure writes is a well-formed meta row.
LEMMA FailureMetaType ==
    ASSUME NEW d, d.meta \in Meta \union {NoMeta}, now \in Nat
    PROVE  FailureMeta(d) \in Meta
<1> DEFINE m == MetaOf(d)
           n == IF m.failures + 1 <= MaxFailureCount THEN m.failures + 1 ELSE MaxFailureCount
<1>1. m \in Meta
  BY MetaOfType
<1>2. n \in 1..MaxFailureCount
  BY <1>1, BoundAssumption DEF Meta
<1>3. RetrySeconds(n) \in Nat
  <2>1. 2^(n - 1) \in Nat /\ RetryBase \in Nat /\ RetryMax \in Nat
    BY <1>2, TimeAssumption
  <2>2. RetryBase * 2^(n - 1) \in Nat
    BY <2>1
  <2> QED
    BY <2>1, <2>2 DEF RetrySeconds
<1>4. FailureMeta(d) = [m EXCEPT !.failures = n, !.retryUntil = now + RetrySeconds(n)]
  BY DEF FailureMeta
<1>5. n \in 0..MaxFailureCount /\ now + RetrySeconds(n) \in Nat
  BY <1>2, <1>3, BoundAssumption
<1> HIDE DEF m, n
<1> QED
  BY <1>1, <1>4, <1>5 DEF Meta

\* Adding a row keeps a transaction well formed.
LEMMA AddedType ==
    ASSUME NEW t \in Txn, NEW n \in t.todo
    PROVE  Added(t, n) \in Txn
<1>1. RowOf(t.gen, t.comp, n, TRUE) \in Row
  BY MemberType DEF Txn, RowOf, Row
<1> QED
  BY <1>1 DEF Added, Txn

\* What a commit leaves behind is a well-formed file.
LEMMA InstalledType ==
    ASSUME NEW d \in Db, NEW t \in Txn, now \in Nat
    PROVE  Installed(d, t) \in Db
<1>1. Streamed(t) \in SUBSET Row
  BY RowsType DEF Streamed, Txn
<1>2. MetaAt(t.gen, now) \in Meta
  BY BoundAssumption DEF MetaAt, Meta, Txn
<1> QED
  BY <1>1, <1>2 DEF Installed, Db, Txn

\* What a read returns is an answer.
LEMMA ContentType ==
    ASSUME NEW d \in Db
    PROVE  Content(d) \in Answer \union {NoGeneration}
<1>1. CASE Readable(d) /\ HasGeneration(d)
  <2>1. d.meta.generation \in 1..MaxGeneration
    BY <1>1, BoundAssumption DEF HasGeneration, Db, Meta
  <2>2. PricesIn(d) \in SUBSET Names
    BY DEF PricesIn, Db, Row
  <2>3. CatalogIn(d) \in [Apps -> SUBSET Names]
    BY DEF CatalogIn, Db, Row
  <2> QED
    BY <1>1, <2>1, <2>2, <2>3 DEF Content, Answer
<1>2. CASE ~(Readable(d) /\ HasGeneration(d))
  BY <1>2 DEF Content
<1> QED
  BY <1>1, <1>2
-----------------------------------------------------------------------------
\* Initially every variable has its type.
LEMMA TypeInit == Init => TypeOK
<1> SUFFICES ASSUME Init PROVE TypeOK
  OBVIOUS
<1> USE BoundAssumption, TimeAssumption
<1>1. NoSource \in Source
  BY DEF NoSource, Source, Composition
<1>2. Cards \in Composition
  BY CardAssumption DEF Composition
<1>3. db \in Db /\ source \in Source
  <2>1. CASE /\ db \in {[schema |-> s, rows |-> {}, sets |-> {}, meta |-> NoMeta]
                          : s \in {"absent", "unversioned", "current"}}
             /\ source = NoSource
    BY <2>1, <1>1 DEF Db
  <2>2. ASSUME NEW s \in {"stale", "unversioned", "current"}, NEW g \in 1..MaxGeneration,
               LET old == TablesOf(g, Cards, Names, 0)
               IN  /\ db = [schema |-> s, rows |-> old.rows, sets |-> old.sets,
                            meta |-> old.meta]
                   /\ source = [feed |-> Names, comp |-> Cards]
        PROVE  db \in Db /\ source \in Source
    <3> DEFINE old == TablesOf(g, Cards, Names, 0)
    <3>1. old.rows \in SUBSET Row /\ old.sets \in SUBSET SetRow /\ old.meta \in Meta
      <4>1. 0 \in Nat /\ Names \in SUBSET Names
        OBVIOUS
      <4> QED
        BY <4>1, <1>2, TablesType
    <3> HIDE DEF old
    <3> QED
      BY <2>2, <3>1, <1>2 DEF Db, Source, old
  <2> QED
    BY <2>1, <2>2 DEF Init, InitialFile
<1>4. txn \in [Clients -> Txn \union {NoTxn}]
  BY DEF Init
<1>5. req \in [Requests -> Request]
  BY DEF Init, Idle, Request, RequestPc
<1>6. task \in [Clients -> [pc : TaskPc, maxAge : {Ttl, CatalogMaxAge}]]
  BY DEF Init, TaskPc
<1> QED
  BY <1>3, <1>4, <1>5, <1>6 DEF Init, TypeOK
-----------------------------------------------------------------------------
\* A request that reads holds a snapshot, and one that is not idle a client.
RequestsPlaced ==
    \A r \in Requests :
        /\ req[r].pc # "idle" => req[r].client \in Clients
        /\ req[r].pc \in {"reading", "rereading"} => req[r].snap \in Db

\* The rows a transaction has inserted or batched are those of the part of the
\* feed it has seen, under the next number, for the composition it was seeded with.
StreamFaithful ==
    \A c \in Clients : writer = c =>
        /\ txn[c].gen = NextGeneration(db)
        /\ txn[c].todo \subseteq txn[c].feed
        /\ txn[c].rows \union txn[c].batch =
              Quoted(txn[c].gen, txn[c].comp, txn[c].feed \ txn[c].todo)
        /\ txn[c].sets = SetsOf(txn[c].gen, txn[c].comp)

\* The inductive invariant.
IInv ==
    /\ TypeOK
    /\ RequestsPlaced
    /\ StreamIsolated
    /\ StreamFaithful
    /\ CompleteGeneration
    /\ WaitersHaveTask

\* What Finish(c) assigns is well typed.
LEMMA FinishType ==
    ASSUME TypeOK, NEW c \in Clients, Finish(c)
    PROVE  /\ task' \in [Clients -> [pc : TaskPc, maxAge : {Ttl, CatalogMaxAge}]]
           /\ lock' \in [Hosts -> Clients \union {Nobody}]
           /\ req' \in [Requests -> Request]
<1>1. task' \in [Clients -> [pc : TaskPc, maxAge : {Ttl, CatalogMaxAge}]]
  BY DEF TypeOK, Finish, TaskPc
<1>2. lock' \in [Hosts -> Clients \union {Nobody}]
  BY DEF TypeOK, Finish
<1>3. \A r \in Requests : req'[r] \in Request
  BY DEF TypeOK, Finish, Request, RequestPc
<1>4. req' = [r \in Requests |-> req'[r]]
  BY DEF Finish
<1> QED
  BY <1>1, <1>2, <1>3, <1>4

\* Answering a read is well typed.
LEMMA AnsweredType ==
    ASSUME TypeOK, RequestsPlaced, NEW r \in Requests,
           req[r].pc \in {"reading", "rereading"}
    PROVE  Answered(r) \in Request
<1>1. req[r].snap \in Db /\ req[r] \in Request
  BY DEF TypeOK, RequestsPlaced
<1>2. Content(req[r].snap) \in Answer \union {NoGeneration}
  BY <1>1, ContentType
<1> QED
  BY <1>1, <1>2 DEF Answered, Request, RequestPc

\* Every step keeps the types.
LEMMA TypeNext ==
    ASSUME TypeOK, RequestsPlaced, StreamIsolated, [Next]_vars
    PROVE  TypeOK'
<1> USE DEF fileVars
<1>1. ASSUME NEW h \in Hosts, Start(h) PROVE TypeOK'
  BY <1>1 DEF TypeOK, Start
<1>2. ASSUME NEW h \in Hosts, Migrate(h) PROVE TypeOK'
  <2>1. Migrated(db) \in Db
    BY DEF TypeOK, Migrated, Db
  <2>2. NoSource \in Source
    BY DEF NoSource, Source, Composition
  <2> QED
    BY <1>2, <2>1, <2>2 DEF TypeOK, Migrate
<1>3. ASSUME NEW h \in Hosts, Halt(h) PROVE TypeOK'
  <2>1. req' \in [Requests -> Request]
    BY <1>3 DEF TypeOK, Halt, Idle, Request, RequestPc
  <2>2. task' \in [Clients -> [pc : TaskPc, maxAge : {Ttl, CatalogMaxAge}]]
    BY <1>3 DEF TypeOK, Halt, TaskPc
  <2>3. txn' \in [Clients -> Txn \union {NoTxn}] /\ writer' \in Clients \union {Nobody}
    BY <1>3 DEF TypeOK, Halt
  <2>4. /\ host' \in [Hosts -> {"down", "starting", "up"}]
        /\ loop' \in [Hosts -> Clients \union Requests \union {Nobody}]
        /\ lock' \in [Hosts -> Clients \union {Nobody}]
        /\ UNCHANGED <<db, source, now>>
    BY <1>3 DEF TypeOK, Halt
  <2> QED
    BY <2>1, <2>2, <2>3, <2>4 DEF TypeOK
<1>4. CASE Tick
  BY <1>4 DEF TypeOK, Tick
<1>5. ASSUME NEW r \in Requests, NEW c \in Clients, NEW kind \in {"prices", "catalog"},
             Ask(r, c, kind)
      PROVE  TypeOK'
  <2>1. req' \in [Requests -> Request]
    BY <1>5 DEF TypeOK, Ask, Request, RequestPc
  <2>2. loop' \in [Hosts -> Clients \union Requests \union {Nobody}]
    BY <1>5 DEF TypeOK, Ask
  <2> QED
    BY <1>5, <2>1, <2>2 DEF TypeOK, Ask
<1>6. ASSUME NEW r \in Requests, ReadPrices(r) PROVE TypeOK'
  <2>1. Answered(r) \in Request
    BY <1>6, AnsweredType DEF ReadPrices
  <2> QED
    BY <1>6, <2>1 DEF TypeOK, ReadPrices
<1>7. ASSUME NEW r \in Requests, AwaitRefresh(r) PROVE TypeOK'
  <2>1. req' \in [Requests -> Request]
    <3>1. req[r] \in Request /\ db \in Db
      BY DEF TypeOK
    <3>2. /\ [req[r] EXCEPT !.pc = "rereading", !.snap = db] \in Request
          /\ [req[r] EXCEPT !.pc = "waiting", !.snap = NoFile] \in Request
      BY <3>1 DEF Request, RequestPc
    <3> QED
      BY <1>7, <3>2 DEF TypeOK, AwaitRefresh
  <2>2. task' \in [Clients -> [pc : TaskPc, maxAge : {Ttl, CatalogMaxAge}]]
    BY <1>7 DEF TypeOK, AwaitRefresh, Joined, TaskPc
  <2>3. loop' \in [Hosts -> Clients \union Requests \union {Nobody}]
    BY <1>7 DEF TypeOK, AwaitRefresh
  <2> QED
    BY <1>7, <2>1, <2>2, <2>3 DEF TypeOK, AwaitRefresh
<1>8. ASSUME NEW r \in Requests, ReadCatalog(r) PROVE TypeOK'
  <2>1. Answered(r) \in Request
    BY <1>8, AnsweredType DEF ReadCatalog
  <2>2. task' \in [Clients -> [pc : TaskPc, maxAge : {Ttl, CatalogMaxAge}]]
    BY <1>8 DEF TypeOK, ReadCatalog, Joined, TaskPc
  <2> QED
    BY <1>8, <2>1, <2>2 DEF TypeOK, ReadCatalog
<1>9. ASSUME NEW r \in Requests, Resume(r) PROVE TypeOK'
  <2>1. req' \in [Requests -> Request]
    <3>1. req[r] \in Request /\ db \in Db
      BY DEF TypeOK
    <3>2. [req[r] EXCEPT !.pc = "rereading", !.snap = db] \in Request
      BY <3>1 DEF Request, RequestPc
    <3> QED
      BY <1>9, <3>2 DEF TypeOK, Resume
  <2> QED
    BY <1>9, <2>1 DEF TypeOK, Resume
<1>10. ASSUME NEW r \in Requests, Reread(r) PROVE TypeOK'
  <2>1. Answered(r) \in Request
    BY <1>10, AnsweredType DEF Reread
  <2> QED
    BY <1>10, <2>1 DEF TypeOK, Reread
<1>11. ASSUME NEW c \in Clients, Acquire(c) PROVE TypeOK'
  <2>1. CASE Finish(c)
    BY <1>11, <2>1, FinishType DEF TypeOK, Acquire
  <2>2. CASE ~Finish(c)
    <3>1. /\ task' = [task EXCEPT ![c].pc = "composing"]
          /\ lock' = [lock EXCEPT ![HostOf[c]] = c]
          /\ UNCHANGED <<db, source, now, host, loop, writer, txn, req>>
      BY <1>11, <2>2 DEF Acquire
    <3> QED
      BY <3>1 DEF TypeOK, TaskPc
  <2> QED
    BY <2>1, <2>2
<1>12. ASSUME NEW c \in Clients, NEW comp \in Composition, NEW feed \in SUBSET Names,
              Begin(c, comp, feed)
       PROVE  TypeOK'
  <2>1. NextGeneration(db) \in 1..MaxGeneration
    BY NextGenerationType DEF TypeOK, Db
  <2>2. SetsOf(NextGeneration(db), comp) \in SUBSET SetRow
    BY <2>1, RowsType
  <2>3. txn' \in [Clients -> Txn \union {NoTxn}]
    BY <1>12, <2>1, <2>2 DEF TypeOK, Begin, Txn
  <2>4. task' \in [Clients -> [pc : TaskPc, maxAge : {Ttl, CatalogMaxAge}]]
    BY <1>12 DEF TypeOK, Begin, TaskPc
  <2> QED
    BY <1>12, <2>3, <2>4 DEF TypeOK, Begin
<1>13. ASSUME NEW c \in Clients, FailBegin(c) PROVE TypeOK'
  <2>1. task' \in [Clients -> [pc : TaskPc, maxAge : {Ttl, CatalogMaxAge}]]
    BY <1>13 DEF TypeOK, FailBegin, TaskPc
  <2> QED
    BY <1>13, <2>1 DEF TypeOK, FailBegin
<1>14. ASSUME NEW c \in Clients, StreamRow(c) PROVE TypeOK'
  <2>1. txn[c] \in Txn
    BY <1>14 DEF TypeOK, StreamIsolated, StreamRow
  <2>2. \A n \in txn[c].todo : Added(txn[c], n) \in Txn
    BY <2>1, AddedType
  <2> QED
    BY <1>14, <2>2 DEF TypeOK, StreamRow
<1>15. ASSUME NEW c \in Clients, FailStream(c) PROVE TypeOK'
  <2>1. task' \in [Clients -> [pc : TaskPc, maxAge : {Ttl, CatalogMaxAge}]]
    BY <1>15 DEF TypeOK, FailStream, TaskPc
  <2> QED
    BY <1>15, <2>1 DEF TypeOK, FailStream
<1>16. ASSUME NEW c \in Clients, Commit(c) PROVE TypeOK'
  <2>1. txn[c] \in Txn
    BY <1>16 DEF TypeOK, StreamIsolated, Commit
  <2>2. Installed(db, txn[c]) \in Db
    BY <2>1, InstalledType DEF TypeOK
  <2>3. [feed |-> txn[c].feed, comp |-> txn[c].comp] \in Source
    BY <2>1 DEF Txn, Source
  <2>4. Finish(c)
    BY <1>16 DEF Commit
  <2> QED
    BY <1>16, <2>2, <2>3, <2>4, FinishType DEF TypeOK, Commit
<1>17. ASSUME NEW c \in Clients, RecordFailure(c) PROVE TypeOK'
  <2>1. FailureMeta(db) \in Meta
    BY FailureMetaType DEF TypeOK, Db
  <2>2. db' \in Db
    BY <1>17, <2>1 DEF TypeOK, RecordFailure, Db
  <2>3. Finish(c)
    BY <1>17 DEF RecordFailure
  <2> QED
    BY <1>17, <2>2, <2>3, FinishType DEF TypeOK, RecordFailure
<1>18. ASSUME NEW c \in Clients, Discard(c) PROVE TypeOK'
  <2>1. task' \in [Clients -> [pc : TaskPc, maxAge : {Ttl, CatalogMaxAge}]]
    BY <1>18 DEF TypeOK, Discard, TaskPc
  <2> QED
    BY <1>18, <2>1 DEF TypeOK, Discard
<1>19. CASE UNCHANGED vars
  BY <1>19 DEF TypeOK, vars
<1> QED
  BY <1>1, <1>2, <1>3, <1>4, <1>5, <1>6, <1>7, <1>8, <1>9, <1>10, <1>11, <1>12, <1>13,
     <1>14, <1>15, <1>16, <1>17, <1>18, <1>19 DEF Next, RequestStep, RefreshStep
-----------------------------------------------------------------------------
\* Initially every part of the invariant holds.
LEMMA InvInit == Init => IInv
<1> SUFFICES ASSUME Init PROVE IInv
  OBVIOUS
<1>1. TypeOK
  BY TypeInit
<1>2. RequestsPlaced /\ WaitersHaveTask
  BY DEF Init, Idle, RequestsPlaced, WaitersHaveTask
<1>3. StreamIsolated /\ StreamFaithful
  BY SentinelAssumption DEF Init, StreamIsolated, StreamFaithful
<1>4. CompleteGeneration
  <2>1. CASE /\ db \in {[schema |-> s, rows |-> {}, sets |-> {}, meta |-> NoMeta]
                          : s \in {"absent", "unversioned", "current"}}
             /\ source = NoSource
    BY <2>1 DEF CompleteGeneration, MetaOf, FirstMeta, MetaAt
  <2>2. ASSUME NEW s \in {"stale", "unversioned", "current"}, NEW g \in 1..MaxGeneration,
               LET old == TablesOf(g, Cards, Names, 0)
               IN  /\ db = [schema |-> s, rows |-> old.rows, sets |-> old.sets,
                            meta |-> old.meta]
                   /\ source = [feed |-> Names, comp |-> Cards]
        PROVE  CompleteGeneration
    <3>1. /\ db.rows = TablesOf(g, Cards, Names, 0).rows
          /\ db.sets = TablesOf(g, Cards, Names, 0).sets
          /\ db.meta = MetaAt(g, 0)
          /\ source.comp = Cards /\ source.feed = Names
      BY <2>2 DEF TablesOf
    <3>2. MetaOf(db).generation = g
      <4>1. MetaAt(g, 0) \in Meta
        BY BoundAssumption DEF MetaAt, Meta
      <4> QED
        BY <3>1, <4>1, RecordAssumption DEF MetaOf, MetaAt
    <3>3. g # 0
      BY BoundAssumption
    <3> QED
      BY <3>1, <3>2, <3>3 DEF CompleteGeneration
  <2> QED
    BY <2>1, <2>2 DEF Init, InitialFile
<1> QED
  BY <1>1, <1>2, <1>3, <1>4 DEF IInv

\* A step keeps requests placed.
LEMMA PlacedNext ==
    ASSUME TypeOK, RequestsPlaced, [Next]_vars
    PROVE  RequestsPlaced'
<1>1. ASSUME NEW h \in Hosts, Halt(h) PROVE RequestsPlaced'
  BY <1>1 DEF RequestsPlaced, Halt, Idle, TypeOK
<1>2. ASSUME NEW r \in Requests, NEW c \in Clients, NEW kind \in {"prices", "catalog"},
             Ask(r, c, kind)
      PROVE  RequestsPlaced'
  BY <1>2 DEF RequestsPlaced, Ask, TypeOK
<1>3. ASSUME NEW r \in Requests, ReadPrices(r) \/ ReadCatalog(r) \/ Reread(r)
      PROVE  RequestsPlaced'
  <2>1. req' = [req EXCEPT ![r] = Answered(r)] /\ req[r].pc # "idle"
    BY <1>3 DEF ReadPrices, ReadCatalog, Reread
  <2>2. req[r] \in Request
    BY DEF TypeOK
  <2>3. Answered(r).pc = "done" /\ Answered(r).client = req[r].client
    BY <2>2 DEF Answered, Request
  <2> QED
    BY <2>1, <2>3 DEF RequestsPlaced, TypeOK
<1>4. ASSUME NEW r \in Requests, AwaitRefresh(r) \/ Resume(r) PROVE RequestsPlaced'
  <2>1. req[r] \in Request /\ req[r].client \in Clients /\ db \in Db
    BY <1>4 DEF TypeOK, RequestsPlaced, AwaitRefresh, Resume
  <2>2. \/ req' = [req EXCEPT ![r] = [@ EXCEPT !.pc = "rereading", !.snap = db]]
        \/ req' = [req EXCEPT ![r] = [@ EXCEPT !.pc = "waiting", !.snap = NoFile]]
    BY <1>4 DEF AwaitRefresh, Resume
  <2>3. /\ req'[r].client \in Clients
        /\ req'[r].pc = "rereading" => req'[r].snap \in Db
        /\ req'[r].pc # "reading"
        /\ \A q \in Requests : q # r => req'[q] = req[q]
    <3>1. \A pc \in RequestPc, snap \in Db \union {NoFile} :
             LET q == [req[r] EXCEPT !.pc = pc, !.snap = snap]
             IN  q.pc = pc /\ q.snap = snap /\ q.client = req[r].client
      BY <2>1 DEF Request
    <3>2. "rereading" \in RequestPc /\ "waiting" \in RequestPc
      BY DEF RequestPc
    <3>3. req \in [Requests -> Request]
      BY DEF TypeOK
    <3>4. CASE req' = [req EXCEPT ![r] = [@ EXCEPT !.pc = "rereading", !.snap = db]]
      <4>1. req'[r] = [req[r] EXCEPT !.pc = "rereading", !.snap = db]
        BY <3>3, <3>4
      <4> QED
        BY <2>1, <3>1, <3>2, <3>3, <3>4, <4>1
    <3>5. CASE req' = [req EXCEPT ![r] = [@ EXCEPT !.pc = "waiting", !.snap = NoFile]]
      <4>1. req'[r] = [req[r] EXCEPT !.pc = "waiting", !.snap = NoFile]
        BY <3>3, <3>5
      <4> QED
        BY <2>1, <3>1, <3>2, <3>3, <3>5, <4>1
    <3> QED
      BY <2>2, <3>4, <3>5
  <2> QED
    BY <2>3 DEF RequestsPlaced
<1>5. ASSUME NEW c \in Clients, Finish(c) PROVE RequestsPlaced'
  BY <1>5 DEF Finish, RequestsPlaced, TypeOK, Request
<1>6. ASSUME UNCHANGED req PROVE RequestsPlaced'
  BY <1>6 DEF RequestsPlaced
<1> QED
  BY <1>1, <1>2, <1>3, <1>4, <1>5, <1>6
  DEF Next, RequestStep, RefreshStep, Start, Migrate, Tick, Acquire, Begin, FailBegin,
      StreamRow, FailStream, Commit, RecordFailure, Discard, vars

\* A step keeps every stream isolated.
LEMMA IsolatedNext ==
    ASSUME IInv, [Next]_vars
    PROVE  StreamIsolated'
<1> USE SentinelAssumption DEF IInv
<1>1. ASSUME NEW h \in Hosts, Halt(h) PROVE StreamIsolated'
  BY <1>1 DEF StreamIsolated, Halt, TypeOK, fileVars
<1>2. ASSUME NEW h \in Hosts, Migrate(h) PROVE StreamIsolated'
  BY <1>2 DEF StreamIsolated, Migrate
<1>3. ASSUME NEW c \in Clients, Finish(c), task[c].pc \notin {"streaming"},
             UNCHANGED <<writer, txn>>,
             writer = Nobody \/ UNCHANGED db
      PROVE  StreamIsolated'
  <2>1. /\ task'[c].pc = "done"
        /\ \A d \in Clients : d # c => task'[d] = task[d]
    BY <1>3 DEF Finish, TypeOK
  <2>2. writer # c
    BY <1>3 DEF StreamIsolated
  <2>3. CASE writer = Nobody
    BY <1>3, <2>1, <2>2, <2>3 DEF StreamIsolated
  <2>4. CASE UNCHANGED db
    BY <1>3, <2>1, <2>2, <2>4 DEF StreamIsolated
  <2> QED
    BY <1>3, <2>3, <2>4
<1>4. ASSUME NEW c \in Clients, Acquire(c) PROVE StreamIsolated'
  <2>1. CASE Finish(c)
    BY <1>3, <1>4, <2>1 DEF Acquire, fileVars
  <2>2. CASE ~Finish(c)
    BY <1>4, <2>2 DEF Acquire, fileVars, StreamIsolated, TypeOK
  <2> QED
    BY <2>1, <2>2
<1>5. ASSUME NEW c \in Clients, NEW comp \in Composition, NEW feed \in SUBSET Names,
             Begin(c, comp, feed)
      PROVE  StreamIsolated'
  <2>1. /\ NextGeneration(db) \in 1..MaxGeneration
        /\ NextGeneration(db) # MetaOf(db).generation
    BY NextGenerationType DEF TypeOK, Db
  <2>2. /\ \A row \in db.rows \union db.sets : row.gen = MetaOf(db).generation
        /\ db' = db
    BY <1>5 DEF CompleteGeneration, TablesOf, Quoted, Unquoted, RowOf, SetsOf, Begin, fileVars
  <2>3. txn'[c].gen = NextGeneration(db) /\ txn'[c] \in Txn
    <3>1. SetsOf(NextGeneration(db), comp) \in SUBSET SetRow
      BY <2>1, RowsType
    <3> QED
      BY <1>5, <2>1, <3>1 DEF Begin, TypeOK, Txn
  <2>4. txn'[c] # NoTxn
    BY <2>3, RecordAssumption
  <2>5. /\ writer = Nobody /\ writer' = c
        /\ task'[c].pc = "streaming"
        /\ \A d \in Clients : d # c => task'[d] = task[d] /\ txn'[d] = txn[d]
    BY <1>5 DEF Begin, TypeOK
  <2> QED
    BY <2>1, <2>2, <2>3, <2>4, <2>5 DEF StreamIsolated
<1>6. ASSUME NEW c \in Clients, StreamRow(c) PROVE StreamIsolated'
  <2>1. PICK n \in txn[c].todo : txn' = [txn EXCEPT ![c] = Added(txn[c], n)]
    BY <1>6 DEF StreamRow
  <2>2. writer = c /\ txn[c] \in Txn
    BY <1>6 DEF StreamRow, StreamIsolated, TypeOK
  <2>3. Added(txn[c], n).gen = txn[c].gen /\ Added(txn[c], n) # NoTxn
    <3>1. Added(txn[c], n) \in Txn
      BY <2>2, AddedType
    <3>2. Added(txn[c], n).gen = txn[c].gen
      BY <2>2 DEF Added, Txn
    <3> QED
      BY <3>1, <3>2, RecordAssumption
  <2> QED
    BY <1>6, <2>1, <2>2, <2>3 DEF StreamRow, StreamIsolated, TypeOK, fileVars
<1>7. ASSUME NEW c \in Clients, FailStream(c) PROVE StreamIsolated'
  BY <1>7 DEF FailStream, StreamIsolated, TypeOK
<1>8. ASSUME NEW c \in Clients, Commit(c) PROVE StreamIsolated'
  <2>1. /\ task'[c].pc = "done" /\ txn'[c] = NoTxn
        /\ \A d \in Clients : d # c => task'[d] = task[d] /\ txn'[d] = txn[d]
        /\ writer = c /\ writer' = Nobody
    BY <1>8 DEF Commit, Finish, StreamIsolated, TypeOK
  <2> QED
    BY <2>1 DEF StreamIsolated
<1>9. ASSUME NEW c \in Clients, RecordFailure(c) PROVE StreamIsolated'
  <2>1. Finish(c) /\ task[c].pc # "streaming" /\ UNCHANGED <<writer, txn>>
    BY <1>9 DEF RecordFailure
  <2>2. writer = Nobody \/ UNCHANGED db
    BY <1>9 DEF RecordFailure
  <2> QED
    BY <1>3, <2>1, <2>2
<1>10. ASSUME NEW c \in Clients, FailBegin(c) \/ Discard(c) PROVE StreamIsolated'
  <2>1. /\ task'[c].pc \in {"failing", "none"} /\ task[c].pc # "streaming"
        /\ \A d \in Clients : d # c => task'[d] = task[d]
        /\ UNCHANGED <<db, writer, txn>>
    BY <1>10 DEF FailBegin, Discard, TypeOK, fileVars
  <2> QED
    BY <2>1 DEF StreamIsolated
<1>11. ASSUME NEW r \in Requests, AwaitRefresh(r) \/ ReadCatalog(r) PROVE StreamIsolated'
  BY <1>11 DEF AwaitRefresh, ReadCatalog, Joined, StreamIsolated, TypeOK, fileVars
<1>12. ASSUME UNCHANGED <<db, writer, task, txn>> PROVE StreamIsolated'
  BY <1>12 DEF StreamIsolated
<1> QED
  BY <1>1, <1>2, <1>4, <1>5, <1>6, <1>7, <1>8, <1>9, <1>10, <1>11, <1>12
  DEF Next, RequestStep, RefreshStep, Start, Tick, Ask, ReadPrices, Resume, Reread,
      vars, fileVars

\* A step keeps every open transaction faithful to its feed and composition.
LEMMA FaithfulNext ==
    ASSUME IInv, [Next]_vars
    PROVE  StreamFaithful'
<1> USE SentinelAssumption DEF IInv, fileVars
<1>1. ASSUME NEW c \in Clients, NEW comp \in Composition, NEW feed \in SUBSET Names,
             Begin(c, comp, feed)
      PROVE  StreamFaithful'
  <2>1. /\ txn'[c] = [gen |-> NextGeneration(db), comp |-> comp, feed |-> feed,
                      todo |-> feed, rows |-> {},
                      sets |-> SetsOf(NextGeneration(db), comp), batch |-> {}]
        /\ writer' = c /\ db' = db
    BY <1>1 DEF Begin, TypeOK
  <2>2. NextGeneration(db)' = NextGeneration(db)
    BY <2>1 DEF NextGeneration, MetaOf
  <2>3. Quoted(NextGeneration(db), comp, feed \ feed) = {}
    BY DEF Quoted
  <2> QED
    BY <2>1, <2>2, <2>3 DEF StreamFaithful
<1>2. ASSUME NEW c \in Clients, StreamRow(c) PROVE StreamFaithful'
  <2>1. PICK n \in txn[c].todo : txn' = [txn EXCEPT ![c] = Added(txn[c], n)]
    BY <1>2 DEF StreamRow
  <2>2. writer = c /\ txn[c] \in Txn
    BY <1>2 DEF StreamRow, StreamIsolated, TypeOK
  <2> DEFINE t == txn[c]
             u == Added(t, n)
  <2>3. /\ u.gen = t.gen /\ u.comp = t.comp /\ u.feed = t.feed /\ u.sets = t.sets
        /\ u.todo = t.todo \ {n}
        /\ u.rows \union u.batch = t.rows \union t.batch
                                   \union {RowOf(t.gen, t.comp, n, TRUE)}
    BY <2>2 DEF Added, Txn
  <2>4. t.todo \subseteq t.feed
    BY <2>2 DEF StreamFaithful
  <2>5. Quoted(t.gen, t.comp, t.feed \ (t.todo \ {n})) =
        Quoted(t.gen, t.comp, t.feed \ t.todo) \union {RowOf(t.gen, t.comp, n, TRUE)}
    BY <2>4 DEF Quoted
  <2>6. UNCHANGED <<db, writer>> /\ txn'[c] = u
    BY <1>2, <2>1 DEF StreamRow, TypeOK
  <2>7. NextGeneration(db)' = NextGeneration(db)
    BY <2>6 DEF NextGeneration, MetaOf
  <2> HIDE DEF u
  <2> QED
    BY <2>2, <2>3, <2>4, <2>5, <2>6, <2>7 DEF StreamFaithful
<1>3. ASSUME writer' = Nobody PROVE StreamFaithful'
  BY <1>3 DEF StreamFaithful
<1>4. ASSUME NEW h \in Hosts, Halt(h) PROVE StreamFaithful'
  <2>1. NextGeneration(db)' = NextGeneration(db)
    BY <1>4 DEF Halt, NextGeneration, MetaOf
  <2>2. ASSUME NEW c \in Clients, writer' = c PROVE writer = c /\ txn'[c] = txn[c]
    BY <1>4, <2>2 DEF Halt
  <2> QED
    BY <2>1, <2>2 DEF StreamFaithful
<1>5. ASSUME NEW c \in Clients, RecordFailure(c) PROVE StreamFaithful'
  <2>1. CASE writer = Nobody
    BY <1>3, <1>5, <2>1 DEF RecordFailure
  <2>2. CASE writer # Nobody
    <3>1. UNCHANGED <<db, writer, txn>>
      BY <1>5, <2>2 DEF RecordFailure
    <3> QED
      BY <3>1 DEF StreamFaithful, NextGeneration, MetaOf
  <2> QED
    BY <2>1, <2>2
<1>6. ASSUME UNCHANGED <<db, writer, txn>> PROVE StreamFaithful'
  BY <1>6 DEF StreamFaithful, NextGeneration, MetaOf
<1> QED
  BY <1>1, <1>2, <1>3, <1>4, <1>5, <1>6
  DEF Next, RequestStep, RefreshStep, Start, Migrate, Tick, Ask, ReadPrices, AwaitRefresh,
      ReadCatalog, Resume, Reread, Acquire, FailBegin, FailStream, Commit, Discard, vars

\* A step keeps the committed generation complete.
LEMMA CompleteNext ==
    ASSUME IInv, [Next]_vars
    PROVE  CompleteGeneration'
<1> USE SentinelAssumption DEF IInv, fileVars
<1>1. ASSUME NEW h \in Hosts, Migrate(h) PROVE CompleteGeneration'
  <2>1. CASE Readable(db)
    <3>1. /\ db'.rows = db.rows /\ db'.sets = db.sets /\ db'.meta = db.meta
          /\ source' = source
      BY <1>1, <2>1 DEF Migrate, Migrated, Readable, TypeOK, Db
    <3> QED
      BY <3>1 DEF CompleteGeneration, MetaOf
  <2>2. CASE ~Readable(db)
    <3>1. db'.rows = {} /\ db'.sets = {} /\ db'.meta = NoMeta
      BY <1>1, <2>2 DEF Migrate, Migrated, Readable
    <3> QED
      BY <3>1 DEF CompleteGeneration, MetaOf, FirstMeta, MetaAt
  <2> QED
    BY <2>1, <2>2
<1>2. ASSUME NEW c \in Clients, Commit(c) PROVE CompleteGeneration'
  <2> DEFINE t == txn[c]
  <2>1. writer = c /\ t \in Txn
    BY <1>2 DEF Commit, StreamIsolated, TypeOK
  <2>2. \A row \in db.rows \union db.sets : row.gen # t.gen
    BY <2>1 DEF StreamIsolated
  <2>3. /\ t.rows \union t.batch = Quoted(t.gen, t.comp, t.feed)
        /\ t.sets = SetsOf(t.gen, t.comp)
    <3>1. t.todo = {}
      BY <1>2 DEF Commit, ValidGeneration
    <3>2. t.feed \ t.todo = t.feed
      BY <3>1
    <3>3. t.rows \union t.batch = Quoted(t.gen, t.comp, t.feed \ t.todo)
      BY <2>1 DEF StreamFaithful
    <3> QED
      BY <2>1, <3>2, <3>3 DEF StreamFaithful
  <2>4. Streamed(t) = Quoted(t.gen, t.comp, t.feed) \union Unquoted(t.gen, t.comp, t.feed)
    BY <2>3 DEF Streamed
  <2>5. \A row \in Streamed(t) \union t.sets : row.gen = t.gen
    BY <2>3, <2>4 DEF Quoted, Unquoted, RowOf, SetsOf
  <2>6. /\ db'.rows = Streamed(t) /\ db'.sets = t.sets
        /\ db'.meta = MetaAt(t.gen, now)
        /\ source'.feed = t.feed /\ source'.comp = t.comp
    <3>1. db' = Installed(db, t) /\ source' = [feed |-> t.feed, comp |-> t.comp]
      BY <1>2 DEF Commit
    <3>2. /\ {row \in db.rows \union Streamed(t) : row.gen = t.gen} = Streamed(t)
          /\ {s \in db.sets \union t.sets : s.gen = t.gen} = t.sets
      BY <2>2, <2>5
    <3> QED
      BY <3>1, <3>2 DEF Installed, TypeOK, Db
  <2>7. MetaOf(db').generation = t.gen /\ t.gen # 0
    <3>1. t.gen \in 1..MaxGeneration /\ now \in Nat
      BY <2>1 DEF Txn, TypeOK
    <3>2. MetaAt(t.gen, now) \in Meta
      BY <3>1, BoundAssumption DEF MetaAt, Meta
    <3> QED
      BY <2>6, <3>1, <3>2, RecordAssumption DEF MetaOf, MetaAt
  <2>8. /\ TablesOf(t.gen, t.comp, t.feed, 0).rows = Streamed(t)
        /\ TablesOf(t.gen, t.comp, t.feed, 0).sets = t.sets
    BY <2>3, <2>4 DEF TablesOf
  <2> HIDE DEF t
  <2> QED
    BY <2>6, <2>7, <2>8 DEF CompleteGeneration, MetaOf
<1>3. ASSUME NEW c \in Clients, RecordFailure(c) PROVE CompleteGeneration'
  <2>1. CASE writer # Nobody
    BY <1>3, <2>1 DEF RecordFailure, CompleteGeneration, MetaOf
  <2>2. CASE writer = Nobody
    <3>1. FailureMeta(db) \in Meta
      BY FailureMetaType DEF TypeOK, Db
    <3>2. /\ db'.rows = db.rows /\ db'.sets = db.sets /\ db'.meta = FailureMeta(db)
          /\ source' = source
      BY <1>3, <2>2 DEF RecordFailure, TypeOK, Db
    <3>3. FailureMeta(db).generation = MetaOf(db).generation
      <4>1. MetaOf(db) \in Meta
        BY MetaOfType DEF TypeOK, Db
      <4> QED
        BY <4>1 DEF FailureMeta, Meta
    <3>4. MetaOf(db').generation = MetaOf(db).generation
      BY <3>1, <3>2, <3>3, RecordAssumption DEF MetaOf
    <3> QED
      BY <3>2, <3>4 DEF CompleteGeneration, MetaOf
  <2> QED
    BY <2>1, <2>2
<1>4. ASSUME UNCHANGED <<db, source>> PROVE CompleteGeneration'
  BY <1>4 DEF CompleteGeneration, MetaOf
<1> QED
  BY <1>1, <1>2, <1>3, <1>4
  DEF Next, RequestStep, RefreshStep, Start, Halt, Tick, Ask, ReadPrices, AwaitRefresh,
      ReadCatalog, Resume, Reread, Acquire, Begin, FailBegin, StreamRow, FailStream,
      Discard, vars

\* A step leaves no waiter without a task that is still going to end.
LEMMA WaitersNext ==
    ASSUME IInv, [Next]_vars
    PROVE  WaitersHaveTask'
<1> USE SentinelAssumption DEF IInv, fileVars
<1> DEFINE Live == {"queued", "composing", "streaming", "failing"}
<1>1. ASSUME NEW h \in Hosts, Halt(h) PROVE WaitersHaveTask'
  <2>1. ASSUME NEW r \in Requests, req'[r].pc = "waiting"
        PROVE  /\ req'[r] = req[r]
               /\ task'[req[r].client] = task[req[r].client]
    <3>1. req'[r] = IF IsOn(r, h) THEN Idle ELSE req[r]
      BY <1>1 DEF Halt
    <3>2. ~IsOn(r, h) /\ req'[r] = req[r]
      BY <2>1, <3>1 DEF Idle
    <3>3. req[r].client \in Clients /\ HostOf[req[r].client] # h
      BY <2>1, <3>2 DEF IsOn, RequestsPlaced
    <3> QED
      BY <1>1, <3>2, <3>3 DEF Halt
  <2> QED
    BY <2>1 DEF WaitersHaveTask
<1>2. ASSUME NEW r \in Requests, AwaitRefresh(r) PROVE WaitersHaveTask'
  <2> DEFINE c == req[r].client
  <2>1. c \in Clients /\ req[r] \in Request
    BY <1>2 DEF AwaitRefresh, RequestsPlaced, TypeOK
  <2>2. ASSUME NEW q \in Requests, q # r PROVE req'[q] = req[q]
    BY <1>2, <2>2 DEF AwaitRefresh, TypeOK
  <2>3. ASSUME NEW d \in Clients, task[d].pc \in Live PROVE task'[d] = task[d]
    BY <1>2, <2>3 DEF AwaitRefresh, Joined, TypeOK
  <2>4. CASE task[c].pc = "done"
    <3>1. req'[r].pc = "rereading"
      <4>1. req' = [req EXCEPT ![r] = [@ EXCEPT !.pc = "rereading", !.snap = db]]
        BY <1>2, <2>4 DEF AwaitRefresh
      <4>2. req'[r] = [req[r] EXCEPT !.pc = "rereading", !.snap = db]
        BY <4>1 DEF TypeOK
      <4> QED
        BY <2>1, <4>2 DEF Request
    <3> QED
      BY <2>2, <2>3, <3>1 DEF WaitersHaveTask, RequestsPlaced
  <2>5. CASE task[c].pc # "done"
    <3>1. req'[r].client = c
      <4>1. req' = [req EXCEPT ![r] = [@ EXCEPT !.pc = "waiting", !.snap = NoFile]]
        BY <1>2, <2>5 DEF AwaitRefresh
      <4>2. req'[r] = [req[r] EXCEPT !.pc = "waiting", !.snap = NoFile]
        BY <4>1 DEF TypeOK
      <4> QED
        BY <2>1, <4>2 DEF Request
    <3>2. task'[c].pc \in Live
      <4>1. task' = Joined(c, Ttl)
        BY <1>2, <2>5 DEF AwaitRefresh
      <4> QED
        BY <2>1, <2>5, <4>1 DEF Joined, TypeOK, TaskPc
    <3> QED
      BY <2>2, <2>3, <3>1, <3>2 DEF WaitersHaveTask, RequestsPlaced
  <2> QED
    BY <2>4, <2>5
<1>3. ASSUME NEW c \in Clients, Finish(c) PROVE WaitersHaveTask'
  <2>1. ASSUME NEW r \in Requests, req'[r].pc = "waiting"
        PROVE  req'[r] = req[r] /\ req[r].client # c
    <3>1. req[r] \in Request
      BY DEF TypeOK
    <3>2. req'[r] = IF OnClient(r, c) /\ req[r].pc = "waiting"
                    THEN [req[r] EXCEPT !.pc = "waking"] ELSE req[r]
      BY <1>3 DEF Finish
    <3> QED
      BY <2>1, <3>1, <3>2 DEF OnClient, Request
  <2>2. \A d \in Clients : d # c => task'[d] = task[d]
    BY <1>3 DEF Finish, TypeOK
  <2> QED
    BY <2>1, <2>2 DEF WaitersHaveTask, RequestsPlaced
<1>4. ASSUME NEW r \in Requests, NEW q, req' = [req EXCEPT ![r] = q], q.pc # "waiting",
             \A d \in Clients : task[d].pc \in Live => task'[d] = task[d]
      PROVE  WaitersHaveTask'
  <2>1. ASSUME NEW s \in Requests, req'[s].pc = "waiting" PROVE s # r /\ req'[s] = req[s]
    BY <1>4, <2>1 DEF TypeOK
  <2> QED
    BY <1>4, <2>1 DEF WaitersHaveTask, RequestsPlaced
<1>5. ASSUME NEW r \in Requests, NEW c \in Clients, NEW kind \in {"prices", "catalog"},
             Ask(r, c, kind)
      PROVE  WaitersHaveTask'
  <2> DEFINE q == [pc |-> "reading", client |-> c, kind |-> kind, snap |-> db,
                   answer |-> NoGeneration]
  <2>1. req' = [req EXCEPT ![r] = q] /\ UNCHANGED task
    BY <1>5 DEF Ask
  <2>2. q.pc # "waiting"
    OBVIOUS
  <2> HIDE DEF q
  <2> QED
    BY <1>4, <2>1, <2>2
<1>6. ASSUME NEW r \in Requests, ReadPrices(r) \/ ReadCatalog(r) \/ Reread(r)
      PROVE  WaitersHaveTask'
  <2>1. req' = [req EXCEPT ![r] = Answered(r)]
    BY <1>6 DEF ReadPrices, ReadCatalog, Reread
  <2>2. Answered(r).pc # "waiting"
    BY DEF Answered, TypeOK, Request
  <2>3. \A d \in Clients : task[d].pc \in Live => task'[d] = task[d]
    BY <1>6 DEF ReadPrices, ReadCatalog, Reread, Joined, TypeOK
  <2> QED
    BY <1>4, <2>1, <2>2, <2>3
<1>7. ASSUME NEW r \in Requests, Resume(r) PROVE WaitersHaveTask'
  <2> DEFINE q == [req[r] EXCEPT !.pc = "rereading", !.snap = db]
  <2>1. req' = [req EXCEPT ![r] = q] /\ UNCHANGED task
    BY <1>7 DEF Resume
  <2>2. q.pc # "waiting"
    BY DEF TypeOK, Request
  <2> HIDE DEF q
  <2> QED
    BY <1>4, <2>1, <2>2
<1>8. ASSUME NEW c \in Clients, UNCHANGED req, task[c].pc = "done" \/ task'[c].pc \in Live,
             \A d \in Clients : d # c => task'[d] = task[d]
      PROVE  WaitersHaveTask'
  BY <1>8 DEF WaitersHaveTask, RequestsPlaced
<1>9. ASSUME NEW c \in Clients, Acquire(c) PROVE WaitersHaveTask'
  <2>1. CASE Finish(c)
    BY <1>3, <2>1
  <2>2. CASE ~Finish(c)
    <3>1. UNCHANGED req /\ task' = [task EXCEPT ![c].pc = "composing"]
      BY <1>9, <2>2 DEF Acquire
    <3> QED
      BY <1>8, <3>1 DEF TypeOK
  <2> QED
    BY <2>1, <2>2
<1>10. ASSUME NEW c \in Clients, NEW comp \in Composition, NEW feed \in SUBSET Names,
              Begin(c, comp, feed)
       PROVE  WaitersHaveTask'
  BY <1>8, <1>10 DEF Begin, TypeOK
<1>11. ASSUME NEW c \in Clients, FailBegin(c) \/ FailStream(c) \/ Discard(c)
       PROVE  WaitersHaveTask'
  BY <1>8, <1>11 DEF FailBegin, FailStream, Discard, TypeOK
<1>12. ASSUME NEW c \in Clients, Commit(c) \/ RecordFailure(c) PROVE WaitersHaveTask'
  BY <1>3, <1>12 DEF Commit, RecordFailure
<1>13. ASSUME UNCHANGED <<task, req>> PROVE WaitersHaveTask'
  BY <1>13 DEF WaitersHaveTask
<1> QED
  BY <1>1, <1>2, <1>5, <1>6, <1>7, <1>9, <1>10, <1>11, <1>12, <1>13
  DEF Next, RequestStep, RefreshStep, Start, Migrate, Tick, StreamRow, vars
-----------------------------------------------------------------------------
\* The inductive invariant holds in every reachable state.
THEOREM InvariantHolds == Spec => []IInv
<1>1. Init => IInv
  BY InvInit
<1>2. IInv /\ [Next]_vars => IInv'
  BY TypeNext, PlacedNext, IsolatedNext, FaithfulNext, CompleteNext, WaitersNext DEF IInv
<1> QED
  BY <1>1, <1>2, PTL DEF Spec

\* The variables of PriceRefresh always have their types.
THEOREM TypeCorrect == Spec => []TypeOK
<1>1. IInv => TypeOK
  BY DEF IInv
<1> QED
  BY <1>1, InvariantHolds, PTL

\* The committed file always holds one whole generation (or none): no interleaving
\* of hosts, no crash and no failure leaves a part of one in it.
THEOREM GenerationsWhole == Spec => []CompleteGeneration
<1>1. IInv => CompleteGeneration
  BY DEF IInv
<1> QED
  BY <1>1, InvariantHolds, PTL

\* A stream is only ever open under the write lock, and its rows never meet
\* committed rows of its own generation number, even when the numbers wrap.
THEOREM StreamsIsolated == Spec => []StreamIsolated
<1>1. IInv => StreamIsolated
  BY DEF IInv
<1> QED
  BY <1>1, InvariantHolds, PTL

\* No request ever waits for a refresh that has already ended.
THEOREM WaitersAwaitLiveTask == Spec => []WaitersHaveTask
<1>1. IInv => WaitersHaveTask
  BY DEF IInv
<1> QED
  BY <1>1, InvariantHolds, PTL
-----------------------------------------------------------------------------
\* One process.

\* The clients of one host run in one process and share its lock.
OneHost == \A c, d \in Clients : HostOf[c] = HostOf[d]

Busy == {"composing", "streaming", "failing"}

\* A refresh that is past the lock holds it.
LockHeld == \A c \in Clients : task[c].pc \in Busy => lock[HostOf[c]] = c

\* A refresh that calls the provider finds the cache as it was when it took the lock.
RefreshDue ==
    \A c \in Clients : task[c].pc \in {"composing", "streaming"} =>
        ~Suppressed(db) /\ ~YoungerThan(db, CatalogMaxAge)

\* A task's stage is all of it that changes, and no other task's does.
LEMMA StagePut ==
    ASSUME TypeOK, NEW c \in Clients, NEW pc, task' = [task EXCEPT ![c].pc = pc]
    PROVE  /\ task'[c].pc = pc /\ \A d \in Clients : d # c => task'[d] = task[d]
BY DEF TypeOK

\* Requests touch a task only before or after its refresh.
LEMMA RequestTask ==
    ASSUME TypeOK, NEW r \in Requests, RequestStep(r), NEW c \in Clients,
           task'[c].pc \in Busy
    PROVE  task[c].pc = task'[c].pc
<1>1. UNCHANGED task => task[c].pc = task'[c].pc
  OBVIOUS
<1>2. ASSUME NEW d, NEW m, task' = Joined(d, m) PROVE task[c].pc = task'[c].pc
  BY <1>2 DEF Joined, TypeOK, Busy
<1>3. CASE AwaitRefresh(r)
  BY <1>2, <1>3 DEF AwaitRefresh, TypeOK, Busy
<1> QED
  BY <1>1, <1>2, <1>3 DEF RequestStep, ReadPrices, ReadCatalog, Resume, Reread

\* Whoever finishes leaves a lock that nobody who is past it has lost.
LEMMA FinishLock ==
    ASSUME TypeOK, LockHeld, NEW c \in Clients, Finish(c), lock[HostOf[c]] \in {c, Nobody}
    PROVE  LockHeld'
<1>1. /\ task'[c].pc = "done" /\ \A d \in Clients : d # c => task'[d] = task[d]
      /\ lock' = [lock EXCEPT ![HostOf[c]] = Nobody]
  BY StagePut DEF Finish
<1> SUFFICES ASSUME NEW d \in Clients, task'[d].pc \in Busy PROVE lock'[HostOf[d]] = d
  BY DEF LockHeld
<1>2. d # c /\ lock[HostOf[d]] = d
  BY <1>1 DEF LockHeld, Busy
<1>3. HostOf[d] # HostOf[c]
  BY <1>2, SentinelAssumption
<1> QED
  BY <1>1, <1>2, <1>3, HostAssumption DEF TypeOK

LEMMA LockNext ==
    ASSUME TypeOK, LockHeld, [Next]_vars
    PROVE  LockHeld'
<1>1. ASSUME NEW h \in Hosts, Halt(h) PROVE LockHeld'
  <2> SUFFICES ASSUME NEW d \in Clients, task'[d].pc \in Busy PROVE lock'[HostOf[d]] = d
    BY DEF LockHeld
  <2>1. HostOf[d] # h /\ task'[d] = task[d]
    BY <1>1 DEF Halt, Busy
  <2> QED BY <1>1, <2>1, HostAssumption DEF Halt, LockHeld, TypeOK
<1>2. ASSUME NEW r \in Requests, RequestStep(r) PROVE LockHeld'
  <2>1. UNCHANGED lock
    BY <1>2 DEF RequestStep, ReadPrices, AwaitRefresh, ReadCatalog, Resume, Reread
  <2> QED BY <1>2, <2>1, RequestTask DEF LockHeld
<1>3. ASSUME NEW c \in Clients, Acquire(c) PROVE LockHeld'
  <2>1. CASE Finish(c)
    BY <1>3, <2>1, FinishLock DEF Acquire
  <2>2. CASE ~Finish(c)
    <3>1. /\ task' = [task EXCEPT ![c].pc = "composing"]
          /\ lock' = [lock EXCEPT ![HostOf[c]] = c] /\ lock[HostOf[c]] = Nobody
      BY <1>3, <2>2 DEF Acquire
    <3> SUFFICES ASSUME NEW d \in Clients, task'[d].pc \in Busy PROVE lock'[HostOf[d]] = d
      BY DEF LockHeld
    <3>2. CASE d = c
      BY <3>1, <3>2, HostAssumption DEF TypeOK
    <3>3. CASE d # c
      <4>1. lock[HostOf[d]] = d
        BY <3>1, <3>3, StagePut DEF LockHeld
      <4>2. HostOf[d] # HostOf[c]
        BY <3>1, <4>1, SentinelAssumption
      <4> QED BY <3>1, <4>1, <4>2, HostAssumption DEF TypeOK
    <3> QED BY <3>2, <3>3
  <2> QED BY <2>1, <2>2
<1>4. ASSUME NEW c \in Clients, UNCHANGED lock, NEW pc, task' = [task EXCEPT ![c].pc = pc],
             task[c].pc \in Busy \/ pc \notin Busy
      PROVE  LockHeld'
  BY <1>4, StagePut DEF LockHeld
<1>5. ASSUME NEW c \in Clients, FailBegin(c) \/ FailStream(c) \/ Discard(c) PROVE LockHeld'
  BY <1>4, <1>5 DEF FailBegin, FailStream, Discard, Busy
<1>6. ASSUME NEW c \in Clients, NEW comp \in Composition, NEW feed \in SUBSET Names,
             Begin(c, comp, feed)
      PROVE  LockHeld'
  BY <1>4, <1>6 DEF Begin, Busy
<1>7. ASSUME NEW c \in Clients, Commit(c) \/ RecordFailure(c) PROVE LockHeld'
  <2>1. task[c].pc \in Busy /\ Finish(c)
    BY <1>7 DEF Commit, RecordFailure, Busy
  <2> QED BY <2>1, FinishLock DEF LockHeld
<1>8. CASE UNCHANGED <<task, lock>>
  BY <1>8 DEF LockHeld
<1> QED
  BY <1>1, <1>2, <1>3, <1>5, <1>6, <1>7, <1>8
  DEF Next, RefreshStep, Start, Migrate, Tick, Ask, StreamRow, vars

\* On one host a refresh that ends leaves no other one past the lock.
LEMMA LastRefresh ==
    ASSUME OneHost, TypeOK, LockHeld, NEW c \in Clients, task[c].pc \in Busy, Finish(c)
    PROVE  \A d \in Clients : task'[d].pc \notin Busy
<1>1. task'[c].pc = "done" /\ \A d \in Clients : d # c => task'[d] = task[d]
  BY StagePut DEF Finish
<1>2. \A d \in Clients : task[d].pc \in Busy => d = c
  BY DEF OneHost, LockHeld
<1> QED
  BY <1>1, <1>2 DEF Busy

LEMMA DueNext ==
    ASSUME OneHost, TypeOK, LockHeld, RefreshDue, [Next]_vars
    PROVE  RefreshDue'
<1> DEFINE Calling == {"composing", "streaming"}
<1>1. ASSUME UNCHANGED <<db, now>>,
             \A c \in Clients : task'[c].pc \in Calling => task[c].pc \in Calling
      PROVE  RefreshDue'
  BY <1>1 DEF RefreshDue, Suppressed, YoungerThan, HasGeneration
<1>2. ASSUME NEW h \in Hosts, Migrate(h) PROVE RefreshDue'
  <2>1. db'.meta \in {db.meta, NoMeta} /\ UNCHANGED <<now, task>>
    BY <1>2 DEF Migrate, Migrated, TypeOK, Db
  <2> QED BY <2>1 DEF RefreshDue, Suppressed, YoungerThan, HasGeneration
<1>3. CASE Tick
  <2>1. now' = now + 1 /\ UNCHANGED <<db, task>> /\ now \in Nat /\ db \in Db
    BY <1>3 DEF Tick, TypeOK, fileVars
  <2>2. db.meta # NoMeta => db.meta.retryUntil \in Nat /\ db.meta.refreshedAt \in Nat
    BY <2>1 DEF Db, Meta
  <2>3. CatalogMaxAge \in Nat
    BY TimeAssumption
  <2> QED BY <2>1, <2>2, <2>3 DEF RefreshDue, Suppressed, YoungerThan, HasGeneration
<1>4. ASSUME NEW c \in Clients, Acquire(c) PROVE RefreshDue'
  <2>1. UNCHANGED <<db, now>>
    BY <1>4 DEF Acquire, fileVars
  <2>2. CASE Finish(c)
    BY <1>1, <2>1, <2>2, StagePut DEF Finish
  <2>3. CASE ~Finish(c)
    <3>1. /\ task' = [task EXCEPT ![c].pc = "composing"]
          /\ ~YoungerThan(db, task[c].maxAge) /\ ~Suppressed(db)
      BY <1>4, <2>3 DEF Acquire
    <3>2. ~YoungerThan(db, CatalogMaxAge)
      <4>1. task[c].maxAge \in {Ttl, CatalogMaxAge} /\ now \in Nat /\ db \in Db
        BY DEF TypeOK
      <4>2. db.meta # NoMeta => db.meta.refreshedAt \in Nat
        BY <4>1 DEF Db, Meta
      <4>3. Ttl \in Nat /\ CatalogMaxAge \in Nat /\ CatalogMaxAge <= Ttl
        BY TimeAssumption
      <4> QED BY <3>1, <4>1, <4>2, <4>3 DEF YoungerThan, HasGeneration
    <3>3. ~Suppressed(db)' /\ ~YoungerThan(db, CatalogMaxAge)'
      BY <2>1, <3>1, <3>2 DEF Suppressed, YoungerThan, HasGeneration
    <3> QED BY <3>3 DEF RefreshDue
  <2> QED BY <2>2, <2>3
<1>5. ASSUME NEW c \in Clients, NEW comp \in Composition, NEW feed \in SUBSET Names,
             Begin(c, comp, feed)
      PROVE  RefreshDue'
  BY <1>1, <1>5, StagePut DEF Begin, fileVars
<1>6. ASSUME NEW c \in Clients, FailBegin(c) \/ FailStream(c) \/ Discard(c) PROVE RefreshDue'
  BY <1>1, <1>6, StagePut DEF FailBegin, FailStream, Discard, fileVars
<1>7. ASSUME NEW c \in Clients, Commit(c) \/ RecordFailure(c) PROVE RefreshDue'
  <2>1. task[c].pc \in Busy /\ Finish(c)
    BY <1>7 DEF Commit, RecordFailure, Busy
  <2>2. \A d \in Clients : task'[d].pc \notin Busy
    BY <2>1, LastRefresh
  <2> QED BY <2>2 DEF RefreshDue, Busy
<1>8. ASSUME NEW r \in Requests, RequestStep(r) PROVE RefreshDue'
  <2>1. UNCHANGED <<db, now>>
    BY <1>8 DEF RequestStep, ReadPrices, AwaitRefresh, ReadCatalog, Resume, Reread, fileVars
  <2> QED BY <1>1, <1>8, <2>1, RequestTask DEF Busy
<1>9. ASSUME NEW h \in Hosts, Halt(h) PROVE RefreshDue'
  <2>1. \A c \in Clients : task'[c].pc \in Calling => task[c].pc \in Calling
    BY <1>9 DEF Halt
  <2> QED BY <1>1, <1>9, <2>1 DEF Halt, fileVars
<1>10. CASE UNCHANGED <<db, now, task>>
  BY <1>1, <1>10
<1> QED
  BY <1>2, <1>3, <1>4, <1>5, <1>6, <1>7, <1>8, <1>9, <1>10
  DEF Next, RefreshStep, Start, Ask, StreamRow, vars, fileVars
-----------------------------------------------------------------------------
\* What readers can see of the file.

\* Readers see of a file whether it is readable, its generation and its rows.
LEMMA ContentSame ==
    ASSUME NEW d, NEW e, e.rows = d.rows, Readable(e) <=> Readable(d),
           HasGeneration(e) <=> HasGeneration(d),
           HasGeneration(d) => e.meta.generation = d.meta.generation
    PROVE  Content(e) = Content(d)
<1>1. CASE Readable(d) /\ HasGeneration(d)
  <2>1. PricesIn(e) = PricesIn(d) /\ CatalogIn(e) = CatalogIn(d)
    BY <1>1 DEF PricesIn, CatalogIn
  <2> QED BY <1>1, <2>1 DEF Content
<1>2. CASE ~(Readable(d) /\ HasGeneration(d))
  BY <1>2 DEF Content
<1> QED
  BY <1>1, <1>2

\* Only a commit changes what readers can see: a migration that keeps the tables
\* keeps the generation, and so does a recorded failure.
LEMMA ContentNext ==
    ASSUME TypeOK, [Next]_vars
    PROVE  Content(db') = Content(db) \/ \E c \in Clients : Commit(c)
<1>1. ASSUME NEW h \in Hosts, Migrate(h) PROVE Content(db') = Content(db)
  <2>1. CASE Readable(db)
    <3>1. db'.rows = db.rows /\ db'.meta = db.meta /\ Readable(db')
      BY <1>1, <2>1 DEF Migrate, Migrated, Readable, TypeOK, Db
    <3> QED BY <2>1, <3>1, ContentSame DEF HasGeneration
  <2>2. CASE ~Readable(db)
    <3>1. db'.meta = NoMeta
      BY <1>1, <2>2 DEF Migrate, Migrated, Readable
    <3> QED BY <2>2, <3>1 DEF Content, HasGeneration
  <2> QED BY <2>1, <2>2
<1>2. ASSUME NEW c \in Clients, RecordFailure(c) PROVE Content(db') = Content(db)
  <2>1. CASE db' = db
    BY <2>1
  <2>2. CASE db' # db
    <3>1. db' = [db EXCEPT !.meta = FailureMeta(db)]
      BY <1>2, <2>2 DEF RecordFailure
    <3>2. FailureMeta(db) \in Meta /\ MetaOf(db) \in Meta
      BY FailureMetaType, MetaOfType DEF TypeOK, Db
    <3>3. FailureMeta(db).generation = MetaOf(db).generation
      BY <3>2 DEF FailureMeta, Meta
    <3>4. db'.rows = db.rows /\ db'.schema = db.schema /\ db'.meta = FailureMeta(db)
      BY <3>1 DEF TypeOK, Db
    <3>5. db'.meta # NoMeta
      BY <3>2, <3>4, RecordAssumption
    <3>6. HasGeneration(db') <=> HasGeneration(db)
      BY <3>3, <3>4, <3>5 DEF HasGeneration, MetaOf, FirstMeta, MetaAt
    <3>7. HasGeneration(db) => db'.meta.generation = db.meta.generation
      BY <3>3, <3>4 DEF HasGeneration, MetaOf
    <3>8. Readable(db') <=> Readable(db)
      BY <3>4 DEF Readable
    <3> QED BY <3>4, <3>6, <3>7, <3>8, ContentSame
  <2> QED BY <2>1, <2>2
<1>3. CASE db' = db
  BY <1>3
<1> QED
  BY <1>1, <1>2, <1>3
  DEF Next, RequestStep, RefreshStep, Start, Halt, Tick, Ask, ReadPrices, AwaitRefresh,
      ReadCatalog, Resume, Reread, Acquire, Begin, FailBegin, StreamRow, FailStream,
      Discard, vars, fileVars

\* What a commit makes visible, in a file readers can use: a whole generation that
\* has prices, under a number that is not the one in use.
LEMMA CommitContent ==
    ASSUME IInv, NEW c \in Clients, Commit(c), Content(db') # Content(db)
    PROVE  /\ Content(db') \in Answer /\ Content(db').prices # {}
           /\ Content(db) # NoGeneration => Content(db').gen # Content(db).gen
<1>1. PICK t : t = txn[c]
  OBVIOUS
<1>2. writer = c /\ t \in Txn /\ db \in Db /\ now \in Nat
  BY <1>1 DEF Commit, IInv, StreamIsolated, TypeOK
<1>3. db' = Installed(db, t) /\ t.todo = {} /\ t.feed # {}
  BY <1>1 DEF Commit, ValidGeneration
<1>4. /\ db' \in Db /\ db'.schema = db.schema /\ db'.meta = MetaAt(t.gen, now)
      /\ db'.rows = {row \in db.rows \union Streamed(t) : row.gen = t.gen}
  <2>1. db' \in Db
    BY <1>2, <1>3, InstalledType
  <2> QED BY <2>1, <1>2, <1>3 DEF Installed, Db
<1>5. Readable(db)
  <2>1. Readable(db') \/ Content(db') = NoGeneration
    BY DEF Content
  <2>2. Readable(db') <=> Readable(db)
    BY <1>4 DEF Readable
  <2> QED BY <2>1, <2>2 DEF Content
<1>6. /\ db'.meta \in Meta /\ db'.meta.generation = t.gen /\ t.gen \in 1..MaxGeneration
  <2>1. t.gen \in 1..MaxGeneration /\ t.gen \in 0..MaxGeneration
    BY <1>2, BoundAssumption DEF Txn
  <2> QED BY <2>1, <1>2, <1>4, BoundAssumption DEF MetaAt, Meta
<1>7. Readable(db') /\ HasGeneration(db')
  BY <1>4, <1>5, <1>6, RecordAssumption DEF Readable, HasGeneration
<1>8. Content(db') = [gen |-> t.gen, prices |-> PricesIn(db'), catalog |-> CatalogIn(db')]
  BY <1>6, <1>7 DEF Content
<1>9. Content(db') \in Answer
  <2>1. Content(db') \in Answer \union {NoGeneration}
    BY <1>4, ContentType
  <2>2. PricesIn(db') \in SUBSET Names /\ CatalogIn(db') \in [Apps -> SUBSET Names]
    BY <1>4 DEF PricesIn, CatalogIn, Db, Row
  <2> QED BY <2>2, <1>6, <1>8 DEF Answer
<1>10. PricesIn(db') # {}
  <2>1. PICK n \in t.feed : TRUE
    BY <1>3
  <2>2. t.feed \ t.todo = t.feed
    BY <1>3
  <2>3. t.rows \union t.batch = Quoted(t.gen, t.comp, t.feed)
    BY <1>1, <1>2, <2>2 DEF IInv, StreamFaithful
  <2>4. PICK row : row = RowOf(t.gen, t.comp, n, TRUE)
    OBVIOUS
  <2>5. row \in Streamed(t) /\ row.gen = t.gen /\ row.quoted /\ row.name = n
    <3>1. row \in Quoted(t.gen, t.comp, t.feed)
      BY <2>1, <2>4 DEF Quoted
    <3> QED BY <2>3, <2>4, <3>1 DEF Streamed, RowOf
  <2>6. row \in {x \in db'.rows : x.gen = db'.meta.generation /\ x.quoted}
    BY <2>5, <1>4, <1>6
  <2> QED BY <2>6 DEF PricesIn
<1>11. ASSUME Content(db) # NoGeneration PROVE Content(db').gen # Content(db).gen
  <2>1. HasGeneration(db) /\ Content(db).gen = db.meta.generation
    BY <1>11 DEF Content
  <2>2. t.gen = NextGeneration(db)
    BY <1>1, <1>2 DEF IInv, StreamFaithful
  <2>3. NextGeneration(db) # MetaOf(db).generation
    BY <1>2, NextGenerationType DEF Db
  <2>4. MetaOf(db).generation = db.meta.generation
    BY <2>1 DEF MetaOf, HasGeneration
  <2> QED BY <2>1, <2>2, <2>3, <2>4, <1>8
<1> QED
  BY <1>8, <1>9, <1>10, <1>11
-----------------------------------------------------------------------------
\* The refinement of PriceStore.

\* Until it is done a request has no answer.
Unread == \A r \in Requests : req[r].pc # "done" => req[r].answer = NoGeneration

\* What a request has looked at.
Seen(q) == IF q.pc \in {"reading", "rereading"} THEN Content(q.snap) ELSE NoGeneration

\* One request changes.
OnlyRequest(r) == req' \in [Requests -> Request] /\ \A q \in Requests : q # r => req'[q] = req[q]

LEMMA UnreadOne ==
    ASSUME Unread, NEW r \in Requests, OnlyRequest(r),
           req'[r].pc # "done" => req'[r].answer = NoGeneration
    PROVE  Unread'
BY DEF Unread, OnlyRequest

\* Such a step is one of the store's when what is visible stays.
LEMMA LookStep ==
    ASSUME req \in [Requests -> Request], NEW r \in Requests, OnlyRequest(r),
           Content(db') = Content(db), Seen(req'[r]) = Content(db),
           req'[r].answer = NoGeneration
    PROVE  Store!Look(r)
BY DEF Store!Look, Seen, OnlyRequest

LEMMA ReplyStep ==
    ASSUME req \in [Requests -> Request], NEW r \in Requests, OnlyRequest(r),
           Content(db') = Content(db), Seen(req'[r]) = NoGeneration,
           req'[r].answer = Seen(req[r])
    PROVE  Store!Reply(r)
BY DEF Store!Reply, Seen, OnlyRequest

LEMMA RetryStep ==
    ASSUME req \in [Requests -> Request], NEW r \in Requests, OnlyRequest(r),
           Content(db') = Content(db), Seen(req'[r]) = NoGeneration,
           req'[r].answer = req[r].answer
    PROVE  Store!Retry(r)
BY DEF Store!Retry, Seen, OnlyRequest

\* What each step of a request makes of it.
LEMMA RequestPut ==
    ASSUME TypeOK, NEW r \in Requests, NEW q \in Request, req' = [req EXCEPT ![r] = q]
    PROVE  OnlyRequest(r) /\ req'[r] = q
BY DEF TypeOK, OnlyRequest

LEMMA AskStep ==
    ASSUME IInv, Unread, NEW r \in Requests, NEW c \in Clients, NEW kind \in {"prices", "catalog"},
           Ask(r, c, kind)
    PROVE  Store!Look(r) /\ Unread'
<1>1. PICK q : q = [pc |-> "reading", client |-> c, kind |-> kind, snap |-> db,
                    answer |-> NoGeneration]
  OBVIOUS
<1>2. TypeOK /\ db' = db
  BY DEF IInv, Ask, fileVars
<1>3. q \in Request /\ Seen(q) = Content(db) /\ q.answer = NoGeneration
  BY <1>1, <1>2 DEF Request, RequestPc, Seen, TypeOK
<1>4. OnlyRequest(r) /\ req'[r] = q
  BY <1>1, <1>2, <1>3, RequestPut DEF Ask
<1> QED
  BY <1>2, <1>3, <1>4, LookStep, UnreadOne DEF TypeOK

LEMMA AnswerStep ==
    ASSUME IInv, Unread, NEW r \in Requests, ReadPrices(r) \/ ReadCatalog(r) \/ Reread(r)
    PROVE  Store!Reply(r) /\ Unread'
<1>1. /\ req[r].pc \in {"reading", "rereading"} /\ req' = [req EXCEPT ![r] = Answered(r)]
      /\ db' = db /\ TypeOK /\ RequestsPlaced
  BY DEF IInv, ReadPrices, ReadCatalog, Reread, fileVars
<1>2. Answered(r) \in Request
  BY <1>1, AnsweredType
<1>3. /\ Answered(r).pc = "done" /\ Answered(r).answer = Content(req[r].snap)
      /\ Seen(Answered(r)) = NoGeneration /\ Seen(req[r]) = Content(req[r].snap)
  BY <1>1 DEF Answered, Seen, TypeOK, Request
<1>4. OnlyRequest(r) /\ req'[r] = Answered(r)
  BY <1>1, <1>2, RequestPut
<1> QED
  BY <1>1, <1>3, <1>4, ReplyStep, UnreadOne DEF TypeOK

\* A second look is a new one, and waiting for a refresh gives the first one up.
LEMMA AwaitStep ==
    ASSUME IInv, Unread, NEW r \in Requests, AwaitRefresh(r) \/ Resume(r)
    PROVE  (Store!Look(r) \/ Store!Retry(r)) /\ Unread'
<1>1. /\ req[r] \in Request /\ req[r].answer = NoGeneration
      /\ db' = db /\ db \in Db /\ TypeOK
  BY DEF IInv, TypeOK, Unread, AwaitRefresh, Resume, fileVars
<1>2. \/ req' = [req EXCEPT ![r] = [@ EXCEPT !.pc = "rereading", !.snap = db]]
      \/ req' = [req EXCEPT ![r] = [@ EXCEPT !.pc = "waiting", !.snap = NoFile]]
  BY DEF AwaitRefresh, Resume
<1>3. CASE req' = [req EXCEPT ![r] = [@ EXCEPT !.pc = "rereading", !.snap = db]]
  <2>1. PICK q : q = [req[r] EXCEPT !.pc = "rereading", !.snap = db]
    OBVIOUS
  <2>2. q \in Request /\ q.pc = "rereading" /\ q.snap = db /\ q.answer = NoGeneration
    BY <2>1, <1>1 DEF Request, RequestPc
  <2>3. req' = [req EXCEPT ![r] = q]
    BY <2>1, <1>3, <1>1 DEF TypeOK
  <2>4. OnlyRequest(r) /\ req'[r] = q
    BY <2>2, <2>3, <1>1, RequestPut
  <2>5. Seen(q) = Content(db)
    BY <2>2 DEF Seen
  <2> QED BY <2>2, <2>4, <2>5, <1>1, LookStep, UnreadOne DEF TypeOK
<1>4. CASE req' = [req EXCEPT ![r] = [@ EXCEPT !.pc = "waiting", !.snap = NoFile]]
  <2>1. PICK q : q = [req[r] EXCEPT !.pc = "waiting", !.snap = NoFile]
    OBVIOUS
  <2>2. q \in Request /\ q.pc = "waiting" /\ q.answer = NoGeneration
    BY <2>1, <1>1 DEF Request, RequestPc
  <2>3. req' = [req EXCEPT ![r] = q]
    BY <2>1, <1>4, <1>1 DEF TypeOK
  <2>4. OnlyRequest(r) /\ req'[r] = q
    BY <2>2, <2>3, <1>1, RequestPut
  <2>5. Seen(q) = NoGeneration
    BY <2>2 DEF Seen
  <2> QED BY <2>2, <2>4, <2>5, <1>1, RetryStep, UnreadOne DEF TypeOK
<1> QED
  BY <1>2, <1>3, <1>4

\* Requests that went down with their host.
LEMMA HaltStep ==
    ASSUME IInv, Unread, NEW h \in Hosts, Halt(h)
    PROVE  (\E dropped \in SUBSET Requests : Store!Drop(dropped)) /\ Unread'
<1>1. /\ db' = db /\ req \in [Requests -> Request]
      /\ req' = [r \in Requests |-> IF IsOn(r, h) THEN Idle ELSE req[r]]
  BY DEF IInv, TypeOK, Halt, fileVars
<1>2. Seen(Idle) = NoGeneration /\ Idle.answer = NoGeneration
  BY DEF Seen, Idle
<1>3. PICK dropped : dropped = {r \in Requests : IsOn(r, h)}
  OBVIOUS
<1>4. \A r \in Requests :
         /\ Seen(req'[r]) = IF r \in dropped THEN NoGeneration ELSE Seen(req[r])
         /\ req'[r].answer = IF r \in dropped THEN NoGeneration ELSE req[r].answer
  BY <1>1, <1>2, <1>3
<1>5. Store!Drop(dropped)
  BY <1>1, <1>4 DEF Store!Drop, Seen
<1>6. Unread'
  BY <1>1, <1>2 DEF Unread
<1>7. dropped \in SUBSET Requests
  BY <1>3
<1> QED
  BY <1>5, <1>6, <1>7

\* What every request has looked at and answered stays.
RequestsKept ==
    \A r \in Requests : Seen(req'[r]) = Seen(req[r]) /\ req'[r].answer = req[r].answer

LEMMA FinishKeeps ==
    ASSUME IInv, Unread, NEW c \in Clients, Finish(c)
    PROVE  RequestsKept /\ Unread'
<1> SUFFICES ASSUME NEW r \in Requests
             PROVE  /\ Seen(req'[r]) = Seen(req[r]) /\ req'[r].answer = req[r].answer
                    /\ req'[r].pc # "done" => req'[r].answer = NoGeneration
  BY DEF RequestsKept, Unread
<1>1. req[r] \in Request /\ (req[r].pc # "done" => req[r].answer = NoGeneration)
  BY DEF IInv, TypeOK, Unread
<1>2. CASE OnClient(r, c) /\ req[r].pc = "waiting"
  <2>1. req'[r] = [req[r] EXCEPT !.pc = "waking"]
    BY <1>2 DEF Finish
  <2>2. req'[r].pc = "waking" /\ req'[r].answer = req[r].answer
    BY <2>1, <1>1 DEF Request
  <2> QED BY <2>2, <1>1, <1>2 DEF Seen
<1>3. CASE ~(OnClient(r, c) /\ req[r].pc = "waiting")
  BY <1>1, <1>3 DEF Finish
<1> QED
  BY <1>2, <1>3

LEMMA StoreStutters ==
    ASSUME RequestsKept, Content(db') = Content(db)
    PROVE  UNCHANGED Store!vars
BY DEF Store!vars, RequestsKept, Seen

LEMMA CommitStep ==
    ASSUME IInv, Unread, NEW c \in Clients, Commit(c), Content(db') # Content(db)
    PROVE  Store!Install
<1>1. /\ Content(db') \in Answer /\ Content(db').prices # {}
      /\ Content(db) # NoGeneration => Content(db').gen # Content(db).gen
  BY CommitContent
<1>2. RequestsKept
  BY FinishKeeps DEF Commit
<1>3. Content(db') \in Store!Generation
  BY <1>1 DEF Answer, Store!Generation
<1> QED
  BY <1>1, <1>2, <1>3 DEF Store!Install, RequestsKept, Seen

LEMMA StoreInit ==
    ASSUME Init
    PROVE  Store!Init /\ Unread
<1>1. Content(db) \in Answer \union {NoGeneration}
  BY TypeInit, ContentType DEF TypeOK
<1>2. \A r \in Requests : req[r] = Idle
  BY DEF Init
<1>3. Store!Init
  BY <1>1, <1>2 DEF Store!Init, Store!Generation, Answer, Idle
<1>4. Unread
  BY <1>2 DEF Unread, Idle
<1> QED
  BY <1>3, <1>4

\* Every step is a step of the store or changes nothing of it.
LEMMA StoreNext ==
    ASSUME IInv, Unread, [Next]_vars
    PROVE  [Store!Next]_(Store!vars) /\ Unread'
<1> USE DEF fileVars
<1>1. ASSUME NEW r \in Requests, NEW c \in Clients, NEW kind \in {"prices", "catalog"},
             Ask(r, c, kind)
      PROVE  Store!Next /\ Unread'
  BY <1>1, AskStep DEF Store!Next
<1>2. ASSUME NEW r \in Requests, RequestStep(r) PROVE Store!Next /\ Unread'
  BY <1>2, AnswerStep, AwaitStep DEF Store!Next, RequestStep
<1>3. ASSUME NEW h \in Hosts, Halt(h) PROVE Store!Next /\ Unread'
  BY <1>3, HaltStep DEF Store!Next
<1>4. ASSUME NEW c \in Clients, Commit(c) PROVE [Store!Next]_(Store!vars) /\ Unread'
  <2>1. RequestsKept /\ Unread'
    BY <1>4, FinishKeeps DEF Commit
  <2>2. CASE Content(db') = Content(db)
    BY <2>1, <2>2, StoreStutters
  <2>3. CASE Content(db') # Content(db)
    BY <1>4, <2>1, <2>3, CommitStep DEF Store!Next
  <2> QED BY <2>2, <2>3
<1>5. ASSUME ~ \E c \in Clients : Commit(c), RequestsKept, Unread'
      PROVE  [Store!Next]_(Store!vars) /\ Unread'
  <2>1. Content(db') = Content(db)
    BY <1>5, ContentNext DEF IInv
  <2> QED BY <1>5, <2>1, StoreStutters
<1>6. UNCHANGED req => RequestsKept /\ Unread'
  BY DEF RequestsKept, Unread
<1>7. ASSUME NEW c \in Clients, Acquire(c) \/ RecordFailure(c)
      PROVE  RequestsKept /\ Unread'
  BY <1>6, <1>7, FinishKeeps DEF Acquire, RecordFailure
<1> QED
  BY <1>1, <1>2, <1>3, <1>4, <1>5, <1>6, <1>7
  DEF Next, RefreshStep, Start, Migrate, Tick, Begin, FailBegin, StreamRow, FailStream,
      Discard, vars

-----------------------------------------------------------------------------
\* With all clients in one process, no refresh calls the provider while a recorded
\* failure has suspended refreshes: the lock and the second look inside it suffice.
THEOREM QuietWhileSuppressed ==
    ASSUME OneHost
    PROVE  Spec => []NoTrafficWhileSuppressed
<1>1. Init => LockHeld /\ RefreshDue
  BY DEF Init, LockHeld, RefreshDue, Busy
<1>2. TypeOK /\ LockHeld /\ RefreshDue /\ [Next]_vars => LockHeld' /\ RefreshDue'
  BY LockNext, DueNext
<1>3. RefreshDue => NoTrafficWhileSuppressed
  BY DEF RefreshDue, NoTrafficWhileSuppressed
<1> QED
  BY <1>1, <1>2, <1>3, TypeCorrect, PTL DEF Spec

\* With all clients in one process, a generation that can still be planned with is
\* never replaced, however many clients and requests have asked for a refresh.
THEOREM YoungGenerationsStay ==
    ASSUME OneHost
    PROVE  Spec => ReplacedOnlyWhenOld
<1>1. Init => LockHeld /\ RefreshDue
  BY DEF Init, LockHeld, RefreshDue, Busy
<1>2. TypeOK /\ LockHeld /\ RefreshDue /\ [Next]_vars => LockHeld' /\ RefreshDue'
  BY LockNext, DueNext
<1>3. TypeOK /\ RefreshDue /\ [Next]_vars =>
         [Content(db) # NoGeneration /\ Content(db)' # Content(db)
            => ~YoungerThan(db, CatalogMaxAge)]_vars
  BY ContentNext DEF RefreshDue, Commit
<1> QED
  BY <1>1, <1>2, <1>3, TypeCorrect, PTL DEF Spec, ReplacedOnlyWhenOld

\* Hosts, clients, requests, crashes and migrations together implement PriceStore.
THEOREM StoreImplemented == Spec => StoreSpec
<1>1. Init => Store!Init /\ Unread
  BY StoreInit
<1>2. IInv /\ Unread /\ [Next]_vars => [Store!Next]_(Store!vars) /\ Unread'
  BY StoreNext
<1> QED
  BY <1>1, <1>2, InvariantHolds, PTL DEF Spec, StoreSpec, Store!Spec
=============================================================================
