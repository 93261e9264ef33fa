----------------------- MODULE InventorySessionProofs -----------------------
(***************************************************************************)
(* For any tabs and accounts, whatever each tab's user does and whether or *)
(* not IndexedDB fails: no tab shows one account's inventory under another *)
(* name, a record belongs to the account it is filed under, a cache that a *)
(* logout has cleared stays empty, and a good inventory is not replaced by *)
(* an unavailable one.                                                     *)
(***************************************************************************)
EXTENDS InventorySession, TLAPS

\* What is on show belongs to the active account; between the 204 of a logout and
\* the end of its cleanup there is none, and it is still the user's.
ViewOK(tb, lo) ==
    /\ tb.shown # Nothing =>
          IF tb.active = NoAccount THEN lo = "clearing" ELSE tb.shown.inv.owner = tb.active
    /\ tb.view = "in" =>
          /\ tb.user \in Accounts
          /\ tb.active \in {tb.user, NoAccount}
          /\ tb.shown # Nothing => tb.shown.inv.owner = tb.user
    /\ tb.view = "away" => tb.load = NoLoad

\* The current load is for the active account.
LoadOK(tb, fl) ==
    tb.load # NoLoad =>
        /\ fl[tb.load].pc \in Loading
        /\ fl[tb.load].acct = tb.active
        /\ tb.active # NoAccount

\* An answer is for the account it was asked for; only Recheck asks without must.
FlowOK(k, f) ==
    /\ f.pc \in Loading => f.acct \in Accounts
    /\ f.pc \in {"fetch", "write"} => f.served \in {f.acct, NoAccount}
    /\ f.pc = "write" => f.served = f.acct /\ f.id # Unavailable
    /\ k = "mount" /\ f.pc = "asking" => f.must = TRUE

\* A gem refresh keeps a good inventory of its account.
GemOK(g) ==
    /\ g.pc # "none" =>
          /\ g.acct \in Accounts /\ g.base \in Inventory
          /\ g.base.owner = g.acct /\ g.base.id # Unavailable
    /\ g.pc = "write" => g.held \in Shown /\ g.held.at # NoStamp

LocalOK(tb, fl, g, lo) ==
    /\ ViewOK(tb, lo)
    /\ LoadOK(tb, fl)
    /\ \A k \in Kinds : FlowOK(k, fl[k])
    /\ GemOK(g)
    /\ lo # "none" => fl["act"].pc = "none"

\* A load's epoch is not ahead of the cache's.
EpochOK(f, d) == f.epoch = NoEpoch \/ (f.epoch \in Nat /\ f.epoch <= d.epoch)

\* The epoch a load has read is not the cache's, or its request was refused.
Behind(f, d) ==
    f.pc \in {"fetch", "write"} /\ f.epoch = d.epoch => f.served = NoAccount

\* After a logout has cleared the cache nobody is signed in, so that a load that has
\* read the epoch since was refused; every other load's epoch is behind.
EmptyOK ==
    since = "emptied" =>
        /\ cookie = NoAccount
        /\ \A a \in Accounts : db.record[a] = NoRecord
        /\ \A t \in Tabs, k \in Kinds : Behind(flow[t][k], db)

SessionInv ==
    /\ TypeOK
    /\ \A t \in Tabs : LocalOK(tab[t], flow[t], gem[t], logout[t])
    /\ \A t \in Tabs, k \in Kinds : EpochOK(flow[t][k], db)
    /\ RecordsOwn
    /\ EmptyOK
-----------------------------------------------------------------------------
\* What the record operators make of a tab.

Somebody == Accounts \union {NoAccount}

LEMMA Names ==
    /\ NoAccount \notin Accounts /\ NoEpoch \notin Nat /\ NoLoad \notin Kinds
    /\ MaxFetch \in Nat /\ 1 <= MaxFetch /\ MaxSignIns \in Nat
    /\ "mount" \in Kinds /\ "act" \in Kinds /\ Kinds = {"mount", "act"}
    /\ Outcomes \subseteq BOOLEAN
    /\ "asking" \notin Loading /\ "join" \notin Loading /\ "none" \notin Loading
<1>1. /\ NoAccount \notin Accounts /\ NoEpoch \notin Nat /\ NoLoad \notin Kinds
      /\ MaxFetch \in Nat /\ 1 <= MaxFetch /\ MaxSignIns \in Nat
  BY SessionAssumption DEF Kinds
<1>2. "mount" \in Kinds /\ "act" \in Kinds /\ Kinds = {"mount", "act"}
  BY DEF Kinds
<1>3. Outcomes \subseteq BOOLEAN
  BY Zenon DEF Outcomes
<1>4. "asking" \notin Loading /\ "join" \notin Loading /\ "none" \notin Loading
  BY DEF Loading
<1> QED
  BY <1>1, <1>2, <1>3, <1>4

LEMMA TabFields ==
    ASSUME NEW tb \in Tab
    PROVE  /\ tb.view \in {"away", "loading", "out", "in", "down"}
           /\ tb.user \in Somebody /\ tb.active \in Somebody
           /\ tb.shown \in Shown \union {Nothing}
           /\ tb.loading \in BOOLEAN /\ tb.load \in Kinds \union {NoLoad}
BY DEF Tab, Somebody

LEMMA AwayIs ==
    /\ AwayTab \in Tab /\ AwayTab.view = "away" /\ AwayTab.shown = Nothing
    /\ AwayTab.active = NoAccount /\ AwayTab.load = NoLoad
BY DEF AwayTab, Tab

LEMMA ClearedIs ==
    ASSUME NEW tb \in Tab
    PROVE  /\ Cleared(tb) \in Tab /\ Cleared(tb).shown = Nothing
           /\ Cleared(tb).view = tb.view /\ Cleared(tb).user = tb.user
           /\ Cleared(tb).active = tb.active /\ Cleared(tb).load = tb.load
BY DEF Cleared, Tab

LEMMA SignedOutIs ==
    ASSUME NEW tb \in Tab
    PROVE  /\ SignedOut(tb) \in Tab /\ SignedOut(tb).shown = Nothing
           /\ SignedOut(tb).view = "out" /\ SignedOut(tb).active = NoAccount
           /\ SignedOut(tb).load = NoLoad
<1>1. PICK c : c = Cleared(tb)
  OBVIOUS
<1>2. c \in Tab /\ c.shown = Nothing
  BY <1>1, ClearedIs
<1>3. SignedOut(tb) = [c EXCEPT !.view = "out", !.user = NoAccount, !.active = NoAccount, !.load = NoLoad]
  BY <1>1 DEF SignedOut
<1> QED
  BY <1>2, <1>3 DEF Tab

\* SignedIn keeps what is shown only without must and with an unchanged account.
LEMMA SignedInIs ==
    ASSUME NEW tb \in Tab, NEW s \in Accounts, NEW must \in BOOLEAN
    PROVE  /\ SignedIn(tb, s, must) \in Tab
           /\ SignedIn(tb, s, must).view = "in" /\ SignedIn(tb, s, must).user = s
           /\ SignedIn(tb, s, must).active = s /\ SignedIn(tb, s, must).load = tb.load
           /\ \/ SignedIn(tb, s, must).shown = Nothing
              \/ ~must /\ tb.active \in {s, NoAccount} /\ SignedIn(tb, s, must).shown = tb.shown
<1>1. PICK seen : seen = [tb EXCEPT !.view = "in", !.user = s, !.active = s]
  OBVIOUS
<1>2. /\ seen \in Tab /\ seen.view = "in" /\ seen.user = s /\ seen.active = s
      /\ seen.load = tb.load /\ seen.shown = tb.shown
  BY <1>1 DEF Tab
<1>3. SignedIn(tb, s, must) = IF must \/ Changed(tb, s) THEN Cleared(seen) ELSE seen
  BY <1>1 DEF SignedIn
<1>4. CASE must \/ Changed(tb, s)
  <2>1. SignedIn(tb, s, must) = Cleared(seen)
    BY <1>3, <1>4
  <2> QED BY <1>2, <2>1, ClearedIs
<1>5. CASE ~(must \/ Changed(tb, s))
  <2>1. SignedIn(tb, s, must) = seen /\ ~must /\ tb.active \in {s, NoAccount}
    BY <1>3, <1>5 DEF Changed
  <2> QED BY <1>2, <2>1
<1> QED
  BY <1>4, <1>5

LEMMA StartedIs ==
    ASSUME NEW tb \in Tab, NEW k \in Kinds, NEW a \in Accounts
    PROVE  /\ Started(tb, k, a) \in Tab
           /\ Started(tb, k, a).active = a /\ Started(tb, k, a).load = k
           /\ Started(tb, k, a).view = tb.view /\ Started(tb, k, a).user = tb.user
           /\ Started(tb, k, a).shown = tb.shown
BY DEF Started, Tab

LEMMA ShowIs ==
    ASSUME NEW tb \in Tab, NEW inv \in Inventory, NEW n \in 0..MaxFetch
    PROVE  /\ Show(tb, inv, n) \in Tab /\ Show(tb, inv, n).shown \in Shown
           /\ Show(tb, inv, n).shown.inv = inv
           /\ Show(tb, inv, n).view = tb.view /\ Show(tb, inv, n).user = tb.user
           /\ Show(tb, inv, n).active = tb.active /\ Show(tb, inv, n).load = tb.load
BY DEF Show, Tab, Shown

LEMMA MergedIs ==
    ASSUME NEW tb \in Tab, NEW g, g.base \in Inventory, g.held \in Shown
    PROVE  /\ Merged(tb, g) \in Tab
           /\ Merged(tb, g).shown.inv = g.base
           /\ Merged(tb, g).view = tb.view /\ Merged(tb, g).user = tb.user
           /\ Merged(tb, g).active = tb.active /\ Merged(tb, g).load = tb.load
BY DEF Merged, Tab, Shown

\* What the operators make of a coroutine.
LEMMA FlowFields ==
    ASSUME NEW f \in Flow
    PROVE  /\ f.pc \in {"none", "asking", "join"} \union Loading /\ f.asks \in 0..2
           /\ f.must \in BOOLEAN /\ f.sess \in Somebody /\ f.acct \in Somebody
           /\ f.epoch \in Nat \union {NoEpoch} /\ f.served \in Somebody
           /\ f.id \in 0..MaxFetch
BY DEF Flow, Somebody

LEMMA NoFlowIs ==
    /\ NoFlow \in Flow /\ NoFlow.pc = "none" /\ NoFlow.epoch = NoEpoch
    /\ NoFlow.acct = NoAccount /\ NoFlow.served = NoAccount
BY Names DEF NoFlow, Flow

LEMMA AskingIs ==
    ASSUME TypeOK, NEW asks \in 0..2, NEW must \in BOOLEAN
    PROVE  /\ Asking(asks, must) \in Flow /\ Asking(asks, must).pc = "asking"
           /\ Asking(asks, must).must = must /\ Asking(asks, must).epoch = NoEpoch
<1>1. cookie \in Somebody
  BY DEF TypeOK, Somebody
<1> QED
  BY <1>1, NoFlowIs DEF Asking, Flow, Somebody

LEMMA LoadFlowIs ==
    ASSUME NEW f, f.asks \in 0..2, NEW pc \in {"join"} \union Loading, NEW a \in Accounts
    PROVE  /\ LoadFlow(f, pc, a) \in Flow /\ LoadFlow(f, pc, a).pc = pc
           /\ LoadFlow(f, pc, a).acct = a /\ LoadFlow(f, pc, a).epoch = NoEpoch
           /\ LoadFlow(f, pc, a).served = NoAccount
BY NoFlowIs DEF LoadFlow, Flow

LEMMA ContinuedIs ==
    ASSUME TypeOK, NEW f \in Flow, NEW result
    PROVE  /\ Continued(f, result) \in Flow /\ Continued(f, result).epoch = NoEpoch
           /\ \/ Continued(f, result).pc = "none"
              \/ Continued(f, result).pc = "asking" /\ Continued(f, result).must = TRUE
<1>1. CASE result = "changed" /\ f.asks > 0
  <2>1. f.asks - 1 \in 0..2
    BY <1>1, FlowFields
  <2>2. Continued(f, result) = Asking(f.asks - 1, TRUE)
    BY <1>1 DEF Continued
  <2> QED BY <2>1, <2>2, AskingIs
<1>2. CASE ~(result = "changed" /\ f.asks > 0)
  BY <1>2, NoFlowIs DEF Continued
<1> QED
  BY <1>1, <1>2
-----------------------------------------------------------------------------
\* How a step of one tab keeps the invariant.

\* What the invariant says of one tab.
LEMMA OfTab ==
    ASSUME SessionInv, NEW t \in Tabs
    PROVE  /\ tab[t] \in Tab /\ flow[t] \in [Kinds -> Flow] /\ gem[t] \in Gem
           /\ logout[t] \in {"none", "posting", "clearing"}
           /\ ViewOK(tab[t], logout[t]) /\ LoadOK(tab[t], flow[t]) /\ GemOK(gem[t])
           /\ \A k \in Kinds : flow[t][k] \in Flow /\ FlowOK(k, flow[t][k]) /\ EpochOK(flow[t][k], db)
           /\ logout[t] # "none" => flow[t]["act"].pc = "none"
BY DEF SessionInv, TypeOK, LocalOK

\* The variables the tabs share.
SharedOK ==
    /\ cookie \in Somebody
    /\ db \in [epoch : Nat, active : Somebody, record : [Accounts -> Record \union {NoRecord, Corrupt}]]
    /\ fetched \in 1..MaxFetch /\ signIns \in 0..MaxSignIns
    /\ since \in {"nothing", "emptied", "claimed"}

LEMMA SharedIs == SessionInv => SharedOK
BY DEF SessionInv, TypeOK, SharedOK, Somebody

\* A step of tab t: the other tabs are as they were.
OnlyTab(t) ==
    /\ tab' \in [Tabs -> Tab] /\ flow' \in [Tabs -> [Kinds -> Flow]]
    /\ gem' \in [Tabs -> Gem] /\ logout' \in [Tabs -> {"none", "posting", "clearing"}]
    /\ \A u \in Tabs : u # t =>
          tab'[u] = tab[u] /\ flow'[u] = flow[u] /\ gem'[u] = gem[u] /\ logout'[u] = logout[u]

\* What a step of tab t makes of the tab keeps what the invariant says of it.
TabGoes(t) ==
    /\ OnlyTab(t)
    /\ LocalOK(tab'[t], flow'[t], gem'[t], logout'[t])
    /\ \A k \in Kinds : EpochOK(flow'[t][k], db)
    /\ since = "emptied" => \A k \in Kinds : Behind(flow'[t][k], db)

LEMMA OneTab ==
    ASSUME SessionInv, NEW t \in Tabs, TabGoes(t), SharedOK', RecordsOwn',
           db'.epoch >= db.epoch,
           since' = "emptied" =>
              /\ since = "emptied" \/ db'.epoch > db.epoch
              /\ cookie' = NoAccount /\ \A a \in Accounts : db'.record[a] = NoRecord
    PROVE  SessionInv'
<1>1. TypeOK'
  BY DEF TabGoes, OnlyTab, SharedOK, TypeOK, Somebody
<1>2. \A u \in Tabs : LocalOK(tab'[u], flow'[u], gem'[u], logout'[u])
  BY DEF TabGoes, OnlyTab, SessionInv
<1>3. db.epoch \in Nat /\ db'.epoch \in Nat
  BY SharedIs DEF SharedOK
<1>4. ASSUME NEW u \in Tabs, NEW k \in Kinds
      PROVE  /\ EpochOK(flow'[u][k], db)
             /\ since = "emptied" => Behind(flow'[u][k], db)
  <2>1. CASE u = t
    BY <2>1 DEF TabGoes
  <2>2. CASE u # t
    BY <2>2, OfTab DEF TabGoes, OnlyTab, SessionInv, EmptyOK
  <2> QED BY <2>1, <2>2
<1>5. \A u \in Tabs, k \in Kinds : EpochOK(flow'[u][k], db')
  BY <1>3, <1>4 DEF EpochOK
<1>6. ASSUME since' = "emptied", NEW u \in Tabs, NEW k \in Kinds
      PROVE  Behind(flow'[u][k], db')
  <2>1. CASE db'.epoch > db.epoch
    BY <1>3, <1>4, <2>1, Names DEF EpochOK, Behind
  <2>2. CASE db'.epoch = db.epoch /\ since = "emptied"
    BY <1>4, <2>2 DEF Behind
  <2> QED BY <1>3, <1>6, <2>1, <2>2
<1>7. EmptyOK'
  BY <1>6 DEF EmptyOK
<1> QED
  BY <1>1, <1>2, <1>5, <1>7 DEF SessionInv

\* The common case: the cache, the cookie and the history stay as they are.
LEMMA OneTabQuiet ==
    ASSUME SessionInv, NEW t \in Tabs, TabGoes(t),
           UNCHANGED <<cookie, db, signIns, since>>, fetched' \in 1..MaxFetch
    PROVE  SessionInv'
<1>1. SharedOK'
  BY SharedIs DEF SharedOK
<1>2. RecordsOwn'
  BY DEF SessionInv, RecordsOwn
<1>3. db.epoch \in Nat
  BY SharedIs DEF SharedOK
<1>4. since' = "emptied" =>
        /\ since = "emptied"
        /\ cookie' = NoAccount /\ \A a \in Accounts : db'.record[a] = NoRecord
  BY DEF SessionInv, EmptyOK
<1> QED
  BY <1>1, <1>2, <1>3, <1>4, OneTab

\* Coroutines that run no load.
LEMMA RestingOK ==
    ASSUME NEW k, NEW f, f.pc \notin Loading, f.pc = "asking" => f.must = TRUE
    PROVE  FlowOK(k, f)
BY DEF FlowOK, Loading

LEMMA RestingBehind ==
    ASSUME NEW f, f.pc \notin {"fetch", "write"}, f.epoch = NoEpoch
    PROVE  EpochOK(f, db) /\ Behind(f, db)
BY DEF EpochOK, Behind

\* What the invariant says of a coroutine that the step leaves alone.
LEMMA FlowStays ==
    ASSUME SessionInv, NEW t \in Tabs, NEW k \in Kinds
    PROVE  /\ FlowOK(k, flow[t][k]) /\ EpochOK(flow[t][k], db)
           /\ since = "emptied" => Behind(flow[t][k], db)
BY OfTab DEF SessionInv, EmptyOK

\* A tab, or one coroutine of it, takes another value.
LEMMA TabPut ==
    ASSUME SessionInv, NEW t \in Tabs, NEW tb \in Tab, tab' = [tab EXCEPT ![t] = tb]
    PROVE  tab' \in [Tabs -> Tab] /\ tab'[t] = tb /\ \A u \in Tabs : u # t => tab'[u] = tab[u]
BY DEF SessionInv, TypeOK

LEMMA FlowPut ==
    ASSUME SessionInv, NEW t \in Tabs, NEW k \in Kinds, NEW f \in Flow,
           flow' = [flow EXCEPT ![t][k] = f]
    PROVE  /\ flow' \in [Tabs -> [Kinds -> Flow]]
           /\ flow'[t][k] = f /\ \A j \in Kinds : j # k => flow'[t][j] = flow[t][j]
           /\ \A u \in Tabs : u # t => flow'[u] = flow[u]
BY DEF SessionInv, TypeOK

LEMMA GemPut ==
    ASSUME SessionInv, NEW t \in Tabs, NEW g \in Gem, gem' = [gem EXCEPT ![t] = g]
    PROVE  gem' \in [Tabs -> Gem] /\ gem'[t] = g /\ \A u \in Tabs : u # t => gem'[u] = gem[u]
BY DEF SessionInv, TypeOK

LEMMA LogoutPut ==
    ASSUME SessionInv, NEW t \in Tabs, NEW lo \in {"none", "posting", "clearing"},
           logout' = [logout EXCEPT ![t] = lo]
    PROVE  /\ logout' \in [Tabs -> {"none", "posting", "clearing"}]
           /\ logout'[t] = lo /\ \A u \in Tabs : u # t => logout'[u] = logout[u]
BY DEF SessionInv, TypeOK

\* What is left alone is as it was, for every tab.
LEMMA KeptTypes ==
    ASSUME SessionInv
    PROVE  /\ tab \in [Tabs -> Tab] /\ flow \in [Tabs -> [Kinds -> Flow]]
           /\ gem \in [Tabs -> Gem] /\ logout \in [Tabs -> {"none", "posting", "clearing"}]
           /\ fetched \in 1..MaxFetch
BY DEF SessionInv, TypeOK
-----------------------------------------------------------------------------
\* The user and the cookie.

LEMMA InitInv == Init => SessionInv
<1> SUFFICES ASSUME Init PROVE SessionInv
  OBVIOUS
<1>1. NoGem \in Gem /\ NoGem.pc = "none"
  BY Names DEF NoGem, Gem
<1>2. /\ db \in [epoch : Nat, active : Somebody, record : [Accounts -> Record \union {NoRecord, Corrupt}]]
      /\ RecordsOwn
  <2>1. CASE db = [epoch |-> 0, active |-> NoAccount, record |-> [a \in Accounts |-> NoRecord]]
    BY <2>1 DEF RecordsOwn, Somebody
  <2>2. ASSUME NEW a \in Accounts,
               NEW old \in {NoRecord, Corrupt, [inv |-> [owner |-> a, id |-> 1], at |-> 1]},
               db = [epoch |-> 0, active |-> a,
                     record |-> [b \in Accounts |-> IF b = a THEN old ELSE NoRecord]]
        PROVE  /\ db \in [epoch : Nat, active : Somebody,
                          record : [Accounts -> Record \union {NoRecord, Corrupt}]]
               /\ RecordsOwn
    <3>1. old \in Record \union {NoRecord, Corrupt} /\ (old \in {NoRecord, Corrupt} \/ old.inv.owner = a)
      BY Names DEF Record
    <3> QED BY <2>2, <3>1 DEF RecordsOwn, Somebody
  <2> QED BY <2>1, <2>2 DEF Init
<1>3. TypeOK
  BY <1>1, <1>2, Names, AwayIs, NoFlowIs DEF Init, TypeOK, Somebody
<1>4. ASSUME NEW t \in Tabs PROVE LocalOK(tab[t], flow[t], gem[t], logout[t])
  BY <1>1, Names, AwayIs, NoFlowIs DEF Init, LocalOK, ViewOK, LoadOK, FlowOK, GemOK, Loading
<1>5. \A t \in Tabs, k \in Kinds : EpochOK(flow[t][k], db)
  BY NoFlowIs DEF Init, EpochOK
<1>6. EmptyOK
  BY DEF Init, EmptyOK
<1> QED
  BY <1>2, <1>3, <1>4, <1>5, <1>6 DEF SessionInv

LEMMA SignInInv ==
    ASSUME SessionInv, NEW a \in Accounts, SignIn(a)
    PROVE  SessionInv'
<1>1. TypeOK'
  BY Names DEF SessionInv, TypeOK, SignIn
<1> QED
  BY <1>1 DEF SessionInv, SignIn, RecordsOwn, EmptyOK

LEMMA ExpireInv ==
    ASSUME SessionInv, Expire
    PROVE  SessionInv'
<1>1. TypeOK'
  BY DEF SessionInv, TypeOK, Expire, history
<1> QED
  BY <1>1 DEF SessionInv, Expire, RecordsOwn, EmptyOK, history

\* The mount effect asks for the session: Open and Retry.
LEMMA MountInv ==
    ASSUME SessionInv, NEW t \in Tabs, flow[t]["mount"].pc = "none" \/ tab[t].view = "away",
           tab[t].load # "mount",
           tab' = [tab EXCEPT ![t].view = "loading"],
           flow' = [flow EXCEPT ![t]["mount"] = Asking(1, TRUE)],
           UNCHANGED <<cookie, db, gem, logout, fetched, history>>
    PROVE  SessionInv'
<1>1. PICK f : f = Asking(1, TRUE)
  OBVIOUS
<1>2. f \in Flow /\ f.pc = "asking" /\ f.must = TRUE /\ f.epoch = NoEpoch
  <2>1. 1 \in 0..2 /\ TypeOK
    BY DEF SessionInv
  <2>2. TRUE \in BOOLEAN
    OBVIOUS
  <2> QED BY <1>1, <2>1, <2>2, AskingIs, Zenon
<1>3. PICK tb : tb = [tab[t] EXCEPT !.view = "loading"]
  OBVIOUS
<1>4. /\ tb \in Tab /\ tb.view = "loading" /\ tb.shown = tab[t].shown
      /\ tb.active = tab[t].active /\ tb.load = tab[t].load
  BY <1>3, OfTab DEF Tab
<1>5. tab'[t] = tb /\ tab' \in [Tabs -> Tab] /\ \A u \in Tabs : u # t => tab'[u] = tab[u]
  BY <1>3, <1>4, TabPut
<1>6. /\ flow' \in [Tabs -> [Kinds -> Flow]] /\ flow'[t]["mount"] = f
      /\ flow'[t]["act"] = flow[t]["act"] /\ \A u \in Tabs : u # t => flow'[u] = flow[u]
  BY <1>1, <1>2, FlowPut, Names
<1>7. OnlyTab(t)
  BY <1>5, <1>6, KeptTypes DEF OnlyTab
<1>8. LocalOK(tab'[t], flow'[t], gem'[t], logout'[t])
  <2>1. ViewOK(tb, logout[t])
    BY <1>4, OfTab DEF ViewOK
  <2>2. tb.load \in {"act", NoLoad}
    BY <1>4, TabFields, Names
  <2>3. LoadOK(tb, flow'[t])
    BY <1>4, <1>6, <2>2, OfTab DEF LoadOK
  <2>4. \A k \in Kinds : FlowOK(k, flow'[t][k])
    <3>1. FlowOK("mount", f)
      BY <1>2, Names, RestingOK
    <3> QED BY <3>1, <1>6, FlowStays, Names
  <2> QED BY <2>4, <1>5, <1>6, <2>1, <2>3, OfTab DEF LocalOK
<1>9. \A k \in Kinds : EpochOK(flow'[t][k], db) /\ (since = "emptied" => Behind(flow'[t][k], db))
  <2>1. EpochOK(f, db) /\ Behind(f, db)
    BY <1>2, RestingBehind
  <2> QED BY <2>1, <1>6, FlowStays, Names
<1>10. TabGoes(t)
  BY <1>7, <1>8, <1>9 DEF TabGoes
<1> QED
  BY <1>10, KeptTypes, OneTabQuiet DEF history

\* A load that is current is under way.
LEMMA LoadRuns ==
    ASSUME SessionInv, NEW t \in Tabs, NEW k \in Kinds, flow[t][k].pc \notin Loading
    PROVE  tab[t].load # k
BY OfTab, Names DEF LoadOK

LEMMA OpenInv ==
    ASSUME SessionInv, NEW t \in Tabs, Open(t)
    PROVE  SessionInv'
<1>1. tab[t].view = "away" /\ tab[t].load # "mount"
  BY OfTab, Names DEF Open, ViewOK
<1> QED
  BY <1>1, MountInv DEF Open

LEMMA RetryInv ==
    ASSUME SessionInv, NEW t \in Tabs, Retry(t)
    PROVE  SessionInv'
<1>1. flow[t]["mount"].pc = "none"
  BY DEF Retry
<1>2. tab[t].load # "mount"
  BY <1>1, LoadRuns, Names
<1> QED
  BY <1>1, <1>2, MountInv DEF Retry

LEMMA LeaveInv ==
    ASSUME SessionInv, NEW t \in Tabs, Leave(t)
    PROVE  SessionInv'
<1>1. NoGem \in Gem /\ NoGem.pc = "none"
  BY Names DEF NoGem, Gem
<1>2. /\ tab'[t] = AwayTab /\ tab' \in [Tabs -> Tab]
      /\ \A u \in Tabs : u # t => tab'[u] = tab[u]
  BY AwayIs, TabPut DEF Leave
<1>3. /\ flow'[t] = [k \in Kinds |-> NoFlow] /\ flow' \in [Tabs -> [Kinds -> Flow]]
      /\ \A u \in Tabs : u # t => flow'[u] = flow[u]
  BY NoFlowIs, KeptTypes DEF Leave
<1>4. /\ gem'[t] = NoGem /\ gem' \in [Tabs -> Gem]
      /\ \A u \in Tabs : u # t => gem'[u] = gem[u]
  BY <1>1, GemPut DEF Leave
<1>5. /\ logout'[t] = "none" /\ logout' \in [Tabs -> {"none", "posting", "clearing"}]
      /\ \A u \in Tabs : u # t => logout'[u] = logout[u]
  BY LogoutPut DEF Leave
<1>6. OnlyTab(t)
  BY <1>2, <1>3, <1>4, <1>5 DEF OnlyTab
<1>7. \A k \in Kinds : FlowOK(k, flow'[t][k]) /\ EpochOK(flow'[t][k], db) /\ Behind(flow'[t][k], db)
  <2>1. \A k \in Kinds : FlowOK(k, NoFlow) /\ EpochOK(NoFlow, db) /\ Behind(NoFlow, db)
    BY NoFlowIs, Names, RestingOK, RestingBehind
  <2> QED BY <1>3, <2>1
<1>8. ViewOK(AwayTab, "none") /\ LoadOK(AwayTab, flow'[t]) /\ GemOK(NoGem)
  BY <1>1, AwayIs DEF ViewOK, LoadOK, GemOK
<1>9. LocalOK(tab'[t], flow'[t], gem'[t], logout'[t])
  BY <1>2, <1>4, <1>5, <1>7, <1>8 DEF LocalOK
<1>10. TabGoes(t)
  BY <1>6, <1>7, <1>9 DEF TabGoes
<1> QED
  BY <1>10, KeptTypes, OneTabQuiet DEF Leave, history

\* One coroutine goes on by itself, without becoming or leaving a load.
LEMMA FlowGoes ==
    ASSUME SessionInv, NEW t \in Tabs, NEW k \in Kinds, NEW f \in Flow,
           flow' = [flow EXCEPT ![t][k] = f],
           UNCHANGED <<tab, gem, logout>>,
           FlowOK(k, f), EpochOK(f, db), since = "emptied" => Behind(f, db),
           tab[t].load = k => f.pc \in Loading /\ f.acct = flow[t][k].acct,
           logout[t] # "none" => k = "mount" \/ f.pc = "none"
    PROVE  TabGoes(t)
<1>1. /\ flow' \in [Tabs -> [Kinds -> Flow]]
      /\ flow'[t][k] = f /\ \A j \in Kinds : j # k => flow'[t][j] = flow[t][j]
      /\ \A u \in Tabs : u # t => flow'[u] = flow[u]
  BY FlowPut
<1>2. OnlyTab(t)
  BY <1>1, KeptTypes DEF OnlyTab
<1>3. LoadOK(tab[t], flow'[t])
  <2>1. tab[t].load \in Kinds \union {NoLoad}
    BY OfTab, TabFields
  <2> QED BY <2>1, <1>1, OfTab DEF LoadOK
<1>4. \A j \in Kinds : FlowOK(j, flow'[t][j])
  BY <1>1, FlowStays
<1>5. logout[t] # "none" => flow'[t]["act"].pc = "none"
  BY <1>1, OfTab, Names
<1>6. LocalOK(tab'[t], flow'[t], gem'[t], logout'[t])
  BY <1>3, <1>4, <1>5, OfTab DEF LocalOK
<1>7. \A j \in Kinds : EpochOK(flow'[t][j], db) /\ (since = "emptied" => Behind(flow'[t][j], db))
  BY <1>1, FlowStays
<1> QED
  BY <1>2, <1>6, <1>7 DEF TabGoes

LEMMA RecheckInv ==
    ASSUME SessionInv, NEW t \in Tabs, Recheck(t)
    PROVE  SessionInv'
<1>1. PICK f : f = Asking(2, FALSE)
  OBVIOUS
<1>2. f \in Flow /\ f.pc = "asking" /\ f.epoch = NoEpoch
  <2>1. 2 \in 0..2 /\ TypeOK
    BY DEF SessionInv
  <2>2. FALSE \in BOOLEAN
    OBVIOUS
  <2> QED BY <1>1, <2>1, <2>2, AskingIs, Zenon
<1>3. flow[t]["act"].pc = "none" /\ logout[t] = "none"
  BY DEF Recheck, Idle
<1>4. tab[t].load # "act"
  BY <1>3, LoadRuns, Names
<1>5. FlowOK("act", f) /\ EpochOK(f, db) /\ Behind(f, db)
  BY <1>2, RestingBehind DEF FlowOK, Loading
<1>6. TabGoes(t)
  BY <1>1, <1>2, <1>3, <1>4, <1>5, Names, FlowGoes DEF Recheck
<1> QED
  BY <1>6, KeptTypes, OneTabQuiet DEF Recheck, history

\* A coroutine's load becomes the current one of its tab.
LEMMA StartGoes ==
    ASSUME SessionInv, NEW t \in Tabs, NEW k \in Kinds, NEW a \in Accounts,
           NEW tb \in Tab, NEW f \in Flow,
           tab' = [tab EXCEPT ![t] = Started(tb, k, a)],
           flow' = [flow EXCEPT ![t][k] = f],
           UNCHANGED <<gem, logout>>,
           tb.view = "in", tb.user = a,
           tb.shown # Nothing => tb.shown.inv.owner = a,
           f.pc \in {"epoch", "except"}, f.acct = a, f.epoch = NoEpoch,
           k = "act" => logout[t] = "none"
    PROVE  TabGoes(t)
<1>1. PICK new : new = Started(tb, k, a)
  OBVIOUS
<1>2. /\ new \in Tab /\ new.active = a /\ new.load = k /\ new.view = "in" /\ new.user = a
      /\ new.shown = tb.shown
  BY <1>1, StartedIs
<1>3. tab'[t] = new /\ tab' \in [Tabs -> Tab] /\ \A u \in Tabs : u # t => tab'[u] = tab[u]
  BY <1>1, <1>2, TabPut
<1>4. /\ flow' \in [Tabs -> [Kinds -> Flow]]
      /\ flow'[t][k] = f /\ \A j \in Kinds : j # k => flow'[t][j] = flow[t][j]
      /\ \A u \in Tabs : u # t => flow'[u] = flow[u]
  BY FlowPut
<1>5. OnlyTab(t)
  BY <1>3, <1>4, KeptTypes DEF OnlyTab
<1>6. a # NoAccount
  BY Names
<1>7. ViewOK(new, logout[t])
  BY <1>2, <1>6 DEF ViewOK
<1>8. LoadOK(new, flow'[t])
  BY <1>2, <1>4, <1>6 DEF LoadOK, Loading
<1>9. FlowOK(k, f) /\ EpochOK(f, db) /\ Behind(f, db)
  BY RestingBehind DEF FlowOK, Loading
<1>10. \A j \in Kinds : FlowOK(j, flow'[t][j]) /\ EpochOK(flow'[t][j], db) /\ (since = "emptied" => Behind(flow'[t][j], db))
  BY <1>4, <1>9, FlowStays
<1>11. logout[t] # "none" => flow'[t]["act"].pc = "none"
  BY <1>4, OfTab, Names
<1>12. LocalOK(tab'[t], flow'[t], gem'[t], logout'[t])
  BY <1>3, <1>7, <1>8, <1>10, <1>11, OfTab DEF LocalOK
<1> QED
  BY <1>5, <1>10, <1>12 DEF TabGoes

LEMMA RefreshInv ==
    ASSUME SessionInv, NEW t \in Tabs, Refresh(t)
    PROVE  SessionInv'
<1>1. PICK f : f = LoadFlow([asks |-> 2], "epoch", tab[t].user)
  OBVIOUS
<1>2. tab[t].view = "in" /\ logout[t] = "none"
  BY DEF Refresh, Idle
<1>3. /\ tab[t].user \in Accounts
      /\ tab[t].shown # Nothing => tab[t].shown.inv.owner = tab[t].user
  BY <1>2, OfTab DEF ViewOK
<1>4. f \in Flow /\ f.pc = "epoch" /\ f.acct = tab[t].user /\ f.epoch = NoEpoch
  <2>1. [asks |-> 2].asks \in 0..2
    OBVIOUS
  <2>2. "epoch" \in {"join"} \union Loading
    BY DEF Loading
  <2> QED BY <1>1, <1>3, <2>1, <2>2, LoadFlowIs
<1>5. TabGoes(t)
  BY <1>1, <1>2, <1>3, <1>4, OfTab, Names, StartGoes DEF Refresh
<1> QED
  BY <1>5, KeptTypes, OneTabQuiet DEF Refresh, history
-----------------------------------------------------------------------------
\* Session answers.

\* A coroutine ends or waits with a state of the tab of its own.
LEMMA PairGoes ==
    ASSUME SessionInv, NEW t \in Tabs, NEW k \in Kinds, NEW tb \in Tab, NEW f \in Flow,
           tab' = [tab EXCEPT ![t] = tb],
           flow' = [flow EXCEPT ![t][k] = f],
           UNCHANGED <<gem, logout>>,
           ViewOK(tb, logout[t]), LoadOK(tb, flow'[t]),
           f.pc \in {"none", "join"}, f.epoch = NoEpoch,
           flow[t][k].pc # "none"
    PROVE  TabGoes(t)
<1>1. tab'[t] = tb /\ tab' \in [Tabs -> Tab] /\ \A u \in Tabs : u # t => tab'[u] = tab[u]
  BY TabPut
<1>2. /\ flow' \in [Tabs -> [Kinds -> Flow]]
      /\ flow'[t][k] = f /\ \A j \in Kinds : j # k => flow'[t][j] = flow[t][j]
      /\ \A u \in Tabs : u # t => flow'[u] = flow[u]
  BY FlowPut
<1>3. OnlyTab(t)
  BY <1>1, <1>2, KeptTypes DEF OnlyTab
<1>4. FlowOK(k, f) /\ EpochOK(f, db) /\ Behind(f, db)
  BY RestingOK, RestingBehind, Names
<1>5. \A j \in Kinds : FlowOK(j, flow'[t][j]) /\ EpochOK(flow'[t][j], db) /\ (since = "emptied" => Behind(flow'[t][j], db))
  BY <1>2, <1>4, FlowStays
<1>6. logout[t] # "none" => flow'[t]["act"].pc = "none"
  BY <1>2, OfTab, Names
<1>7. LocalOK(tab'[t], flow'[t], gem'[t], logout'[t])
  BY <1>1, <1>5, <1>6, OfTab DEF LocalOK
<1> QED
  BY <1>3, <1>5, <1>7 DEF TabGoes

\* What stays on show after an answer is the account's: must is FALSE only for a
\* Recheck, which no logout accompanies.
LEMMA PresentShown ==
    ASSUME SessionInv, NEW t \in Tabs, NEW k \in Kinds, NEW s \in Accounts,
           flow[t][k].pc = "asking",
           SignedIn(tab[t], s, flow[t][k].must).shown # Nothing
    PROVE  SignedIn(tab[t], s, flow[t][k].must).shown.inv.owner = s
<1>1. PICK must : must = flow[t][k].must
  OBVIOUS
<1>2. must \in BOOLEAN /\ tab[t] \in Tab
  BY <1>1, OfTab, FlowFields
<1>3. ~must /\ tab[t].active \in {s, NoAccount} /\ SignedIn(tab[t], s, must).shown = tab[t].shown
  BY <1>1, <1>2, SignedInIs
<1>4. k = "act" /\ logout[t] = "none"
  <2>1. k # "mount"
    BY <1>1, <1>3, OfTab DEF FlowOK
  <2> QED BY <2>1, Names, OfTab
<1> QED
  BY <1>1, <1>3, <1>4, OfTab DEF ViewOK

LEMMA PresentInv ==
    ASSUME SessionInv, NEW t \in Tabs, NEW k \in Kinds, Present(t, k)
    PROVE  SessionInv'
<1>1. PICK f : f = flow[t][k]
  OBVIOUS
<1>2. PICK tb : tb = tab[t]
  OBVIOUS
<1>3. PICK next : next = SignedIn(tb, f.sess, f.must)
  OBVIOUS
<1>4. /\ f \in Flow /\ f.pc = "asking" /\ tb \in Tab /\ f.asks \in 0..2
      /\ f.must \in BOOLEAN /\ f.sess \in Somebody
  BY <1>1, <1>2, OfTab, FlowFields DEF Present
<1>5. tb.load # k
  BY <1>1, <1>2, <1>4, LoadRuns, Names
<1>6. ViewOK(tb, logout[t]) /\ LoadOK(tb, flow[t]) /\ tb.load \in Kinds \union {NoLoad}
  BY <1>2, OfTab, TabFields
<1>7. UNCHANGED <<cookie, db, gem, logout, fetched, history>>
  BY DEF Present
<1>8. \/ /\ tab' = [tab EXCEPT ![t] = SignedOut(tb)]
         /\ flow' = [flow EXCEPT ![t][k] = NoFlow]
      \/ /\ f.sess # NoAccount /\ ~NeedsInventory(tb, f.sess, f.must)
         /\ tab' = [tab EXCEPT ![t] = next]
         /\ flow' = [flow EXCEPT ![t][k] = NoFlow]
      \/ /\ f.sess # NoAccount
         /\ tb.load # NoLoad /\ flow[t][tb.load].acct = f.sess
         /\ tab' = [tab EXCEPT ![t] = next]
         /\ flow' = [flow EXCEPT ![t][k] = LoadFlow(f, "join", f.sess)]
      \/ /\ f.sess # NoAccount
         /\ tab' = [tab EXCEPT ![t] = Started(next, k, f.sess)]
         /\ flow' = [flow EXCEPT ![t][k] = LoadFlow(f, "except", f.sess)]
  BY <1>1, <1>2, <1>3 DEF Present
<1>9. ASSUME f.sess # NoAccount
      PROVE  /\ f.sess \in Accounts
             /\ next \in Tab /\ next.view = "in" /\ next.user = f.sess
             /\ next.active = f.sess /\ next.load = tb.load
             /\ next.shown # Nothing => next.shown.inv.owner = f.sess
             /\ ViewOK(next, logout[t])
  <2>1. f.sess \in Accounts
    BY <1>4, <1>9 DEF Somebody
  <2>2. /\ next \in Tab /\ next.view = "in" /\ next.user = f.sess
        /\ next.active = f.sess /\ next.load = tb.load
    BY <2>1, <1>3, <1>4, SignedInIs
  <2>3. next.shown # Nothing => next.shown.inv.owner = f.sess
    BY <2>1, <1>1, <1>2, <1>3, <1>4, PresentShown
  <2> QED BY <2>1, <2>2, <2>3, <1>9 DEF ViewOK
<1>10. TabGoes(t)
  <2>1. CASE tab' = [tab EXCEPT ![t] = SignedOut(tb)] /\ flow' = [flow EXCEPT ![t][k] = NoFlow]
    <3>1. PICK out : out = SignedOut(tb)
      OBVIOUS
    <3>2. out \in Tab /\ ViewOK(out, logout[t]) /\ LoadOK(out, flow'[t])
      BY <3>1, <1>4, SignedOutIs DEF ViewOK, LoadOK
    <3> QED BY <2>1, <3>1, <3>2, <1>1, <1>4, <1>7, NoFlowIs, PairGoes
  <2>2. CASE /\ f.sess # NoAccount /\ ~NeedsInventory(tb, f.sess, f.must)
             /\ tab' = [tab EXCEPT ![t] = next]
             /\ flow' = [flow EXCEPT ![t][k] = NoFlow]
    <3>1. tb.active = f.sess
      BY <2>2 DEF NeedsInventory, Changed
    <3>2. \A j \in Kinds : j # k => flow'[t][j] = flow[t][j]
      BY <2>2, NoFlowIs, FlowPut
    <3>3. LoadOK(next, flow'[t])
      BY <2>2, <3>1, <3>2, <1>5, <1>6, <1>9 DEF LoadOK
    <3> QED BY <2>2, <3>3, <1>1, <1>4, <1>7, <1>9, NoFlowIs, PairGoes
  <2>3. CASE /\ f.sess # NoAccount
             /\ tb.load # NoLoad /\ flow[t][tb.load].acct = f.sess
             /\ tab' = [tab EXCEPT ![t] = next]
             /\ flow' = [flow EXCEPT ![t][k] = LoadFlow(f, "join", f.sess)]
    <3>1. PICK g : g = LoadFlow(f, "join", f.sess)
      OBVIOUS
    <3>2. g \in Flow /\ g.pc = "join" /\ g.epoch = NoEpoch
      BY <2>3, <3>1, <1>4, <1>9, LoadFlowIs
    <3>3. \A j \in Kinds : j # k => flow'[t][j] = flow[t][j]
      BY <2>3, <3>1, <3>2, FlowPut
    <3>4. LoadOK(next, flow'[t])
      BY <2>3, <3>3, <1>5, <1>6, <1>9 DEF LoadOK
    <3> QED BY <2>3, <3>1, <3>2, <3>4, <1>1, <1>4, <1>7, <1>9, PairGoes
  <2>4. CASE /\ f.sess # NoAccount
             /\ tab' = [tab EXCEPT ![t] = Started(next, k, f.sess)]
             /\ flow' = [flow EXCEPT ![t][k] = LoadFlow(f, "except", f.sess)]
    <3>1. PICK g : g = LoadFlow(f, "except", f.sess)
      OBVIOUS
    <3>2. "except" \in {"join"} \union Loading
      BY DEF Loading
    <3>3. g \in Flow /\ g.pc = "except" /\ g.acct = f.sess /\ g.epoch = NoEpoch
      BY <2>4, <3>1, <3>2, <1>4, <1>9, LoadFlowIs
    <3>4. k = "act" => logout[t] = "none"
      BY <1>1, <1>4, OfTab
    <3> QED BY <2>4, <3>1, <3>3, <3>4, <1>7, <1>9, StartGoes
  <2> QED BY <1>8, <2>1, <2>2, <2>3, <2>4
<1> QED
  BY <1>7, <1>10, KeptTypes, OneTabQuiet DEF history

LEMMA SessionFailsInv ==
    ASSUME SessionInv, NEW t \in Tabs, NEW k \in Kinds, SessionFails(t, k)
    PROVE  SessionInv'
<1>1. PICK tb : tb = IF k = "mount" THEN [tab[t] EXCEPT !.view = "down"] ELSE tab[t]
  OBVIOUS
<1>2. /\ tb \in Tab /\ tb.view \in {"down", tab[t].view} /\ tb.user = tab[t].user
      /\ tb.active = tab[t].active /\ tb.shown = tab[t].shown /\ tb.load = tab[t].load
  BY <1>1, OfTab DEF Tab
<1>3. tab' = [tab EXCEPT ![t] = tb]
  BY <1>1, KeptTypes DEF SessionFails
<1>4. ViewOK(tb, logout[t])
  BY <1>2, OfTab DEF ViewOK
<1>5. flow[t][k].pc = "asking" /\ flow' = [flow EXCEPT ![t][k] = NoFlow]
  BY DEF SessionFails
<1>6. LoadOK(tb, flow'[t])
  <2>1. \A j \in Kinds : j # k => flow'[t][j] = flow[t][j]
    BY <1>5, NoFlowIs, FlowPut
  <2>2. tab[t].load # k /\ tab[t].load \in Kinds \union {NoLoad}
    BY <1>5, LoadRuns, Names, OfTab, TabFields
  <2> QED BY <2>1, <2>2, <1>2, OfTab DEF LoadOK
<1>7. TabGoes(t)
  BY <1>2, <1>3, <1>4, <1>5, <1>6, NoFlowIs, PairGoes DEF SessionFails
<1> QED
  BY <1>7, KeptTypes, OneTabQuiet DEF SessionFails, history
-----------------------------------------------------------------------------
\* Loads: how one ends or goes on.

LEMMA SettleIs ==
    ASSUME SessionInv, NEW t \in Tabs, NEW k \in Kinds, NEW result, Settle(t, k, result)
    PROVE  /\ flow' \in [Tabs -> [Kinds -> Flow]]
           /\ \A u \in Tabs : u # t => flow'[u] = flow[u]
           /\ \A j \in Kinds :
                 \/ j # k /\ flow[t][j].pc # "join" /\ flow'[t][j] = flow[t][j]
                 \/ /\ flow'[t][j].pc \in {"none", "asking"} /\ flow'[t][j].epoch = NoEpoch
                    /\ flow'[t][j].pc = "asking" => flow'[t][j].must = TRUE
<1>1. PICK fl : fl = [j \in Kinds |->
                  IF j = k \/ flow[t][j].pc = "join" THEN Continued(flow[t][j], result)
                  ELSE flow[t][j]]
  OBVIOUS
<1>2. ASSUME NEW j \in Kinds
      PROVE  /\ fl[j] \in Flow
             /\ \/ j # k /\ flow[t][j].pc # "join" /\ fl[j] = flow[t][j]
                \/ /\ fl[j].pc \in {"none", "asking"} /\ fl[j].epoch = NoEpoch
                   /\ fl[j].pc = "asking" => fl[j].must = TRUE
  <2>1. flow[t][j] \in Flow /\ TypeOK
    BY OfTab DEF SessionInv
  <2>2. CASE j = k \/ flow[t][j].pc = "join"
    <3>1. fl[j] = Continued(flow[t][j], result)
      BY <1>1, <2>2
    <3>2. PICK c : c = Continued(flow[t][j], result)
      OBVIOUS
    <3>3. /\ c \in Flow /\ c.epoch = NoEpoch
          /\ c.pc = "none" \/ (c.pc = "asking" /\ c.must = TRUE)
      BY <2>1, <3>2, ContinuedIs, Zenon
    <3> QED BY <3>1, <3>2, <3>3, Zenon
  <2>3. CASE ~(j = k \/ flow[t][j].pc = "join")
    <3>1. fl[j] = flow[t][j]
      BY <1>1, <2>3
    <3> QED BY <2>1, <2>3, <3>1
  <2> QED BY <2>2, <2>3
<1>3. fl \in [Kinds -> Flow]
  <2>1. fl = [j \in Kinds |-> fl[j]]
    BY <1>1
  <2> QED BY <1>2, <2>1
<1>4. flow' = [flow EXCEPT ![t] = fl]
  BY <1>1 DEF Settle
<1>5. /\ flow' \in [Tabs -> [Kinds -> Flow]] /\ flow'[t] = fl
      /\ \A u \in Tabs : u # t => flow'[u] = flow[u]
  BY <1>3, <1>4, KeptTypes
<1> QED
  BY <1>2, <1>5

\* What becomes of the coroutines of a tab one of whose loads has ended.
LEMMA SettledOK ==
    ASSUME SessionInv, NEW t \in Tabs, NEW k \in Kinds, NEW result, Settle(t, k, result),
           flow[t][k].pc # "none"
    PROVE  /\ \A j \in Kinds :
                 /\ FlowOK(j, flow'[t][j]) /\ EpochOK(flow'[t][j], db)
                 /\ since = "emptied" => Behind(flow'[t][j], db)
           /\ logout[t] # "none" => flow'[t]["act"].pc = "none"
<1>1. ASSUME NEW j \in Kinds
      PROVE  /\ FlowOK(j, flow'[t][j]) /\ EpochOK(flow'[t][j], db)
             /\ since = "emptied" => Behind(flow'[t][j], db)
  <2>1. CASE j # k /\ flow'[t][j] = flow[t][j]
    BY <2>1, FlowStays
  <2>2. CASE /\ flow'[t][j].pc \in {"none", "asking"} /\ flow'[t][j].epoch = NoEpoch
             /\ flow'[t][j].pc = "asking" => flow'[t][j].must = TRUE
    <3>1. PICK f : f = flow'[t][j]
      OBVIOUS
    <3>2. FlowOK(j, f) /\ EpochOK(f, db) /\ Behind(f, db)
      BY <2>2, <3>1, RestingOK, RestingBehind, Names
    <3> QED BY <3>1, <3>2
  <2> QED BY <2>1, <2>2, SettleIs
<1>2. ASSUME logout[t] # "none" PROVE flow'[t]["act"].pc = "none"
  <2>1. flow[t]["act"].pc = "none" /\ k # "act"
    BY <1>2, OfTab
  <2>2. flow'[t]["act"] = flow[t]["act"]
    BY <2>1, Names DEF Settle, SessionInv, TypeOK
  <2> QED BY <2>1, <2>2
<1> QED
  BY <1>1, <1>2

LEMMA EndsGoes ==
    ASSUME SessionInv, NEW t \in Tabs, NEW k \in Kinds, NEW tb \in Tab, NEW result,
           Ends(t, k, tb, result), UNCHANGED <<gem, logout>>,
           flow[t][k].pc # "none", ViewOK(tb, logout[t])
    PROVE  TabGoes(t)
<1>1. PICK new : new = [tb EXCEPT !.loading = FALSE, !.load = NoLoad]
  OBVIOUS
<1>2. /\ new \in Tab /\ new.load = NoLoad /\ new.view = tb.view /\ new.user = tb.user
      /\ new.active = tb.active /\ new.shown = tb.shown
  BY <1>1 DEF Tab
<1>3. tab'[t] = new /\ tab' \in [Tabs -> Tab] /\ \A u \in Tabs : u # t => tab'[u] = tab[u]
  BY <1>1, <1>2, TabPut DEF Ends
<1>4. Settle(t, k, result)
  BY DEF Ends
<1>5. OnlyTab(t)
  BY <1>3, <1>4, SettleIs, KeptTypes DEF OnlyTab
<1>6. ViewOK(new, logout[t]) /\ LoadOK(new, flow'[t])
  BY <1>2 DEF ViewOK, LoadOK
<1>7. LocalOK(tab'[t], flow'[t], gem'[t], logout'[t])
  BY <1>3, <1>4, <1>6, SettledOK, OfTab DEF LocalOK
<1> QED
  BY <1>4, <1>5, <1>7, SettledOK DEF TabGoes

LEMMA SupersededGoes ==
    ASSUME SessionInv, NEW t \in Tabs, NEW k \in Kinds,
           Superseded(t, k), UNCHANGED <<gem, logout>>, flow[t][k].pc # "none"
    PROVE  TabGoes(t)
<1>1. Settle(t, k, "error") /\ tab[t].load # k /\ UNCHANGED tab
  BY DEF Superseded, Current
<1>2. OnlyTab(t)
  BY <1>1, SettleIs, KeptTypes DEF OnlyTab
<1>3. LoadOK(tab[t], flow'[t])
  <2>1. ASSUME NEW j \in Kinds, j = tab[t].load, j # NoLoad
        PROVE  flow'[t][j] = flow[t][j]
    <3>1. flow[t][j].pc # "join" /\ j # k
      BY <1>1, <2>1, OfTab, Names DEF LoadOK
    <3> QED BY <3>1, <1>1 DEF Settle, SessionInv, TypeOK
  <2>2. tab[t].load \in Kinds \union {NoLoad}
    BY OfTab, TabFields
  <2> QED BY <2>1, <2>2, OfTab DEF LoadOK
<1>4. LocalOK(tab'[t], flow'[t], gem'[t], logout'[t])
  BY <1>1, <1>3, SettledOK, OfTab DEF LocalOK
<1> QED
  BY <1>1, <1>2, <1>4, SettledOK DEF TabGoes

\* A load under way is for an account, and no logout accompanies one of "act".
LEMMA LoadHas ==
    ASSUME SessionInv, NEW t \in Tabs, NEW k \in Kinds, flow[t][k].pc \in Loading
    PROVE  /\ flow[t][k] \in Flow /\ flow[t][k].acct \in Accounts
           /\ flow[t][k].pc # "none"
           /\ logout[t] # "none" => k = "mount"
           /\ FlowOK(k, flow[t][k])
<1>1. flow[t][k] \in Flow /\ FlowOK(k, flow[t][k]) /\ flow[t][k].pc # "none"
  BY OfTab, Names
<1>2. logout[t] # "none" => k = "mount"
  BY <1>1, OfTab, Names
<1>3. flow[t][k].acct \in Accounts
  BY <1>1 DEF FlowOK
<1> QED
  BY <1>1, <1>2, <1>3

LEMMA ProceedGoes ==
    ASSUME SessionInv, NEW t \in Tabs, NEW k \in Kinds, NEW f \in Flow, Proceed(t, k, f),
           UNCHANGED <<gem, logout>>, flow[t][k].pc \in Loading,
           f.pc \in Loading, f.acct = flow[t][k].acct,
           FlowOK(k, f), EpochOK(f, db), since = "emptied" => Behind(f, db)
    PROVE  TabGoes(t)
<1>1. logout[t] # "none" => k = "mount"
  BY LoadHas
<1> QED
  BY <1>1, FlowGoes DEF Proceed

\* The inventory a current load shows is the active account's.
LEMMA ShowOK ==
    ASSUME SessionInv, NEW t \in Tabs, NEW k \in Kinds, Current(t, k),
           NEW inv \in Inventory, NEW n \in 0..MaxFetch, inv.owner = flow[t][k].acct
    PROVE  Show(tab[t], inv, n) \in Tab /\ ViewOK(Show(tab[t], inv, n), logout[t])
<1>1. PICK tb : tb = Show(tab[t], inv, n)
  OBVIOUS
<1>2. /\ tb \in Tab /\ tb.shown.inv = inv /\ tb.view = tab[t].view /\ tb.user = tab[t].user
      /\ tb.active = tab[t].active /\ tb.load = tab[t].load
  BY <1>1, OfTab, ShowIs
<1>3. inv.owner = tab[t].active /\ tab[t].active # NoAccount
  BY OfTab, Names DEF LoadOK, Current
<1>4. ViewOK(tb, logout[t])
  BY <1>2, <1>3, OfTab DEF ViewOK
<1> QED
  BY <1>1, <1>2, <1>4
-----------------------------------------------------------------------------
\* Loads: one step each.

LEMMA ExceptedIs ==
    ASSUME SharedOK, RecordsOwn, NEW a \in Accounts
    PROVE  /\ Excepted(db, a).epoch \in Nat /\ Excepted(db, a).epoch >= db.epoch
           /\ Excepted(db, a) \in [epoch : Nat, active : Somebody,
                                   record : [Accounts -> Record \union {NoRecord, Corrupt}]]
           /\ \A b \in Accounts : Excepted(db, a).record[b] \in {NoRecord, db.record[b]}
BY DEF SharedOK, Excepted, Somebody

LEMMA ClearExceptInv ==
    ASSUME SessionInv, NEW t \in Tabs, NEW k \in Kinds, ClearExcept(t, k)
    PROVE  SessionInv'
<1>1. PICK f : f = flow[t][k]
  OBVIOUS
<1>2. f.pc = "except" /\ f.pc \in Loading
  BY <1>1 DEF ClearExcept, Loading
<1>3. f \in Flow /\ f.acct \in Accounts /\ f.pc # "none" /\ EpochOK(f, db)
  BY <1>1, <1>2, LoadHas, OfTab
<1>4. TabGoes(t)
  <2>1. CASE Proceed(t, k, [f EXCEPT !.pc = "read"])
    <3>1. PICK g : g = [f EXCEPT !.pc = "read"]
      OBVIOUS
    <3>2. /\ g \in Flow /\ g.pc = "read" /\ g.pc \in Loading /\ g.acct = f.acct
          /\ g.epoch = f.epoch
      BY <3>1, <1>3 DEF Flow, Loading
    <3>3. FlowOK(k, g) /\ EpochOK(g, db) /\ Behind(g, db)
      BY <3>2, <1>3 DEF FlowOK, EpochOK, Behind
    <3> QED BY <2>1, <3>1, <3>2, <3>3, <1>1, <1>2, ProceedGoes DEF ClearExcept
  <2>2. CASE Superseded(t, k)
    BY <2>2, <1>1, <1>3, SupersededGoes DEF ClearExcept
  <2> QED BY <2>1, <2>2, <1>1 DEF ClearExcept
<1>5. /\ db' \in {db, Excepted(db, f.acct)} /\ since' \in {since, "claimed"}
      /\ UNCHANGED <<cookie, fetched, signIns>>
  <2>1. PICK ok \in Outcomes :
          /\ db' = IF ok THEN Excepted(db, f.acct) ELSE db
          /\ since' = IF ok /\ f.acct = cookie THEN "claimed" ELSE since
    BY <1>1 DEF ClearExcept
  <2> QED BY <2>1 DEF ClearExcept
<1>6. SharedOK /\ RecordsOwn
  BY SharedIs DEF SessionInv
<1>7. /\ db' \in [epoch : Nat, active : Somebody, record : [Accounts -> Record \union {NoRecord, Corrupt}]]
      /\ db'.epoch >= db.epoch
      /\ \A b \in Accounts : db'.record[b] \in {NoRecord, db.record[b]}
  BY <1>3, <1>5, <1>6, ExceptedIs DEF SharedOK
<1>8. SharedOK' /\ RecordsOwn'
  BY <1>5, <1>6, <1>7 DEF SharedOK, RecordsOwn
<1>9. since' = "emptied" =>
        /\ since = "emptied"
        /\ cookie' = NoAccount /\ \A a \in Accounts : db'.record[a] = NoRecord
  BY <1>5, <1>7 DEF SessionInv, EmptyOK
<1> QED
  BY <1>4, <1>7, <1>8, <1>9, OneTab

LEMMA ReadCacheInv ==
    ASSUME SessionInv, NEW t \in Tabs, NEW k \in Kinds, ReadCache(t, k)
    PROVE  SessionInv'
<1>1. PICK f : f = flow[t][k]
  OBVIOUS
<1>2. f.pc = "read" /\ f.pc \in Loading
  BY <1>1 DEF ReadCache, Loading
<1>3. f \in Flow /\ f.acct \in Accounts /\ f.pc # "none" /\ EpochOK(f, db)
  BY <1>1, <1>2, LoadHas, OfTab
<1>4. SharedOK /\ RecordsOwn
  BY SharedIs DEF SessionInv
<1>5. PICK old : old = db.record[f.acct]
  OBVIOUS
<1>6. /\ \/ db' = db
         \/ db' = [db EXCEPT !.epoch = @ + 1, !.record[f.acct] = NoRecord]
      /\ \/ /\ Current(t, k) /\ old \notin {NoRecord, Corrupt}
            /\ Ends(t, k, Show(tab[t], old.inv, old.at), "cache")
         \/ Proceed(t, k, [f EXCEPT !.pc = "epoch"])
         \/ Superseded(t, k)
      /\ UNCHANGED <<cookie, gem, logout, fetched, history>>
  BY <1>1, <1>5 DEF ReadCache
<1>7. TabGoes(t)
  <2>1. CASE /\ Current(t, k) /\ old \notin {NoRecord, Corrupt}
             /\ Ends(t, k, Show(tab[t], old.inv, old.at), "cache")
    <3>1. old \in Record
      BY <1>3, <1>4, <1>5, <2>1 DEF SharedOK
    <3>2. old.inv \in Inventory /\ old.at \in 0..MaxFetch /\ old.inv.owner = f.acct
      BY <1>3, <1>4, <1>5, <2>1, <3>1, Names DEF Record, Inventory, RecordsOwn
    <3>3. PICK tb : tb = Show(tab[t], old.inv, old.at)
      OBVIOUS
    <3>4. tb \in Tab /\ ViewOK(tb, logout[t])
      BY <2>1, <3>2, <3>3, <1>1, ShowOK
    <3> QED BY <2>1, <3>3, <3>4, <1>1, <1>3, <1>6, EndsGoes
  <2>2. CASE Proceed(t, k, [f EXCEPT !.pc = "epoch"])
    <3>1. PICK g : g = [f EXCEPT !.pc = "epoch"]
      OBVIOUS
    <3>2. /\ g \in Flow /\ g.pc = "epoch" /\ g.pc \in Loading /\ g.acct = f.acct
          /\ g.epoch = f.epoch
      BY <3>1, <1>3 DEF Flow, Loading
    <3>3. FlowOK(k, g) /\ EpochOK(g, db) /\ Behind(g, db)
      BY <3>2, <1>3 DEF FlowOK, EpochOK, Behind
    <3> QED BY <2>2, <3>1, <3>2, <3>3, <1>1, <1>2, <1>6, ProceedGoes
  <2>3. CASE Superseded(t, k)
    BY <2>3, <1>1, <1>3, <1>6, SupersededGoes
  <2> QED BY <1>6, <2>1, <2>2, <2>3
<1>8. /\ db' \in [epoch : Nat, active : Somebody, record : [Accounts -> Record \union {NoRecord, Corrupt}]]
      /\ db'.epoch >= db.epoch
      /\ \A b \in Accounts : db'.record[b] \in {NoRecord, db.record[b]}
  <2>1. CASE db' = db
    BY <2>1, <1>4 DEF SharedOK
  <2>2. CASE db' = [db EXCEPT !.epoch = @ + 1, !.record[f.acct] = NoRecord]
    <3>1. /\ db'.epoch = db.epoch + 1 /\ db'.active = db.active
          /\ db'.record = [db.record EXCEPT ![f.acct] = NoRecord]
          /\ db' = [epoch |-> db'.epoch, active |-> db'.active, record |-> db'.record]
      BY <2>2, <1>4 DEF SharedOK
    <3>2. /\ db.epoch \in Nat /\ db.active \in Somebody
          /\ db.record \in [Accounts -> Record \union {NoRecord, Corrupt}]
      BY <1>4 DEF SharedOK
    <3>3. /\ db'.record \in [Accounts -> Record \union {NoRecord, Corrupt}]
          /\ \A b \in Accounts : db'.record[b] \in {NoRecord, db.record[b]}
      BY <3>1, <3>2, <1>3
    <3> QED BY <3>1, <3>2, <3>3
  <2> QED BY <1>6, <2>1, <2>2
<1>9. SharedOK' /\ RecordsOwn'
  BY <1>4, <1>6, <1>8 DEF SharedOK, RecordsOwn, history
<1>10. since' = "emptied" =>
        /\ since = "emptied"
        /\ cookie' = NoAccount /\ \A a \in Accounts : db'.record[a] = NoRecord
  BY <1>6, <1>8 DEF SessionInv, EmptyOK, history
<1> QED
  BY <1>7, <1>8, <1>9, <1>10, OneTab

LEMMA ReadEpochInv ==
    ASSUME SessionInv, NEW t \in Tabs, NEW k \in Kinds, ReadEpoch(t, k)
    PROVE  SessionInv'
<1>1. PICK f : f = flow[t][k]
  OBVIOUS
<1>2. f.pc = "epoch" /\ f.pc \in Loading
  BY <1>1 DEF ReadEpoch, Loading
<1>3. f \in Flow /\ f.acct \in Accounts
  BY <1>1, <1>2, LoadHas
<1>4. PICK e \in {db.epoch, NoEpoch} : Proceed(t, k, [f EXCEPT !.pc = "send", !.epoch = e])
  BY <1>1 DEF ReadEpoch
<1>5. PICK g : g = [f EXCEPT !.pc = "send", !.epoch = e]
  OBVIOUS
<1>6. db.epoch \in Nat
  BY SharedIs DEF SharedOK
<1>7. /\ g \in Flow /\ g.pc = "send" /\ g.pc \in Loading /\ g.acct = f.acct /\ g.epoch = e
  BY <1>3, <1>5, <1>6 DEF Flow, Loading
<1>8. FlowOK(k, g) /\ EpochOK(g, db) /\ Behind(g, db)
  BY <1>3, <1>6, <1>7 DEF FlowOK, EpochOK, Behind
<1>9. TabGoes(t)
  BY <1>1, <1>2, <1>4, <1>5, <1>7, <1>8, ProceedGoes DEF ReadEpoch
<1> QED
  BY <1>9, KeptTypes, OneTabQuiet DEF ReadEpoch, history

\* Once a logout has cleared the cache there is no cookie to serve a request.
LEMMA SendInventoryInv ==
    ASSUME SessionInv, NEW t \in Tabs, NEW k \in Kinds, SendInventory(t, k)
    PROVE  SessionInv'
<1>1. PICK f : f = flow[t][k]
  OBVIOUS
<1>2. f.pc = "send" /\ f.pc \in Loading
  BY <1>1 DEF SendInventory, Loading
<1>3. f \in Flow /\ f.acct \in Accounts /\ EpochOK(f, db)
  BY <1>1, <1>2, LoadHas, OfTab
<1>4. PICK served : served = Served(f.acct)
  OBVIOUS
<1>5. /\ served \in {f.acct, NoAccount}
      /\ since = "emptied" => served = NoAccount
  BY <1>3, <1>4, Names DEF Served, SessionInv, EmptyOK
<1>6. PICK g : g = [f EXCEPT !.pc = "fetch", !.served = served]
  OBVIOUS
<1>7. /\ g \in Flow /\ g.pc = "fetch" /\ g.pc \in Loading /\ g.acct = f.acct
      /\ g.epoch = f.epoch /\ g.served = served
  BY <1>3, <1>5, <1>6 DEF Flow, Loading
<1>8. FlowOK(k, g) /\ EpochOK(g, db) /\ (since = "emptied" => Behind(g, db))
  BY <1>3, <1>5, <1>7 DEF FlowOK, EpochOK, Behind
<1>9. TabGoes(t)
  BY <1>1, <1>2, <1>4, <1>6, <1>7, <1>8, ProceedGoes DEF SendInventory
<1> QED
  BY <1>9, KeptTypes, OneTabQuiet DEF SendInventory, history

\* An answer says nothing of another account: the one it serves is the load's.
LEMMA ArriveInv ==
    ASSUME SessionInv, NEW t \in Tabs, NEW k \in Kinds, Arrive(t, k)
    PROVE  SessionInv'
<1>1. PICK f : f = flow[t][k]
  OBVIOUS
<1>2. f.pc = "fetch" /\ f.pc \in Loading
  BY <1>1 DEF Arrive, Loading
<1>3. /\ f \in Flow /\ f.acct \in Accounts /\ f.pc # "none"
      /\ f.served \in {f.acct, NoAccount}
      /\ EpochOK(f, db) /\ (since = "emptied" => Behind(f, db))
  BY <1>1, <1>2, LoadHas, FlowStays DEF FlowOK
<1>4. PICK new : new = fetched + 1
  OBVIOUS
<1>5. UNCHANGED <<cookie, db, gem, logout, history>>
  BY DEF Arrive
<1>6. PICK inv : inv = [owner |-> f.served, id |-> new]
  OBVIOUS
<1>7. \/ /\ \/ Ends(t, k, tab[t], "changed") \/ Ends(t, k, tab[t], "error")
            \/ Superseded(t, k)
         /\ fetched' = fetched
      \/ /\ f.served # NoAccount /\ Current(t, k) /\ fetched' = fetched
         /\ Ends(t, k, WithUnavailable(tab[t], f.served), "network")
      \/ /\ f.served # NoAccount /\ Current(t, k) /\ fetched < MaxFetch /\ fetched' = new
         /\ \/ Ends(t, k, Show(tab[t], inv, new), "network")
            \/ Proceed(t, k, [f EXCEPT !.pc = "write", !.id = new])
  BY <1>1, <1>4, <1>6 DEF Arrive, Refused
<1>8. ASSUME f.served # NoAccount
      PROVE  f.served = f.acct /\ f.served \in Accounts
  BY <1>3, <1>8
<1>9. fetched \in 1..MaxFetch /\ MaxFetch \in Nat
  BY Names, KeptTypes
<1>10. CASE /\ \/ Ends(t, k, tab[t], "changed") \/ Ends(t, k, tab[t], "error")
               \/ Superseded(t, k)
            /\ fetched' = fetched
  <2>1. tab[t] \in Tab /\ ViewOK(tab[t], logout[t])
    BY OfTab
  <2>2. TabGoes(t)
    BY <2>1, <1>1, <1>3, <1>5, <1>10, EndsGoes, SupersededGoes
  <2> QED BY <2>2, <1>5, <1>9, <1>10, OneTabQuiet DEF history
<1>11. CASE /\ f.served # NoAccount /\ Current(t, k) /\ fetched' = fetched
            /\ Ends(t, k, WithUnavailable(tab[t], f.served), "network")
  <2>1. PICK tb : tb = WithUnavailable(tab[t], f.served)
    OBVIOUS
  <2>2. PICK none : none = [owner |-> f.served, id |-> Unavailable]
    OBVIOUS
  <2>3. none \in Inventory /\ none.owner = f.acct /\ NoStamp \in 0..MaxFetch
    BY <2>2, <1>8, <1>9, <1>11 DEF Inventory, Unavailable, NoStamp
  <2>4. tb = tab[t] \/ tb = Show(tab[t], none, NoStamp)
    BY <2>1, <2>2 DEF WithUnavailable
  <2>5. tb \in Tab /\ ViewOK(tb, logout[t])
    BY <2>3, <2>4, <1>1, <1>11, OfTab, ShowOK
  <2>6. TabGoes(t)
    BY <2>1, <2>5, <1>1, <1>3, <1>5, <1>11, EndsGoes
  <2> QED BY <2>6, <1>5, <1>9, <1>11, OneTabQuiet DEF history
<1>12. CASE f.served # NoAccount /\ Current(t, k) /\ fetched < MaxFetch /\ fetched' = new
  <2>1. new \in 1..MaxFetch /\ new \in 0..MaxFetch /\ new # 0
    BY <1>4, <1>9, <1>12
  <2>2. inv \in Inventory /\ inv.owner = f.acct
    BY <2>1, <1>6, <1>8, <1>12 DEF Inventory
  <2>3. ASSUME Ends(t, k, Show(tab[t], inv, new), "network")
        PROVE  TabGoes(t)
    <3>1. PICK tb : tb = Show(tab[t], inv, new)
      OBVIOUS
    <3>2. tb \in Tab /\ ViewOK(tb, logout[t])
      BY <3>1, <2>1, <2>2, <1>1, <1>12, ShowOK
    <3> QED BY <2>3, <3>1, <3>2, <1>1, <1>3, <1>5, EndsGoes
  <2>4. ASSUME Proceed(t, k, [f EXCEPT !.pc = "write", !.id = new])
        PROVE  TabGoes(t)
    <3>1. PICK g : g = [f EXCEPT !.pc = "write", !.id = new]
      OBVIOUS
    <3>2. /\ g \in Flow /\ g.pc = "write" /\ g.pc \in Loading /\ g.acct = f.acct
          /\ g.epoch = f.epoch /\ g.served = f.served /\ g.id = new
      BY <3>1, <2>1, <1>3 DEF Flow, Loading
    <3>3. FlowOK(k, g) /\ EpochOK(g, db) /\ (since = "emptied" => Behind(g, db))
      BY <3>2, <2>1, <1>2, <1>3, <1>8, <1>12 DEF FlowOK, EpochOK, Behind, Unavailable
    <3> QED BY <2>4, <3>1, <3>2, <3>3, <1>1, <1>2, <1>5, ProceedGoes
  <2>5. Ends(t, k, Show(tab[t], inv, new), "network")
        \/ Proceed(t, k, [f EXCEPT !.pc = "write", !.id = new])
    BY <1>1, <1>4, <1>6, <1>7, <1>9, <1>12
  <2>6. TabGoes(t)
    BY <2>3, <2>4, <2>5
  <2> QED BY <2>1, <2>6, <1>5, <1>12, OneTabQuiet DEF history
<1> QED
  BY <1>7, <1>10, <1>11, <1>12

\* One record takes another value.
LEMMA RecordPut ==
    ASSUME SharedOK, RecordsOwn, NEW a \in Accounts, NEW r \in Record, r.inv.owner = a,
           db' = [db EXCEPT !.record[a] = r]
    PROVE  /\ db' \in [epoch : Nat, active : Somebody,
                       record : [Accounts -> Record \union {NoRecord, Corrupt}]]
           /\ db'.epoch = db.epoch /\ RecordsOwn'
<1>1. /\ db'.epoch = db.epoch /\ db'.active = db.active
      /\ db'.record = [db.record EXCEPT ![a] = r]
      /\ db' = [epoch |-> db'.epoch, active |-> db'.active, record |-> db'.record]
  BY DEF SharedOK
<1>2. /\ db.epoch \in Nat /\ db.active \in Somebody
      /\ db.record \in [Accounts -> Record \union {NoRecord, Corrupt}]
  BY DEF SharedOK
<1>3. /\ db'.record \in [Accounts -> Record \union {NoRecord, Corrupt}]
      /\ \A b \in Accounts : db'.record[b] = IF b = a THEN r ELSE db.record[b]
  BY <1>1, <1>2
<1>4. RecordsOwn'
  BY <1>3 DEF RecordsOwn
<1> QED
  BY <1>1, <1>2, <1>3, <1>4

\* Once a logout has cleared the cache no load holds its epoch and an answer.
LEMMA WriteCacheInv ==
    ASSUME SessionInv, NEW t \in Tabs, NEW k \in Kinds, WriteCache(t, k)
    PROVE  SessionInv'
<1>1. PICK f : f = flow[t][k]
  OBVIOUS
<1>2. f.pc = "write" /\ f.pc \in Loading
  BY <1>1 DEF WriteCache, Loading
<1>3. /\ f \in Flow /\ f.acct \in Accounts /\ f.pc # "none"
      /\ f.served = f.acct /\ f.id # Unavailable
      /\ since = "emptied" => Behind(f, db)
  BY <1>1, <1>2, LoadHas, FlowStays DEF FlowOK
<1>4. f.id \in 1..MaxFetch /\ f.id \in 0..MaxFetch
  BY <1>3, FlowFields, Names DEF Unavailable
<1>5. PICK inv : inv = [owner |-> f.served, id |-> f.id]
  OBVIOUS
<1>6. inv \in Inventory /\ inv.owner = f.acct /\ inv.id \in 1..MaxFetch
  BY <1>3, <1>4, <1>5 DEF Inventory
<1>7. PICK r : r = [inv |-> inv, at |-> f.id]
  OBVIOUS
<1>8. r \in Record /\ r.inv.owner = f.acct
  BY <1>3, <1>4, <1>5, <1>7 DEF Record
<1>9. /\ \/ db' = db
         \/ db.epoch = f.epoch /\ db' = [db EXCEPT !.record[f.acct] = r]
      /\ \/ Ends(t, k, tab[t], "changed")
         \/ Current(t, k) /\ Ends(t, k, Show(tab[t], inv, f.id), "network")
         \/ Superseded(t, k)
      /\ UNCHANGED <<cookie, gem, logout, fetched, history>>
  BY <1>1, <1>5, <1>7 DEF WriteCache
<1>10. TabGoes(t)
  <2>1. PICK tb : tb = Show(tab[t], inv, f.id)
    OBVIOUS
  <2>2. Current(t, k) => tb \in Tab /\ ViewOK(tb, logout[t])
    BY <2>1, <1>1, <1>4, <1>6, ShowOK
  <2>3. tab[t] \in Tab /\ ViewOK(tab[t], logout[t])
    BY OfTab
  <2> QED BY <2>1, <2>2, <2>3, <1>1, <1>3, <1>9, EndsGoes, SupersededGoes
<1>11. SharedOK /\ RecordsOwn
  BY SharedIs DEF SessionInv
<1>12. SharedOK' /\ RecordsOwn' /\ db'.epoch = db.epoch
  <2>1. CASE db' = db
    BY <2>1, <1>9, <1>11 DEF SharedOK, RecordsOwn, history
  <2>2. CASE db' = [db EXCEPT !.record[f.acct] = r]
    BY <2>2, <1>3, <1>8, <1>9, <1>11, RecordPut DEF SharedOK, history
  <2> QED BY <1>9, <2>1, <2>2
<1>13. since = "emptied" => db' = db
  BY <1>2, <1>3, <1>9, Names DEF Behind
<1>14. since' = "emptied" =>
        /\ since = "emptied"
        /\ cookie' = NoAccount /\ \A a \in Accounts : db'.record[a] = NoRecord
  BY <1>9, <1>13 DEF SessionInv, EmptyOK, history
<1>15. db.epoch \in Nat
  BY <1>11 DEF SharedOK
<1> QED
  BY <1>10, <1>12, <1>14, <1>15, OneTab
-----------------------------------------------------------------------------
\* The gem refresh.

LEMMA GemFields ==
    ASSUME NEW g \in Gem
    PROVE  /\ g.pc \in {"none", "epoch", "send", "asking", "write"}
           /\ g.acct \in Somebody /\ g.base \in Inventory \union {Nothing}
           /\ g.epoch \in Nat \union {NoEpoch} /\ g.allowed \in BOOLEAN
           /\ g.held \in Shown \union {Nothing}
BY DEF Gem, Somebody

LEMMA NoGemIs == NoGem \in Gem /\ NoGem.pc = "none" /\ GemOK(NoGem)
<1>1. NoGem \in Gem /\ NoGem.pc = "none"
  BY Names DEF NoGem, Gem
<1> QED
  BY <1>1 DEF GemOK

\* A gem refresh changes at most what its tab shows.
LEMMA GemGoes ==
    ASSUME SessionInv, NEW t \in Tabs, NEW tb \in Tab, NEW g \in Gem,
           tab' = [tab EXCEPT ![t] = tb], gem' = [gem EXCEPT ![t] = g],
           UNCHANGED <<flow, logout>>,
           ViewOK(tb, logout[t]), tb.load = tab[t].load, tb.active = tab[t].active, GemOK(g)
    PROVE  TabGoes(t)
<1>1. tab'[t] = tb /\ tab' \in [Tabs -> Tab] /\ \A u \in Tabs : u # t => tab'[u] = tab[u]
  BY TabPut
<1>2. gem' \in [Tabs -> Gem] /\ gem'[t] = g /\ \A u \in Tabs : u # t => gem'[u] = gem[u]
  BY GemPut
<1>3. OnlyTab(t)
  BY <1>1, <1>2, KeptTypes DEF OnlyTab
<1>4. LoadOK(tb, flow[t])
  BY OfTab DEF LoadOK
<1>5. LocalOK(tab'[t], flow'[t], gem'[t], logout'[t])
  BY <1>1, <1>2, <1>4, OfTab DEF LocalOK
<1> QED
  BY <1>3, <1>5, FlowStays DEF TabGoes

LEMMA GemGoesAlone ==
    ASSUME SessionInv, NEW t \in Tabs, NEW g \in Gem, gem' = [gem EXCEPT ![t] = g],
           UNCHANGED <<tab, flow, logout>>, GemOK(g)
    PROVE  TabGoes(t)
<1>1. tab' = [tab EXCEPT ![t] = tab[t]]
  BY KeptTypes
<1> QED
  BY <1>1, OfTab, GemGoes

\* The merged inventory is the active account's.
LEMMA MergedOK ==
    ASSUME SessionInv, NEW t \in Tabs, NEW g, g.base \in Inventory, g.held \in Shown,
           g.acct \in Accounts, g.base.owner = g.acct, tab[t].active = g.acct
    PROVE  /\ Merged(tab[t], g) \in Tab /\ ViewOK(Merged(tab[t], g), logout[t])
           /\ Merged(tab[t], g).load = tab[t].load /\ Merged(tab[t], g).active = tab[t].active
<1>1. PICK tb : tb = Merged(tab[t], g)
  OBVIOUS
<1>2. /\ tb \in Tab /\ tb.shown.inv = g.base /\ tb.view = tab[t].view /\ tb.user = tab[t].user
      /\ tb.active = tab[t].active /\ tb.load = tab[t].load
  BY <1>1, OfTab, MergedIs
<1>3. ViewOK(tb, logout[t])
  BY <1>2, OfTab, Names DEF ViewOK
<1> QED
  BY <1>1, <1>2, <1>3

LEMMA GemStartInv ==
    ASSUME SessionInv, NEW t \in Tabs, GemStart(t)
    PROVE  SessionInv'
<1>1. PICK tb : tb = tab[t]
  OBVIOUS
<1>2. tb \in Tab /\ ViewOK(tb, logout[t]) /\ tb.active \in Somebody
  BY <1>1, OfTab, TabFields
<1>3. /\ tb.shown \in Shown /\ tb.active \in Accounts
      /\ tb.shown.inv.owner = tb.active /\ tb.shown.inv.id # Unavailable
  BY <1>1, <1>2, TabFields DEF GemStart, Good, ViewOK, Somebody
<1>4. tb.shown.inv \in Inventory
  BY <1>3 DEF Shown
<1>5. PICK g : g = [NoGem EXCEPT !.pc = "epoch", !.acct = tb.active, !.base = tb.shown.inv]
  OBVIOUS
<1>6. g \in Gem /\ g.pc = "epoch" /\ g.acct = tb.active /\ g.base = tb.shown.inv
  BY <1>3, <1>4, <1>5, Names DEF NoGem, Gem
<1>7. GemOK(g)
  BY <1>3, <1>4, <1>6 DEF GemOK
<1>8. TabGoes(t)
  BY <1>1, <1>5, <1>6, <1>7, GemGoesAlone DEF GemStart
<1> QED
  BY <1>8, KeptTypes, OneTabQuiet DEF GemStart, history

LEMMA GemEpochInv ==
    ASSUME SessionInv, NEW t \in Tabs, GemEpoch(t)
    PROVE  SessionInv'
<1>1. PICK e \in {db.epoch, NoEpoch} : gem' = [gem EXCEPT ![t].pc = "send", ![t].epoch = e]
  BY DEF GemEpoch
<1>2. PICK g : g = [gem[t] EXCEPT !.pc = "send", !.epoch = e]
  OBVIOUS
<1>3. db.epoch \in Nat
  BY SharedIs DEF SharedOK
<1>4. g \in Gem /\ g.pc = "send" /\ g.acct = gem[t].acct /\ g.base = gem[t].base
  BY <1>2, <1>3, OfTab DEF Gem
<1>5. GemOK(g)
  BY <1>4, OfTab DEF GemEpoch, GemOK
<1>6. gem' = [gem EXCEPT ![t] = g]
  BY <1>1, <1>2, KeptTypes
<1>7. TabGoes(t)
  BY <1>4, <1>5, <1>6, GemGoesAlone DEF GemEpoch
<1> QED
  BY <1>7, KeptTypes, OneTabQuiet DEF GemEpoch, history

LEMMA GemSendInv ==
    ASSUME SessionInv, NEW t \in Tabs, GemSend(t)
    PROVE  SessionInv'
<1>1. PICK allowed : allowed = (cookie # NoAccount)
  OBVIOUS
<1>2. allowed \in BOOLEAN
  BY <1>1
<1>3. PICK g : g = [gem[t] EXCEPT !.pc = "asking", !.allowed = allowed]
  OBVIOUS
<1>4. g \in Gem /\ g.pc = "asking" /\ g.acct = gem[t].acct /\ g.base = gem[t].base
  BY <1>2, <1>3, OfTab DEF Gem
<1>5. GemOK(g)
  BY <1>4, OfTab DEF GemSend, GemOK
<1>6. gem' = [gem EXCEPT ![t] = g]
  BY <1>1, <1>3, KeptTypes DEF GemSend
<1>7. TabGoes(t)
  BY <1>4, <1>5, <1>6, GemGoesAlone DEF GemSend
<1> QED
  BY <1>7, KeptTypes, OneTabQuiet DEF GemSend, history

LEMMA GemArriveInv ==
    ASSUME SessionInv, NEW t \in Tabs, GemArrive(t)
    PROVE  SessionInv'
<1>1. PICK g : g = gem[t]
  OBVIOUS
<1>2. PICK shown : shown = tab[t].shown
  OBVIOUS
<1>3. /\ g \in Gem /\ g.acct \in Accounts /\ g.base \in Inventory
      /\ g.base.owner = g.acct /\ g.base.id # Unavailable
      /\ shown \in Shown \union {Nothing}
  BY <1>1, <1>2, OfTab, TabFields DEF GemArrive, GemOK
<1>4. TabGoes(t)
  <2>1. CASE gem' = [gem EXCEPT ![t] = NoGem] /\ UNCHANGED tab
    BY <2>1, NoGemIs, GemGoesAlone DEF GemArrive
  <2>2. CASE /\ shown # Nothing /\ shown.at # NoStamp
             /\ gem' = [gem EXCEPT ![t].pc = "write", ![t].held = shown]
             /\ UNCHANGED tab
    <3>1. PICK h : h = [g EXCEPT !.pc = "write", !.held = shown]
      OBVIOUS
    <3>2. h \in Gem /\ h.pc = "write" /\ h.acct = g.acct /\ h.base = g.base /\ h.held = shown
      BY <3>1, <1>3 DEF Gem
    <3>3. GemOK(h)
      BY <3>2, <2>2, <1>3 DEF GemOK
    <3>4. gem' = [gem EXCEPT ![t] = h]
      BY <2>2, <3>1, <1>1, KeptTypes
    <3> QED BY <2>2, <3>2, <3>3, <3>4, GemGoesAlone DEF GemArrive
  <2>3. CASE /\ tab[t].active = g.acct /\ shown # Nothing
             /\ gem' = [gem EXCEPT ![t] = NoGem]
             /\ tab' = [tab EXCEPT ![t] = Merged(tab[t], [g EXCEPT !.held = shown])]
    <3>1. PICK h : h = [g EXCEPT !.held = shown]
      OBVIOUS
    <3>2. h.base = g.base /\ h.held = shown /\ h.acct = g.acct
      BY <3>1, <1>3 DEF Gem
    <3>3. PICK tb : tb = Merged(tab[t], h)
      OBVIOUS
    <3>4. /\ tb \in Tab /\ ViewOK(tb, logout[t])
          /\ tb.load = tab[t].load /\ tb.active = tab[t].active
      BY <2>3, <3>2, <3>3, <1>3, MergedOK
    <3> QED BY <2>3, <3>1, <3>3, <3>4, NoGemIs, GemGoes DEF GemArrive
  <2> QED BY <1>1, <1>2, <2>1, <2>2, <2>3 DEF GemArrive
<1> QED
  BY <1>4, KeptTypes, OneTabQuiet DEF GemArrive, history

LEMMA GemFailsInv ==
    ASSUME SessionInv, NEW t \in Tabs, GemFails(t)
    PROVE  SessionInv'
<1>1. TabGoes(t)
  BY NoGemIs, GemGoesAlone DEF GemFails
<1> QED
  BY <1>1, KeptTypes, OneTabQuiet DEF GemFails, history

\* Once a logout has cleared the cache there is no record to match.
LEMMA GemWriteInv ==
    ASSUME SessionInv, NEW t \in Tabs, GemWrite(t)
    PROVE  SessionInv'
<1>1. PICK g : g = gem[t]
  OBVIOUS
<1>2. /\ g.acct \in Accounts /\ g.base \in Inventory /\ g.base.owner = g.acct
      /\ g.base.id # Unavailable /\ g.held \in Shown /\ g.held.at # NoStamp
  BY <1>1, OfTab DEF GemWrite, GemOK
<1>3. PICK r : r = [inv |-> g.base, at |-> g.held.at]
  OBVIOUS
<1>4. r \in Record /\ r.inv.owner = g.acct
  <2>1. g.base.id \in 1..MaxFetch /\ g.held.at \in 1..MaxFetch
    BY <1>2, Names DEF Inventory, Shown, Unavailable, NoStamp
  <2> QED BY <2>1, <1>2, <1>3 DEF Record, Inventory
<1>5. /\ \/ db' = db
         \/ /\ db.record[g.acct] \notin {NoRecord, Corrupt}
            /\ db' = [db EXCEPT !.record[g.acct] = r]
      /\ \/ UNCHANGED tab
         \/ tab[t].active = g.acct /\ tab' = [tab EXCEPT ![t] = Merged(tab[t], g)]
      /\ gem' = [gem EXCEPT ![t] = NoGem]
      /\ UNCHANGED <<cookie, flow, logout, fetched, history>>
  BY <1>1, <1>3 DEF GemWrite
<1>6. TabGoes(t)
  <2>1. CASE UNCHANGED tab
    BY <2>1, <1>5, NoGemIs, GemGoesAlone
  <2>2. CASE tab[t].active = g.acct /\ tab' = [tab EXCEPT ![t] = Merged(tab[t], g)]
    <3>1. PICK tb : tb = Merged(tab[t], g)
      OBVIOUS
    <3>2. /\ tb \in Tab /\ ViewOK(tb, logout[t])
          /\ tb.load = tab[t].load /\ tb.active = tab[t].active
      BY <2>2, <3>1, <1>2, MergedOK
    <3> QED BY <2>2, <3>1, <3>2, <1>5, NoGemIs, GemGoes
  <2> QED BY <1>5, <2>1, <2>2
<1>7. SharedOK /\ RecordsOwn
  BY SharedIs DEF SessionInv
<1>8. SharedOK' /\ RecordsOwn' /\ db'.epoch = db.epoch
  <2>1. CASE db' = db
    BY <2>1, <1>5, <1>7 DEF SharedOK, RecordsOwn, history
  <2>2. CASE db' = [db EXCEPT !.record[g.acct] = r]
    BY <2>2, <1>2, <1>4, <1>5, <1>7, RecordPut DEF SharedOK, history
  <2> QED BY <1>5, <2>1, <2>2
<1>9. since = "emptied" => db' = db
  BY <1>2, <1>5 DEF SessionInv, EmptyOK
<1>10. since' = "emptied" =>
        /\ since = "emptied"
        /\ cookie' = NoAccount /\ \A a \in Accounts : db'.record[a] = NoRecord
  BY <1>5, <1>9 DEF SessionInv, EmptyOK, history
<1>11. db.epoch \in Nat
  BY <1>7 DEF SharedOK
<1> QED
  BY <1>6, <1>8, <1>10, <1>11, OneTab
-----------------------------------------------------------------------------
\* The logout.

\* A logout changes its stage and, when answered or done, the tab.
LEMMA LogoutGoes ==
    ASSUME SessionInv, NEW t \in Tabs, NEW tb \in Tab, NEW lo \in {"none", "posting", "clearing"},
           tab' = [tab EXCEPT ![t] = tb], logout' = [logout EXCEPT ![t] = lo],
           UNCHANGED <<flow, gem>>,
           ViewOK(tb, lo), LoadOK(tb, flow[t]),
           lo # "none" => flow[t]["act"].pc = "none"
    PROVE  TabGoes(t)
<1>1. tab'[t] = tb /\ tab' \in [Tabs -> Tab] /\ \A u \in Tabs : u # t => tab'[u] = tab[u]
  BY TabPut
<1>2. /\ logout' \in [Tabs -> {"none", "posting", "clearing"}]
      /\ logout'[t] = lo /\ \A u \in Tabs : u # t => logout'[u] = logout[u]
  BY LogoutPut
<1>3. OnlyTab(t)
  BY <1>1, <1>2, KeptTypes DEF OnlyTab
<1>4. LocalOK(tab'[t], flow'[t], gem'[t], logout'[t])
  BY <1>1, <1>2, OfTab DEF LocalOK
<1> QED
  BY <1>3, <1>4, FlowStays DEF TabGoes

LEMMA LogoutStartInv ==
    ASSUME SessionInv, NEW t \in Tabs, LogoutStart(t)
    PROVE  SessionInv'
<1>1. /\ tab' = [tab EXCEPT ![t] = tab[t]]
      /\ logout' = [logout EXCEPT ![t] = "posting"] /\ UNCHANGED <<flow, gem>>
  BY KeptTypes DEF LogoutStart
<1>2. logout[t] = "none" /\ flow[t]["act"].pc = "none"
  BY DEF LogoutStart, Idle
<1>3. ViewOK(tab[t], "posting")
  BY <1>2, OfTab DEF ViewOK
<1>4. TabGoes(t)
  BY <1>1, <1>2, <1>3, OfTab, LogoutGoes
<1> QED
  BY <1>4, KeptTypes, OneTabQuiet DEF LogoutStart, history

LEMMA LogoutFailsInv ==
    ASSUME SessionInv, NEW t \in Tabs, LogoutFails(t)
    PROVE  SessionInv'
<1>1. /\ tab' = [tab EXCEPT ![t] = tab[t]]
      /\ logout' = [logout EXCEPT ![t] = "none"] /\ UNCHANGED <<flow, gem>>
  BY KeptTypes DEF LogoutFails
<1>2. ViewOK(tab[t], "none")
  BY OfTab DEF ViewOK, LogoutFails
<1>3. TabGoes(t)
  BY <1>1, <1>2, OfTab, LogoutGoes
<1> QED
  BY <1>3, KeptTypes, OneTabQuiet DEF LogoutFails, history

LEMMA LogoutArrivesInv ==
    ASSUME SessionInv, NEW t \in Tabs, LogoutArrives(t)
    PROVE  SessionInv'
<1>1. PICK tb : tb = [tab[t] EXCEPT !.active = NoAccount, !.load = NoLoad]
  OBVIOUS
<1>2. /\ tb \in Tab /\ tb.active = NoAccount /\ tb.load = NoLoad
      /\ tb.view = tab[t].view /\ tb.user = tab[t].user /\ tb.shown = tab[t].shown
  BY <1>1, OfTab DEF Tab
<1>3. tab' = [tab EXCEPT ![t] = tb]
  BY <1>1, KeptTypes DEF LogoutArrives
<1>4. flow[t]["act"].pc = "none"
  BY OfTab DEF LogoutArrives
<1>5. ViewOK(tb, "clearing") /\ LoadOK(tb, flow[t])
  BY <1>2, OfTab DEF ViewOK, LoadOK
<1>6. TabGoes(t)
  BY <1>2, <1>3, <1>4, <1>5, LogoutGoes DEF LogoutArrives
<1>7. SharedOK' /\ RecordsOwn' /\ db'.epoch >= db.epoch
  BY SharedIs DEF SessionInv, SharedOK, Somebody, RecordsOwn, LogoutArrives, history
<1>8. since' = "emptied" =>
        /\ since = "emptied"
        /\ cookie' = NoAccount /\ \A a \in Accounts : db'.record[a] = NoRecord
  BY DEF SessionInv, EmptyOK, LogoutArrives, history
<1> QED
  BY <1>6, <1>7, <1>8, OneTab

\* Clearing the cache advances the epoch past every one a load or a gem refresh has.
LEMMA LogoutClearsInv ==
    ASSUME SessionInv, NEW t \in Tabs, LogoutClears(t)
    PROVE  SessionInv'
<1>1. PICK clear : clear = Cleared(tab[t])
  OBVIOUS
<1>2. /\ clear \in Tab /\ clear.shown = Nothing /\ clear.active = tab[t].active
      /\ clear.load = tab[t].load
  BY <1>1, OfTab, ClearedIs
<1>3. PICK tb : tb = [clear EXCEPT !.view = "out", !.user = NoAccount]
  OBVIOUS
<1>4. /\ tb \in Tab /\ tb.view = "out" /\ tb.shown = Nothing
      /\ tb.active = tab[t].active /\ tb.load = tab[t].load
  BY <1>2, <1>3 DEF Tab
<1>5. ViewOK(tb, "none") /\ LoadOK(tb, flow[t])
  BY <1>4, OfTab DEF ViewOK, LoadOK
<1>6. TabGoes(t)
  BY <1>1, <1>3, <1>4, <1>5, LogoutGoes DEF LogoutClears
<1>7. /\ \/ db' = db /\ since' = since
         \/ db' = Emptied(db) /\ since' \in {since, "emptied"}
      /\ since' = "emptied" => since = "emptied" \/ (db' = Emptied(db) /\ cookie = NoAccount)
      /\ UNCHANGED <<cookie, fetched, signIns>>
  BY DEF LogoutClears
<1>8. SharedOK
  BY SharedIs
<1>9. /\ Emptied(db).epoch = db.epoch + 1
      /\ \A a \in Accounts : Emptied(db).record[a] = NoRecord
      /\ Emptied(db) \in [epoch : Nat, active : Somebody,
                          record : [Accounts -> Record \union {NoRecord, Corrupt}]]
  BY <1>8 DEF SharedOK, Emptied, Somebody
<1>10. SharedOK' /\ RecordsOwn' /\ db'.epoch >= db.epoch
  BY <1>7, <1>8, <1>9 DEF SessionInv, SharedOK, RecordsOwn
<1>11. since' = "emptied" =>
        /\ since = "emptied" \/ db'.epoch > db.epoch
        /\ cookie' = NoAccount /\ \A a \in Accounts : db'.record[a] = NoRecord
  <2>1. db.epoch \in Nat
    BY <1>8 DEF SharedOK
  <2> QED BY <2>1, <1>7, <1>9 DEF SessionInv, EmptyOK
<1> QED
  BY <1>6, <1>10, <1>11, OneTab
-----------------------------------------------------------------------------
\* What a step shows in place of what was shown.

\* A good inventory gives way only to nothing or to another good one.
KeepsGood(tb, new) == Good(tb.shown) /\ new.shown # Nothing => Good(new.shown)

GoodStep == \A t \in Tabs : KeepsGood(tab[t], tab'[t])

LEMMA GoodPut ==
    ASSUME SessionInv, NEW t \in Tabs, NEW tb, tab' = [tab EXCEPT ![t] = tb], KeepsGood(tab[t], tb)
    PROVE  GoodStep
BY KeptTypes DEF GoodStep, KeepsGood

LEMMA GoodSame == UNCHANGED tab => GoodStep
BY DEF GoodStep, KeepsGood

LEMMA GoodView ==
    ASSUME SessionInv, NEW t \in Tabs, NEW v, tab' = [tab EXCEPT ![t].view = v]
    PROVE  GoodStep
<1>1. PICK tb : tb = [tab[t] EXCEPT !.view = v]
  OBVIOUS
<1>2. tb.shown = tab[t].shown
  BY <1>1, OfTab DEF Tab
<1> QED
  BY <1>1, <1>2, KeptTypes, GoodPut DEF KeepsGood

LEMMA GoodEnds ==
    ASSUME SessionInv, NEW t \in Tabs, NEW k, NEW tb \in Tab, NEW result,
           Ends(t, k, tb, result), KeepsGood(tab[t], tb)
    PROVE  GoodStep
<1>1. PICK new : new = [tb EXCEPT !.loading = FALSE, !.load = NoLoad]
  OBVIOUS
<1>2. new.shown = tb.shown
  BY <1>1 DEF Tab
<1> QED
  BY <1>1, <1>2, GoodPut DEF Ends, KeepsGood

LEMMA GoodShow ==
    ASSUME SessionInv, NEW t \in Tabs, NEW inv \in Inventory, NEW n \in 0..MaxFetch,
           inv.id # Unavailable
    PROVE  Show(tab[t], inv, n) \in Tab /\ KeepsGood(tab[t], Show(tab[t], inv, n))
<1>1. PICK tb : tb = Show(tab[t], inv, n)
  OBVIOUS
<1>2. tb \in Tab /\ tb.shown.inv = inv
  BY <1>1, OfTab, ShowIs
<1>3. Good(tb.shown) \/ tb.shown = Nothing
  BY <1>2 DEF Good
<1> QED
  BY <1>1, <1>2, <1>3 DEF KeepsGood

LEMMA GoodUser ==
    ASSUME SessionInv, NEW t \in Tabs, User(t)
    PROVE  GoodStep
<1>1. CASE Open(t) \/ Retry(t)
  BY <1>1, GoodView DEF Open, Retry
<1>2. CASE Leave(t)
  BY <1>2, AwayIs, GoodPut DEF Leave, KeepsGood
<1>3. CASE Recheck(t) \/ GemStart(t) \/ LogoutStart(t)
  BY <1>3, GoodSame DEF Recheck, GemStart, LogoutStart
<1>4. CASE Refresh(t)
  <2>1. tab[t].user \in Accounts
    BY <1>4, OfTab DEF Refresh, Idle, ViewOK
  <2>2. PICK tb : tb = Started(tab[t], "act", tab[t].user)
    OBVIOUS
  <2>3. tb.shown = tab[t].shown
    BY <2>1, <2>2, OfTab, Names, StartedIs
  <2> QED BY <1>4, <2>2, <2>3, GoodPut DEF Refresh, KeepsGood
<1> QED
  BY <1>1, <1>2, <1>3, <1>4 DEF User

LEMMA GoodPresent ==
    ASSUME SessionInv, NEW t \in Tabs, NEW k \in Kinds, Present(t, k)
    PROVE  GoodStep
<1>1. PICK f : f = flow[t][k]
  OBVIOUS
<1>2. PICK next : next = SignedIn(tab[t], f.sess, f.must)
  OBVIOUS
<1>3. f \in Flow /\ f.must \in BOOLEAN /\ f.sess \in Somebody
  BY <1>1, OfTab, FlowFields
<1>4. PICK out : out = SignedOut(tab[t])
  OBVIOUS
<1>5. \/ tab' = [tab EXCEPT ![t] = out]
      \/ /\ f.sess # NoAccount
         /\ \/ tab' = [tab EXCEPT ![t] = next]
            \/ tab' = [tab EXCEPT ![t] = Started(next, k, f.sess)]
  BY <1>1, <1>2, <1>4 DEF Present
<1>6. out.shown = Nothing
  BY <1>4, OfTab, SignedOutIs
<1>7. ASSUME f.sess # NoAccount
      PROVE  f.sess \in Accounts /\ next \in Tab /\ next.shown \in {tab[t].shown, Nothing}
  <2>1. f.sess \in Accounts
    BY <1>3, <1>7 DEF Somebody
  <2> QED BY <2>1, <1>2, <1>3, OfTab, SignedInIs
<1>8. CASE tab' = [tab EXCEPT ![t] = out]
  BY <1>6, <1>8, GoodPut DEF KeepsGood
<1>9. CASE f.sess # NoAccount /\ tab' = [tab EXCEPT ![t] = next]
  BY <1>7, <1>9, GoodPut DEF KeepsGood
<1>10. CASE f.sess # NoAccount /\ tab' = [tab EXCEPT ![t] = Started(next, k, f.sess)]
  <2>1. PICK tb : tb = Started(next, k, f.sess)
    OBVIOUS
  <2>2. tb.shown = next.shown
    BY <2>1, <1>7, <1>10, StartedIs
  <2> QED BY <2>1, <2>2, <1>7, <1>10, GoodPut DEF KeepsGood
<1> QED
  BY <1>5, <1>8, <1>9, <1>10

LEMMA GoodReadCache ==
    ASSUME SessionInv, NEW t \in Tabs, NEW k \in Kinds, ReadCache(t, k)
    PROVE  GoodStep
<1>1. PICK old : old = db.record[flow[t][k].acct]
  OBVIOUS
<1>2. CASE old \notin {NoRecord, Corrupt} /\ Ends(t, k, Show(tab[t], old.inv, old.at), "cache")
  <2>1. old \in Record
    <3>1. flow[t][k].pc \in Loading
      BY DEF ReadCache, Loading
    <3>2. flow[t][k].acct \in Accounts
      BY <3>1, LoadHas
    <3> QED BY <3>2, <1>1, <1>2, SharedIs DEF SharedOK
  <2>2. old.inv \in Inventory /\ old.at \in 0..MaxFetch /\ old.inv.id # Unavailable
    BY <2>1, Names DEF Record, Inventory, Unavailable
  <2>3. PICK tb : tb = Show(tab[t], old.inv, old.at)
    OBVIOUS
  <2>4. tb \in Tab /\ KeepsGood(tab[t], tb)
    BY <2>2, <2>3, GoodShow
  <2> QED BY <1>2, <2>3, <2>4, GoodEnds
<1>3. CASE UNCHANGED tab
  BY <1>3, GoodSame
<1> QED
  BY <1>1, <1>2, <1>3 DEF ReadCache, Proceed, Superseded

\* An unavailable answer is shown only in place of nothing or of another one.
LEMMA GoodArrive ==
    ASSUME SessionInv, NEW t \in Tabs, NEW k \in Kinds, Arrive(t, k)
    PROVE  GoodStep
<1>1. PICK f : f = flow[t][k]
  OBVIOUS
<1>2. f.pc = "fetch" /\ f.pc \in Loading
  BY <1>1 DEF Arrive, Loading
<1>3. f.acct \in Accounts /\ f.served \in {f.acct, NoAccount}
  BY <1>1, <1>2, LoadHas DEF FlowOK
<1>4. PICK new : new = fetched + 1
  OBVIOUS
<1>5. PICK inv : inv = [owner |-> f.served, id |-> new]
  OBVIOUS
<1>6. \/ Ends(t, k, tab[t], "changed") \/ Ends(t, k, tab[t], "error") \/ UNCHANGED tab
      \/ f.served # NoAccount /\ Ends(t, k, WithUnavailable(tab[t], f.served), "network")
      \/ f.served # NoAccount /\ fetched < MaxFetch /\ Ends(t, k, Show(tab[t], inv, new), "network")
  BY <1>1, <1>4, <1>5 DEF Arrive, Refused, Superseded, Proceed
<1>7. CASE Ends(t, k, tab[t], "changed") \/ Ends(t, k, tab[t], "error") \/ UNCHANGED tab
  <2>1. tab[t] \in Tab /\ KeepsGood(tab[t], tab[t])
    BY OfTab DEF KeepsGood
  <2> QED BY <1>7, <2>1, GoodEnds, GoodSame
<1>8. CASE f.served # NoAccount /\ Ends(t, k, WithUnavailable(tab[t], f.served), "network")
  <2>1. PICK tb : tb = WithUnavailable(tab[t], f.served)
    OBVIOUS
  <2>2. PICK none : none = [owner |-> f.served, id |-> Unavailable]
    OBVIOUS
  <2>3. none \in Inventory /\ NoStamp \in 0..MaxFetch
    BY <2>2, <1>3, <1>8, Names DEF Inventory, Unavailable, NoStamp
  <2>4. IF Good(tab[t].shown) THEN tb = tab[t] ELSE tb = Show(tab[t], none, NoStamp)
    BY <2>1, <2>2 DEF WithUnavailable
  <2>5. tb \in Tab /\ KeepsGood(tab[t], tb)
    BY <2>3, <2>4, OfTab, ShowIs DEF KeepsGood
  <2> QED BY <2>1, <2>5, <1>8, GoodEnds
<1>9. CASE f.served # NoAccount /\ fetched < MaxFetch /\ Ends(t, k, Show(tab[t], inv, new), "network")
  <2>1. new \in 0..MaxFetch /\ new # 0
    BY <1>4, <1>9, KeptTypes, Names
  <2>2. inv \in Inventory /\ inv.id # Unavailable
    BY <2>1, <1>3, <1>5, <1>9 DEF Inventory, Unavailable
  <2>3. PICK tb : tb = Show(tab[t], inv, new)
    OBVIOUS
  <2>4. tb \in Tab /\ KeepsGood(tab[t], tb)
    BY <2>1, <2>2, <2>3, GoodShow
  <2> QED BY <2>3, <2>4, <1>9, GoodEnds
<1> QED
  BY <1>6, <1>7, <1>8, <1>9

LEMMA GoodWriteCache ==
    ASSUME SessionInv, NEW t \in Tabs, NEW k \in Kinds, WriteCache(t, k)
    PROVE  GoodStep
<1>1. PICK f : f = flow[t][k]
  OBVIOUS
<1>2. f.pc = "write" /\ f.pc \in Loading
  BY <1>1 DEF WriteCache, Loading
<1>3. f \in Flow /\ f.served \in Accounts /\ f.id # Unavailable
  BY <1>1, <1>2, LoadHas DEF FlowOK
<1>4. PICK inv : inv = [owner |-> f.served, id |-> f.id]
  OBVIOUS
<1>5. inv \in Inventory /\ inv.id # Unavailable /\ f.id \in 0..MaxFetch
  BY <1>3, <1>4, FlowFields DEF Inventory
<1>6. PICK tb : tb = Show(tab[t], inv, f.id)
  OBVIOUS
<1>7. tb \in Tab /\ KeepsGood(tab[t], tb)
  BY <1>5, <1>6, GoodShow
<1>8. tab[t] \in Tab /\ KeepsGood(tab[t], tab[t])
  BY OfTab DEF KeepsGood
<1>9. Ends(t, k, tab[t], "changed") \/ Ends(t, k, tb, "network") \/ UNCHANGED tab
  BY <1>1, <1>4, <1>6 DEF WriteCache, Superseded
<1> QED
  BY <1>7, <1>8, <1>9, GoodEnds, GoodSame

LEMMA GoodMerged ==
    ASSUME SessionInv, NEW t \in Tabs, NEW g, g.base \in Inventory, g.held \in Shown,
           g.base.id # Unavailable, tab' = [tab EXCEPT ![t] = Merged(tab[t], g)]
    PROVE  GoodStep
<1>1. PICK tb : tb = Merged(tab[t], g)
  OBVIOUS
<1>2. tb.shown.inv = g.base
  BY <1>1, OfTab, MergedIs
<1>3. KeepsGood(tab[t], tb)
  BY <1>2 DEF KeepsGood, Good
<1> QED
  BY <1>1, <1>3, GoodPut

LEMMA GoodGem ==
    ASSUME SessionInv, NEW t \in Tabs, GemStep(t)
    PROVE  GoodStep
<1>1. PICK g : g = gem[t]
  OBVIOUS
<1>2. CASE UNCHANGED tab
  BY <1>2, GoodSame
<1>3. CASE GemArrive(t) /\ ~UNCHANGED tab
  <2>1. PICK h : h = [g EXCEPT !.held = tab[t].shown]
    OBVIOUS
  <2>2. /\ tab[t].shown # Nothing /\ g.pc # "none"
        /\ tab' = [tab EXCEPT ![t] = Merged(tab[t], h)]
    BY <1>1, <1>3, <2>1 DEF GemArrive
  <2>3. g \in Gem /\ tab[t].shown \in Shown
    BY <1>1, <2>2, OfTab, TabFields
  <2>4. h.base = g.base /\ h.held \in Shown
    BY <2>1, <2>3 DEF Gem
  <2>5. g.base \in Inventory /\ g.base.id # Unavailable
    BY <1>1, <2>2, OfTab DEF GemOK
  <2> QED BY <2>2, <2>4, <2>5, GoodMerged
<1>4. CASE GemWrite(t) /\ ~UNCHANGED tab
  <2>1. g.pc = "write" /\ tab' = [tab EXCEPT ![t] = Merged(tab[t], g)]
    BY <1>1, <1>4 DEF GemWrite
  <2>2. g.base \in Inventory /\ g.base.id # Unavailable /\ g.held \in Shown
    BY <1>1, <2>1, OfTab DEF GemOK
  <2> QED BY <2>1, <2>2, GoodMerged
<1> QED
  BY <1>2, <1>3, <1>4 DEF GemStep, GemEpoch, GemSend, GemFails

LEMMA GoodLogout ==
    ASSUME SessionInv, NEW t \in Tabs, LogoutStep(t)
    PROVE  GoodStep
<1>1. CASE LogoutFails(t)
  BY <1>1, GoodSame DEF LogoutFails
<1>2. CASE LogoutArrives(t)
  <2>1. PICK tb : tb = [tab[t] EXCEPT !.active = NoAccount, !.load = NoLoad]
    OBVIOUS
  <2>2. tb.shown = tab[t].shown /\ tab' = [tab EXCEPT ![t] = tb]
    BY <1>2, <2>1, OfTab, KeptTypes DEF Tab, LogoutArrives
  <2> QED BY <2>2, GoodPut DEF KeepsGood
<1>3. CASE LogoutClears(t)
  <2>1. PICK clear : clear = Cleared(tab[t])
    OBVIOUS
  <2>2. PICK tb : tb = [clear EXCEPT !.view = "out", !.user = NoAccount]
    OBVIOUS
  <2>3. tb.shown = Nothing
    BY <2>1, <2>2, OfTab, ClearedIs DEF Tab
  <2> QED BY <1>3, <2>1, <2>2, <2>3, GoodPut DEF LogoutClears, KeepsGood
<1> QED
  BY <1>1, <1>2, <1>3 DEF LogoutStep

LEMMA GoodNext == SessionInv /\ [Next]_vars => GoodStep
<1> SUFFICES ASSUME SessionInv, [Next]_vars PROVE GoodStep
  OBVIOUS
<1>1. CASE UNCHANGED tab
  BY <1>1, GoodSame
<1>2. ASSUME NEW t \in Tabs, User(t) \/ GemStep(t) \/ LogoutStep(t)
      PROVE  GoodStep
  BY <1>2, GoodUser, GoodGem, GoodLogout
<1>3. ASSUME NEW t \in Tabs, NEW k \in Kinds, FlowStep(t, k)
      PROVE  GoodStep
  <2>1. CASE SessionFails(t, k)
    BY <2>1, GoodView, GoodSame DEF SessionFails
  <2>2. CASE ClearExcept(t, k) \/ ReadEpoch(t, k) \/ SendInventory(t, k)
    BY <2>2, GoodSame DEF ClearExcept, ReadEpoch, SendInventory, Proceed, Superseded
  <2> QED
    BY <1>3, <2>1, <2>2, GoodPresent, GoodReadCache, GoodArrive, GoodWriteCache DEF FlowStep, LoadStep
<1> QED
  BY <1>1, <1>2, <1>3 DEF Next, SignIn, Expire, vars
-----------------------------------------------------------------------------
\* The specification.

LEMMA UserInv ==
    ASSUME SessionInv, NEW t \in Tabs, User(t)
    PROVE  SessionInv'
BY OpenInv, LeaveInv, RetryInv, RecheckInv, RefreshInv, GemStartInv, LogoutStartInv DEF User

LEMMA GemStepInv ==
    ASSUME SessionInv, NEW t \in Tabs, GemStep(t)
    PROVE  SessionInv'
BY GemEpochInv, GemSendInv, GemArriveInv, GemFailsInv, GemWriteInv DEF GemStep

LEMMA LogoutStepInv ==
    ASSUME SessionInv, NEW t \in Tabs, LogoutStep(t)
    PROVE  SessionInv'
BY LogoutFailsInv, LogoutArrivesInv, LogoutClearsInv DEF LogoutStep

LEMMA FlowStepInv ==
    ASSUME SessionInv, NEW t \in Tabs, NEW k \in Kinds, FlowStep(t, k)
    PROVE  SessionInv'
BY PresentInv, SessionFailsInv, ClearExceptInv, ReadCacheInv, ReadEpochInv,
   SendInventoryInv, ArriveInv, WriteCacheInv DEF FlowStep, LoadStep

LEMMA NextInv == SessionInv /\ [Next]_vars => SessionInv'
<1> SUFFICES ASSUME SessionInv, [Next]_vars PROVE SessionInv'
  OBVIOUS
<1>1. CASE Next
  BY <1>1, SignInInv, ExpireInv, UserInv, GemStepInv, LogoutStepInv, FlowStepInv DEF Next
<1>2. CASE UNCHANGED vars
  BY <1>2 DEF vars, SessionInv, TypeOK, LocalOK, ViewOK, LoadOK, FlowOK, GemOK, EpochOK,
              RecordsOwn, EmptyOK, Behind
<1> QED
  BY <1>1, <1>2

\* Of any number of tabs and accounts: what is on show, what loads and gem refreshes
\* carry and what the cache holds belong together in every reachable state.
THEOREM SpecInv == Spec => []SessionInv
<1> QED
  BY InitInv, NextInv, PTL DEF Spec

\* Every variable of the browser and its tabs has its type.
THEOREM TypeCorrect == Spec => []TypeOK
<1>1. SessionInv => TypeOK
  BY DEF SessionInv
<1> QED
  BY <1>1, SpecInv, PTL

\* A signed-in tab shows no inventory but its user's, in whatever order session
\* answers, cache reads, inventories and gem yields arrive.
THEOREM ShowsItsUser == Spec => []ShownIsViewed
<1>1. SessionInv => ShownIsViewed
  BY OfTab DEF ViewOK, ShownIsViewed
<1> QED
  BY <1>1, SpecInv, PTL

\* A record of the cache belongs to the account it is filed under, although the
\* cookie may change hands between a request and its answer.
THEOREM RecordsBelong == Spec => []RecordsOwn
<1>1. SessionInv => RecordsOwn
  BY DEF SessionInv
<1> QED
  BY <1>1, SpecInv, PTL

\* No load or gem refresh that was under way when a logout cleared the cache puts a
\* record back before somebody signs in.
THEOREM NothingComesBack == Spec => []NothingKept
<1>1. SessionInv => NothingKept
  BY DEF SessionInv, EmptyOK, NothingKept
<1> QED
  BY <1>1, SpecInv, PTL

\* A good inventory is never replaced by a transient unavailable answer.
THEOREM GoodStays == Spec => GoodKept
<1>1. SessionInv /\ [Next]_vars =>
         [\A t \in Tabs : Good(tab[t].shown) /\ tab'[t].shown # Nothing => Good(tab'[t].shown)]_vars
  BY GoodNext DEF GoodStep, KeepsGood
<1> QED
  BY <1>1, SpecInv, PTL DEF Spec, GoodKept
=============================================================================
