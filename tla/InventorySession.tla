-------------------------- MODULE InventorySession --------------------------
(***************************************************************************)
(* The browser side of sign-in and inventory: the tabs of one browser      *)
(* (HomePage in App.tsx), the IndexedDB cache they share                   *)
(* (inventoryCache.ts), the session cookie they share, and the server's    *)
(* session, inventory, gem and logout routes as far as the tabs can tell.  *)
(*                                                                         *)
(* A tab runs its event handlers one at a time and interleaves with itself *)
(* at every await: up to two coroutines ("mount": the mount effect or      *)
(* Retry; "act": Recheck or Refresh inventory), one gem refresh and one    *)
(* logout are under way at once.  A step is one IndexedDB transaction or   *)
(* one delivered response together with the synchronous code after it.     *)
(***************************************************************************)
EXTENDS Naturals, FiniteSets

CONSTANTS
    Tabs, Accounts,
    Abilities,       \* Abilities[t]: what the user does in tab t
    DbMayFail,       \* whether IndexedDB operations may fail
    MaxFetch,        \* bound: inventories fetched
    MaxSignIns,      \* bound: sign-ins
    NoAccount, NoRecord, Corrupt, Nothing, NoLoad, NoEpoch

Ability == {"recheck", "refresh", "gem", "logout", "retry", "leave"}

ASSUME SessionAssumption ==
    /\ Abilities \in [Tabs -> SUBSET Ability]
    /\ DbMayFail \in BOOLEAN
    /\ MaxFetch \in Nat \ {0} /\ MaxSignIns \in Nat
    /\ NoAccount \notin Accounts
    /\ NoEpoch \notin Nat
    /\ NoLoad \notin {"mount", "act"}

VARIABLES
    cookie,     \* the account of the session cookie
    db,         \* IndexedDB: cache epoch, active account, records
    tab,        \* tab[t]: the state of HomePage and its refs
    flow,       \* flow[t][k]: coroutine k of tab t
    gem,        \* gem[t]: handleGemRefresh
    logout,     \* logout[t]: handleLogout
    fetched,    \* number of inventories fetched: names the next one
    signIns,    \* number of sign-ins
    since       \* history: what has happened to the cache since the last sign-in

vars == <<cookie, db, tab, flow, gem, logout, fetched, signIns, since>>
history == <<signIns, since>>
-----------------------------------------------------------------------------
\* An inventory is named by its owner and the fetch that produced it; stamp n is
\* the refreshed_at of fetch n.  Fetch 0 is an "unavailable" answer, stamp 0 null.
Unavailable == 0
NoStamp == 0
Inventory == [owner : Accounts, id : 0..MaxFetch]
Shown == [inv : Inventory, at : 0..MaxFetch]
Record == [inv : [owner : Accounts, id : 1..MaxFetch], at : 1..MaxFetch]

Kinds == {"mount", "act"}
NoFlow == [pc |-> "none", asks |-> 0, must |-> FALSE, sess |-> NoAccount,
           acct |-> NoAccount, epoch |-> NoEpoch, served |-> NoAccount, id |-> 0]
NoGem == [pc |-> "none", acct |-> NoAccount, base |-> Nothing, epoch |-> NoEpoch,
          allowed |-> FALSE, held |-> Nothing]
AwayTab == [view |-> "away", user |-> NoAccount, active |-> NoAccount,
            shown |-> Nothing, loading |-> FALSE, load |-> NoLoad]

Outcomes == IF DbMayFail THEN BOOLEAN ELSE {TRUE}
Good(s) == s # Nothing /\ s.inv.id # Unavailable
Loading == {"except", "read", "epoch", "send", "fetch", "write"}

Init ==
    /\ cookie = NoAccount
    /\ \/ db = [epoch |-> 0, active |-> NoAccount, record |-> [a \in Accounts |-> NoRecord]]
       \/ \E a \in Accounts :
             \E old \in {NoRecord, Corrupt, [inv |-> [owner |-> a, id |-> 1], at |-> 1]} :
                db = [epoch |-> 0, active |-> a,
                      record |-> [b \in Accounts |-> IF b = a THEN old ELSE NoRecord]]
    /\ tab = [t \in Tabs |-> AwayTab]
    /\ flow = [t \in Tabs |-> [k \in Kinds |-> NoFlow]]
    /\ gem = [t \in Tabs |-> NoGem]
    /\ logout = [t \in Tabs |-> "none"]
    /\ fetched = 1
    /\ signIns = 0
    /\ since = "nothing"
-----------------------------------------------------------------------------
(* The user and the cookie.                                                *)

\* The OpenID callback, in this or any other window of the browser.
SignIn(a) ==
    /\ signIns < MaxSignIns
    /\ signIns' = signIns + 1
    /\ cookie' = a
    /\ since' = "nothing"
    /\ UNCHANGED <<db, tab, flow, gem, logout, fetched>>

Expire ==
    /\ cookie # NoAccount
    /\ cookie' = NoAccount
    /\ UNCHANGED <<db, tab, flow, gem, logout, fetched, history>>

\* requestSession: the answer is decided by the cookie the request carries.
Asking(asks, must) ==
    [NoFlow EXCEPT !.pc = "asking", !.asks = asks, !.must = must, !.sess = cookie]

Open(t) ==
    /\ tab[t].view = "away"
    /\ tab' = [tab EXCEPT ![t].view = "loading"]
    /\ flow' = [flow EXCEPT ![t]["mount"] = Asking(1, TRUE)]
    /\ UNCHANGED <<cookie, db, gem, logout, fetched, history>>

\* Closing, reloading or leaving the page ends everything the tab was doing.
Leave(t) ==
    /\ "leave" \in Abilities[t]
    /\ tab[t].view # "away"
    /\ tab' = [tab EXCEPT ![t] = AwayTab]
    /\ flow' = [flow EXCEPT ![t] = [k \in Kinds |-> NoFlow]]
    /\ gem' = [gem EXCEPT ![t] = NoGem]
    /\ logout' = [logout EXCEPT ![t] = "none"]
    /\ UNCHANGED <<cookie, db, fetched, history>>

Retry(t) ==
    /\ "retry" \in Abilities[t]
    /\ tab[t].view = "down"
    /\ flow[t]["mount"].pc = "none"
    /\ tab' = [tab EXCEPT ![t].view = "loading"]
    /\ flow' = [flow EXCEPT ![t]["mount"] = Asking(1, TRUE)]
    /\ UNCHANGED <<cookie, db, gem, logout, fetched, history>>

\* What the signed-in view offers while nothing else the user started runs.
Idle(t) ==
    /\ tab[t].view = "in"
    /\ flow[t]["act"].pc = "none"
    /\ gem[t].pc = "none"
    /\ logout[t] = "none"

Recheck(t) ==
    /\ "recheck" \in Abilities[t]
    /\ Idle(t)
    /\ flow' = [flow EXCEPT ![t]["act"] = Asking(2, FALSE)]
    /\ UNCHANGED <<cookie, db, tab, gem, logout, fetched, history>>

\* A load of loadInventoryForUser becomes the current one; the previous one, if
\* it still runs, has lost its token.
Started(tb, k, a) == [tb EXCEPT !.active = a, !.load = k, !.loading = TRUE]
LoadFlow(f, pc, a) == [NoFlow EXCEPT !.pc = pc, !.asks = f.asks, !.acct = a]

\* handleInventoryRefresh: a forced load neither prunes nor reads the cache.
Refresh(t) ==
    /\ "refresh" \in Abilities[t]
    /\ Idle(t)
    /\ ~tab[t].loading
    /\ tab' = [tab EXCEPT ![t] = Started(tab[t], "act", tab[t].user)]
    /\ flow' = [flow EXCEPT ![t]["act"] =
                    LoadFlow([asks |-> 2], "epoch", tab[t].user)]
    /\ UNCHANGED <<cookie, db, gem, logout, fetched, history>>
-----------------------------------------------------------------------------
(* Session answers: requestSession and presentSession.                     *)

Cleared(tb) == [tb EXCEPT !.shown = Nothing, !.loading = FALSE]
SignedOut(tb) ==
    [Cleared(tb) EXCEPT !.view = "out", !.user = NoAccount, !.active = NoAccount,
                        !.load = NoLoad]

Changed(tb, s) == tb.active # NoAccount /\ tb.active # s

\* Fault: the inventory of the previous account stays in the state.
SignedInUncleared(tb, s, must) ==
    LET seen == [tb EXCEPT !.view = "in", !.user = s, !.active = s]
    IN  IF must THEN Cleared(seen) ELSE seen

SignedIn(tb, s, must) ==
    LET seen == [tb EXCEPT !.view = "in", !.user = s, !.active = s]
    IN  IF must \/ Changed(tb, s) THEN Cleared(seen) ELSE seen

NeedsInventory(tb, s, must) == must \/ Changed(tb, s) \/ tb.active = NoAccount

\* An authenticated answer joins the running load of its account or starts one.
Present(t, k) ==
    LET f == flow[t][k]
        tb == tab[t]
        s == f.sess
        next == SignedIn(tb, s, f.must)
        joins == tb.load # NoLoad /\ flow[t][tb.load].acct = s
    IN  /\ f.pc = "asking"
        /\ \/ /\ s = NoAccount
              /\ tab' = [tab EXCEPT ![t] = SignedOut(tb)]
              /\ flow' = [flow EXCEPT ![t][k] = NoFlow]
           \/ /\ s # NoAccount /\ ~NeedsInventory(tb, s, f.must)
              /\ tab' = [tab EXCEPT ![t] = next]
              /\ flow' = [flow EXCEPT ![t][k] = NoFlow]
           \/ /\ s # NoAccount /\ NeedsInventory(tb, s, f.must) /\ joins
              /\ tab' = [tab EXCEPT ![t] = next]
              /\ flow' = [flow EXCEPT ![t][k] = LoadFlow(f, "join", s)]
           \/ /\ s # NoAccount /\ NeedsInventory(tb, s, f.must) /\ ~joins
              /\ tab' = [tab EXCEPT ![t] = Started(next, k, s)]
              /\ flow' = [flow EXCEPT ![t][k] = LoadFlow(f, "except", s)]
        /\ UNCHANGED <<cookie, db, gem, logout, fetched, history>>

\* The session service fails: only the mount effect and Retry show it.
SessionFails(t, k) ==
    /\ flow[t][k].pc = "asking"
    /\ tab' = IF k = "mount" THEN [tab EXCEPT ![t].view = "down"] ELSE tab
    /\ flow' = [flow EXCEPT ![t][k] = NoFlow]
    /\ UNCHANGED <<cookie, db, gem, logout, fetched, history>>
-----------------------------------------------------------------------------
(* Loads: the body of loadInventoryForUser.                                *)

\* isCurrentInventoryRequest.
Current(t, k) == tab[t].load = k

\* Fault: a changed session is asked for again without end.
ContinuedForever(f, result) ==
    IF result = "changed" THEN Asking(f.asks - 1, TRUE) ELSE NoFlow

\* What the result of a load makes of the coroutine that awaited it: a changed
\* session is asked for again while asks remain.
Continued(f, result) ==
    IF result = "changed" /\ f.asks > 0 THEN Asking(f.asks - 1, TRUE) ELSE NoFlow

\* The load of k ends with a result, for k and for a coroutine that joined it.
Settle(t, k, result) ==
    flow' = [flow EXCEPT ![t] = [j \in Kinds |->
        IF j = k \/ flow[t][j].pc = "join" THEN Continued(flow[t][j], result)
        ELSE flow[t][j]]]

Ends(t, k, tb, result) ==
    /\ tab' = [tab EXCEPT ![t] = [tb EXCEPT !.loading = FALSE, !.load = NoLoad]]
    /\ Settle(t, k, result)

\* A load that has lost its token ends without touching the state.
Superseded(t, k) == ~Current(t, k) /\ UNCHANGED tab /\ Settle(t, k, "error")

Proceed(t, k, f) == flow' = [flow EXCEPT ![t][k] = f] /\ UNCHANGED tab

Show(tb, inv, at) == [tb EXCEPT !.shown = [inv |-> inv, at |-> at]]

\* clearInventoryCacheExcept.
Excepted(d, a) ==
    LET moved == d.active \notin {NoAccount, a}
                 \/ \E b \in Accounts \ {a} : d.record[b] # NoRecord
    IN  [epoch |-> IF moved THEN d.epoch + 1 ELSE d.epoch,
         active |-> a,
         record |-> [b \in Accounts |-> IF b = a THEN d.record[a] ELSE NoRecord]]

ClearExcept(t, k) ==
    LET f == flow[t][k]
    IN  /\ f.pc = "except"
        /\ \E ok \in Outcomes :
              /\ db' = IF ok THEN Excepted(db, f.acct) ELSE db
              /\ since' = IF ok /\ f.acct = cookie THEN "claimed" ELSE since
        /\ \/ Current(t, k) /\ Proceed(t, k, [f EXCEPT !.pc = "read"])
           \/ Superseded(t, k)
        /\ UNCHANGED <<cookie, gem, logout, fetched, signIns>>

\* readInventoryCache: an incompatible record is deleted and the epoch advanced.
ReadCache(t, k) ==
    LET f == flow[t][k]
        old == db.record[f.acct]
    IN  /\ f.pc = "read"
        /\ \E ok \in Outcomes :
              /\ db' = IF ok /\ old = Corrupt
                       THEN [db EXCEPT !.epoch = @ + 1, !.record[f.acct] = NoRecord] ELSE db
              /\ \/ /\ Current(t, k) /\ ok /\ old \notin {NoRecord, Corrupt}
                    /\ Ends(t, k, Show(tab[t], old.inv, old.at), "cache")
                 \/ /\ Current(t, k) /\ (~ok \/ old \in {NoRecord, Corrupt})
                    /\ Proceed(t, k, [f EXCEPT !.pc = "epoch"])
                 \/ Superseded(t, k)
        /\ UNCHANGED <<cookie, gem, logout, fetched, history>>

\* readInventoryCacheEpoch.
ReadEpoch(t, k) ==
    LET f == flow[t][k]
    IN  /\ f.pc = "epoch"
        /\ \E ok \in Outcomes :
              Proceed(t, k, [f EXCEPT !.pc = "send",
                                      !.epoch = IF ok THEN db.epoch ELSE NoEpoch])
        /\ UNCHANGED <<cookie, db, gem, logout, fetched, history>>

\* Fault: the route does not compare the session with the expected account.
ServedUnchecked(expected) == cookie

\* The inventory route serves the account of the cookie when it is the expected
\* one, and answers 401 to anything else.
Served(expected) == IF cookie = expected THEN cookie ELSE NoAccount

SendInventory(t, k) ==
    LET f == flow[t][k]
    IN  /\ f.pc = "send"
        /\ Proceed(t, k, [f EXCEPT !.pc = "fetch", !.served = Served(f.acct)])
        /\ UNCHANGED <<cookie, db, gem, logout, fetched, history>>

\* Fault: the loading flag of a refused load is not taken down.
RefusedLoading(t, k) ==
    /\ Current(t, k)
    /\ tab' = [tab EXCEPT ![t].load = NoLoad]
    /\ Settle(t, k, "changed")

\* A 401 leaves the state but for the loading flag, and says the session changed.
Refused(t, k) == Current(t, k) /\ Ends(t, k, tab[t], "changed")

\* Fault: an unavailable answer is shown whatever the tab shows.
UnavailableShown(tb, a) == Show(tb, [owner |-> a, id |-> Unavailable], NoStamp)

\* An unavailable answer never replaces an inventory that is shown.
WithUnavailable(tb, a) ==
    IF Good(tb.shown) THEN tb
    ELSE Show(tb, [owner |-> a, id |-> Unavailable], NoStamp)

\* The response of the inventory route, or its loss.
Arrive(t, k) ==
    LET f == flow[t][k]
        new == fetched + 1
    IN  /\ f.pc = "fetch"
        /\ \/ /\ f.served = NoAccount
              /\ Refused(t, k) \/ Superseded(t, k)
              /\ UNCHANGED fetched
           \/ /\ Current(t, k) /\ Ends(t, k, tab[t], "error")
              /\ UNCHANGED fetched
           \/ /\ f.served # NoAccount
              /\ \/ Current(t, k) /\ Ends(t, k, WithUnavailable(tab[t], f.served), "network")
                 \/ Superseded(t, k)
              /\ UNCHANGED fetched
           \/ /\ f.served # NoAccount /\ Current(t, k)
              /\ fetched < MaxFetch
              /\ fetched' = new
              /\ IF f.epoch = NoEpoch
                 THEN Ends(t, k, Show(tab[t], [owner |-> f.served, id |-> new], new), "network")
                 ELSE Proceed(t, k, [f EXCEPT !.pc = "write", !.id = new])
        /\ UNCHANGED <<cookie, db, gem, logout, history>>

\* writeInventoryCache with an expected epoch; a mismatch says the session changed.
WriteCache(t, k) ==
    LET f == flow[t][k]
        inv == [owner |-> f.served, id |-> f.id]
    IN  /\ f.pc = "write"
        /\ \E ok \in Outcomes :
              /\ db' = IF ok /\ db.epoch = f.epoch
                       THEN [db EXCEPT !.record[f.acct] = [inv |-> inv, at |-> f.id]] ELSE db
              /\ \/ /\ Current(t, k) /\ ok /\ db.epoch # f.epoch
                    /\ Ends(t, k, tab[t], "changed")
                 \/ /\ Current(t, k) /\ (~ok \/ db.epoch = f.epoch)
                    /\ Ends(t, k, Show(tab[t], inv, f.id), "network")
                 \/ Superseded(t, k)
        /\ UNCHANGED <<cookie, gem, logout, fetched, history>>
-----------------------------------------------------------------------------
(* handleGemRefresh.                                                       *)

GemStart(t) ==
    /\ "gem" \in Abilities[t]
    /\ Idle(t)
    /\ Good(tab[t].shown)
    /\ tab[t].active # NoAccount
    /\ gem' = [gem EXCEPT ![t] = [NoGem EXCEPT !.pc = "epoch", !.acct = tab[t].active,
                                               !.base = tab[t].shown.inv]]
    /\ UNCHANGED <<cookie, db, tab, flow, logout, fetched, history>>

GemEpoch(t) ==
    /\ gem[t].pc = "epoch"
    /\ \E ok \in Outcomes :
          gem' = [gem EXCEPT ![t].pc = "send",
                             ![t].epoch = IF ok THEN db.epoch ELSE NoEpoch]
    /\ UNCHANGED <<cookie, db, tab, flow, logout, fetched, history>>

\* The gem route serves any session: gem yields belong to nobody.
GemSend(t) ==
    /\ gem[t].pc = "send"
    /\ gem' = [gem EXCEPT ![t].pc = "asking", ![t].allowed = cookie # NoAccount]
    /\ UNCHANGED <<cookie, db, tab, flow, logout, fetched, history>>

\* ...currentState with the merged inventory in place of its own.
Merged(tb, g) ==
    [tb EXCEPT !.shown = [inv |-> g.base, at |-> g.held.at], !.loading = FALSE]

\* The yields are merged into the inventory the refresh began with; the stamp is
\* the one of the inventory shown now.
GemArrive(t) ==
    LET g == gem[t]
        shown == tab[t].shown
        storable == g.epoch # NoEpoch /\ shown # Nothing /\ shown.at # NoStamp
    IN  /\ g.pc = "asking"
        /\ \/ /\ ~g.allowed \/ tab[t].active # g.acct \/ shown = Nothing
              /\ gem' = [gem EXCEPT ![t] = NoGem]
              /\ UNCHANGED tab
           \/ /\ g.allowed /\ tab[t].active = g.acct /\ shown # Nothing /\ storable
              /\ gem' = [gem EXCEPT ![t].pc = "write", ![t].held = shown]
              /\ UNCHANGED tab
           \/ /\ g.allowed /\ tab[t].active = g.acct /\ shown # Nothing /\ ~storable
              /\ gem' = [gem EXCEPT ![t] = NoGem]
              /\ tab' = [tab EXCEPT ![t] = Merged(tab[t], [g EXCEPT !.held = shown])]
        /\ UNCHANGED <<cookie, db, flow, logout, fetched, history>>

GemFails(t) ==
    /\ gem[t].pc = "asking"
    /\ gem' = [gem EXCEPT ![t] = NoGem]
    /\ UNCHANGED <<cookie, db, tab, flow, logout, fetched, history>>

\* writeInventoryCache with an expected epoch and an expected refreshed_at.
GemWrite(t) ==
    LET g == gem[t]
        old == db.record[g.acct]
        matches == /\ db.epoch = g.epoch
                   /\ old \notin {NoRecord, Corrupt} /\ old.at = g.held.at
    IN  /\ g.pc = "write"
        /\ \E ok \in Outcomes :
              /\ db' = IF ok /\ matches
                       THEN [db EXCEPT !.record[g.acct] = [inv |-> g.base, at |-> g.held.at]]
                       ELSE db
              /\ tab' = IF tab[t].active = g.acct /\ (~ok \/ matches)
                        THEN [tab EXCEPT ![t] = Merged(tab[t], g)] ELSE tab
        /\ gem' = [gem EXCEPT ![t] = NoGem]
        /\ UNCHANGED <<cookie, flow, logout, fetched, history>>
-----------------------------------------------------------------------------
(* handleLogout.                                                           *)

LogoutStart(t) ==
    /\ "logout" \in Abilities[t]
    /\ Idle(t)
    /\ logout' = [logout EXCEPT ![t] = "posting"]
    /\ UNCHANGED <<cookie, db, tab, flow, gem, fetched, history>>

LogoutFails(t) ==
    /\ logout[t] = "posting"
    /\ logout' = [logout EXCEPT ![t] = "none"]
    /\ UNCHANGED <<cookie, db, tab, flow, gem, fetched, history>>

\* The 204 takes the cookie away and every running load loses its token.
LogoutArrives(t) ==
    /\ logout[t] = "posting"
    /\ logout' = [logout EXCEPT ![t] = "clearing"]
    /\ cookie' = NoAccount
    /\ tab' = [tab EXCEPT ![t].active = NoAccount, ![t].load = NoLoad]
    /\ UNCHANGED <<db, flow, gem, fetched, history>>

\* Fault: the epoch is not advanced.
EmptiedQuietly(d) == [d EXCEPT !.active = NoAccount, !.record = [a \in Accounts |-> NoRecord]]

\* clearInventoryCache.
Emptied(d) == [epoch |-> d.epoch + 1, active |-> NoAccount,
               record |-> [a \in Accounts |-> NoRecord]]

LogoutClears(t) ==
    /\ logout[t] = "clearing"
    /\ logout' = [logout EXCEPT ![t] = "none"]
    /\ \E ok \in Outcomes :
          /\ db' = IF ok THEN Emptied(db) ELSE db
          /\ since' = IF ok /\ cookie = NoAccount THEN "emptied" ELSE since
    /\ tab' = [tab EXCEPT ![t] = [Cleared(tab[t]) EXCEPT !.view = "out", !.user = NoAccount]]
    /\ UNCHANGED <<cookie, flow, gem, fetched, signIns>>
-----------------------------------------------------------------------------
LoadStep(t, k) ==
    \/ ClearExcept(t, k) \/ ReadCache(t, k) \/ ReadEpoch(t, k)
    \/ SendInventory(t, k) \/ Arrive(t, k) \/ WriteCache(t, k)

FlowStep(t, k) == Present(t, k) \/ SessionFails(t, k) \/ LoadStep(t, k)

GemStep(t) == GemEpoch(t) \/ GemSend(t) \/ GemArrive(t) \/ GemFails(t) \/ GemWrite(t)

LogoutStep(t) == LogoutFails(t) \/ LogoutArrives(t) \/ LogoutClears(t)

User(t) ==
    \/ Open(t) \/ Leave(t) \/ Retry(t) \/ Recheck(t) \/ Refresh(t)
    \/ GemStart(t) \/ LogoutStart(t)

Next ==
    \/ \E a \in Accounts : SignIn(a)
    \/ Expire
    \/ \E t \in Tabs : User(t) \/ GemStep(t) \/ LogoutStep(t)
    \/ \E t \in Tabs, k \in Kinds : FlowStep(t, k)

Spec == Init /\ [][Next]_vars

\* Transactions complete and responses arrive or fail.
LiveSpec ==
    /\ Spec
    /\ \A t \in Tabs, k \in Kinds : WF_vars(FlowStep(t, k))
    /\ \A t \in Tabs : WF_vars(GemStep(t)) /\ WF_vars(LogoutStep(t))
-----------------------------------------------------------------------------
Flow == [pc : {"none", "asking", "join"} \union Loading, asks : 0..2, must : BOOLEAN,
         sess : Accounts \union {NoAccount}, acct : Accounts \union {NoAccount},
         epoch : Nat \union {NoEpoch}, served : Accounts \union {NoAccount},
         id : 0..MaxFetch]
Gem == [pc : {"none", "epoch", "send", "asking", "write"},
        acct : Accounts \union {NoAccount}, base : Inventory \union {Nothing},
        epoch : Nat \union {NoEpoch}, allowed : BOOLEAN, held : Shown \union {Nothing}]
Tab == [view : {"away", "loading", "out", "in", "down"}, user : Accounts \union {NoAccount},
        active : Accounts \union {NoAccount}, shown : Shown \union {Nothing},
        loading : BOOLEAN, load : Kinds \union {NoLoad}]

\* Every variable has its type.
TypeOK ==
    /\ cookie \in Accounts \union {NoAccount}
    /\ db \in [epoch : Nat, active : Accounts \union {NoAccount},
               record : [Accounts -> Record \union {NoRecord, Corrupt}]]
    /\ tab \in [Tabs -> Tab]
    /\ flow \in [Tabs -> [Kinds -> Flow]]
    /\ gem \in [Tabs -> Gem]
    /\ logout \in [Tabs -> {"none", "posting", "clearing"}]
    /\ fetched \in 1..MaxFetch /\ signIns \in 0..MaxSignIns
    /\ since \in {"nothing", "emptied", "claimed"}

\* The signed-in view never shows one account's inventory under another's name,
\* whatever answers, cache reads and gem merges are still on their way.
ShownIsViewed ==
    \A t \in Tabs : tab[t].view = "in" /\ tab[t].shown # Nothing =>
        tab[t].shown.inv.owner = tab[t].user

\* A record filed under an account holds that account's inventory, although the
\* cookie can change hands between the request and its answer.
RecordsOwn ==
    \A a \in Accounts : db.record[a] \notin {NoRecord, Corrupt} => db.record[a].inv.owner = a

\* Once a logout has cleared the cache it stays empty until somebody signs in: no
\* load or gem refresh of any tab that was under way puts a record back.
NothingKept == since = "emptied" => \A a \in Accounts : db.record[a] = NoRecord

\* Once the cache has been pruned for the account that is signed in now, no older
\* request puts a record of another account back.
PriorAccountsStayOut ==
    [][\A a \in Accounts :
          db'.record[a] \notin {NoRecord, db.record[a]} =>
              ~(since = "claimed" /\ cookie \notin {a, NoAccount})]_vars

\* The inventory filed under a refreshed_at is the one fetched then: a gem refresh
\* that has become stale loses to a newer cached inventory.
StampsTrue ==
    \A a \in Accounts : db.record[a] \notin {NoRecord, Corrupt} =>
        db.record[a].at = db.record[a].inv.id

\* A tab that has said "signed out" does not show the signed-in view again by
\* itself: its user signs in first, which loads the page anew.
SignedOutStays == [][\A t \in Tabs : tab[t].view = "out" => tab'[t].view # "in"]_vars

\* A transient unavailable answer never takes the place of an inventory on show.
GoodKept ==
    [][\A t \in Tabs : Good(tab[t].shown) /\ tab'[t].shown # Nothing => Good(tab'[t].shown)]_vars

\* A tab that says it is loading stops saying so, although its load may lose its
\* token to another load, to a logout or to a session that has ended.
LoadingEnds == \A t \in Tabs : tab[t].loading ~> ~tab[t].loading
=============================================================================
