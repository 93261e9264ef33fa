------------------------- MODULE BadgeArtworkProofs -------------------------
(***************************************************************************)
(* For any games, donors, capacity, cooldown and number of requests at     *)
(* once: the cache keeps its bound and one entry per game, and after a 429 *)
(* no page is asked for until the cooldown is over.                        *)
(***************************************************************************)
EXTENDS BadgeArtwork, LimiterProofs

OnePerGame(s) == \A i, j \in DOMAIN s : s[i].app = s[j].app => i = j

\* A call that is with the limiter walks the donors for a game.
WalkOK == \A c \in Calls : at[c] # "out" => call[c].app \in Apps /\ call[c].donor \in 1..Donors

\* During the cooldown nobody has gone past the lock, and whoever waits for it
\* finds the circuit open.
CoolOK ==
    cool > 0 => /\ \A c \in Calls : at[c] \in {"out", "line"}
                /\ circuit["artwork"] = 0 => \A c \in Calls : at[c] = "out"

ArtworkInv == TypeOK /\ LimiterInv /\ CacheBounded /\ WalkOK /\ CoolOK
-----------------------------------------------------------------------------
\* The cache as a sequence of entries, one per game.

LEMMA ForgetKeeps ==
    ASSUME art \in Seq(Entry), OnePerGame(art), Len(art) <= Capacity, NEW app
    PROVE  /\ Forget(app) \in Seq(Entry) /\ OnePerGame(Forget(app))
           /\ Len(Forget(app)) <= Capacity
<1>1. CASE EntriesOf(app) = {}
  <2>1. Forget(app) = art
    BY <1>1 DEF Forget, RemoveFirstMatch, EntriesOf
  <2> QED BY <2>1
<1>2. CASE EntriesOf(app) # {}
  <2> DEFINE I == {i \in 1..Len(art) : art[i].app = app}
  <2>1. PICK i \in 1..Len(art) : art[i].app = app
    BY <1>2 DEF EntriesOf
  <2>2. I = {i}
    BY <2>1 DEF OnePerGame
  <2>3. Min(I) = i
    BY <2>2 DEF Min
  <2>4. SelectInSeq(art, LAMBDA e : e.app = app) = i
    BY <2>2, <2>3 DEF SelectInSeq
  <2>5. Forget(app) = RemoveAt(art, i)
    BY <2>1, <2>4 DEF Forget, RemoveFirstMatch
  <2> DEFINE t == RemoveAt(art, i)
  <2>6. /\ t \in Seq(Entry) /\ Len(t) = Len(art) - 1
        /\ \A j \in 1..Len(art) - 1 : t[j] = IF j < i THEN art[j] ELSE art[j + 1]
    BY RemoveAtIs
  <2>7. DOMAIN t = 1..Len(art) - 1 /\ DOMAIN art = 1..Len(art)
    BY <2>6
  <2> HIDE DEF t
  <2>8. Len(t) <= Capacity
    BY <2>6, ArtworkAssumption
  <2>9. OnePerGame(t)
    <3> SUFFICES ASSUME NEW j \in 1..Len(art) - 1, NEW k \in 1..Len(art) - 1, t[j].app = t[k].app
                 PROVE  j = k
      BY <2>7 DEF OnePerGame
    <3> DEFINE J == IF j < i THEN j ELSE j + 1
               K == IF k < i THEN k ELSE k + 1
    <3>1. J \in DOMAIN art /\ K \in DOMAIN art /\ t[j] = art[J] /\ t[k] = art[K]
      BY <2>6, <2>7
    <3>2. J = K
      BY <3>1 DEF OnePerGame
    <3> QED BY <3>2
  <2> QED BY <2>5, <2>6, <2>8, <2>9 DEF t
<1> QED
  BY <1>1, <1>2

\* An entry of a game that has none goes to the end; the oldest one makes room.
LEMMA StoreKeeps ==
    ASSUME art \in Seq(Entry), OnePerGame(art), Len(art) <= Capacity,
           NEW app \in Apps, NEW status \in {"ready", "unavailable"}, Store(app, status)
    PROVE  art' \in Seq(Entry) /\ OnePerGame(art') /\ Len(art') <= Capacity
<1> DEFINE entry == [app |-> app, status |-> status, fresh |-> TRUE]
<1>1. entry \in Entry /\ entry.app = app
  BY DEF Entry
<1>2. Len(art) \in Nat /\ DOMAIN art = 1..Len(art) /\ Capacity \in Nat /\ Capacity >= 1
      /\ \A i \in 1..Len(art) : art[i] \in Entry
  BY ArtworkAssumption
<1>3. CASE EntriesOf(app) = {}
  <2> DEFINE s == Append(art, entry)
  <2>1. art' = Trim(s)
    BY <1>3 DEF Store
  <2> HIDE DEF entry
  <2>2. /\ s \in Seq(Entry) /\ Len(s) = Len(art) + 1 /\ DOMAIN s = 1..Len(art) + 1
        /\ \A i \in 1..Len(art) : s[i] = art[i]
        /\ s[Len(art) + 1] = entry
    BY <1>1
  <2> HIDE DEF s
  <2>3. \A i \in 1..Len(art) : art[i].app # app
    BY <1>2, <1>3 DEF EntriesOf
  <2>4. OnePerGame(s)
    BY <1>1, <1>2, <2>2, <2>3 DEF OnePerGame
  <2>5. CASE Len(s) > Capacity
    <3>1. art' = Tail(s)
      BY <2>1, <2>5 DEF Trim
    <3>2. /\ Tail(s) \in Seq(Entry) /\ Len(Tail(s)) = Len(art) /\ DOMAIN Tail(s) = 1..Len(art)
          /\ \A i \in 1..Len(art) : Tail(s)[i] = s[i + 1]
      BY <1>2, <2>2, HeadTailProperties
    <3> DEFINE t == Tail(s)
    <3> HIDE DEF t
    <3>3. OnePerGame(t)
      BY <1>2, <2>2, <2>4, <3>2 DEF OnePerGame, t
    <3> QED BY <3>1, <3>2, <3>3 DEF t
  <2>6. CASE ~(Len(s) > Capacity)
    <3>1. art' = s
      BY <2>1, <2>6 DEF Trim
    <3> QED BY <1>2, <2>2, <2>4, <2>6, <3>1
  <2> QED BY <2>5, <2>6
<1>4. CASE EntriesOf(app) # {}
  <2>1. art' = [i \in DOMAIN art |-> IF art[i].app = app THEN entry ELSE art[i]]
    BY <1>4 DEF Store
  <2> HIDE DEF entry
  <2>2. art' \in [1..Len(art) -> Entry] /\ DOMAIN art' = DOMAIN art
    BY <1>1, <1>2, <2>1
  <2>3. art' \in Seq(Entry) /\ Len(art') = Len(art)
    BY <1>2, <2>2
  <2>4. \A i \in DOMAIN art : art'[i].app = art[i].app
    BY <1>1, <2>1
  <2>5. OnePerGame(art')
    BY <2>2, <2>4 DEF OnePerGame
  <2> QED BY <2>3, <2>5
<1> QED
  BY <1>3, <1>4

LEMMA ExpireKeeps ==
    ASSUME art \in Seq(Entry), OnePerGame(art), Len(art) <= Capacity, NEW app, Expire(app)
    PROVE  art' \in Seq(Entry) /\ OnePerGame(art') /\ Len(art') <= Capacity
<1>1. Len(art) \in Nat /\ DOMAIN art = 1..Len(art) /\ \A i \in 1..Len(art) : art[i] \in Entry
  OBVIOUS
<1>2. \A e \in Entry : [e EXCEPT !.fresh = FALSE] \in Entry /\ [e EXCEPT !.fresh = FALSE].app = e.app
  BY DEF Entry
<1>3. art' = [i \in DOMAIN art |->
                  IF art[i].app = app THEN [art[i] EXCEPT !.fresh = FALSE] ELSE art[i]]
  BY DEF Expire
<1>4. \A i \in DOMAIN art : art'[i] \in Entry /\ art'[i].app = art[i].app
  BY <1>1, <1>2, <1>3
<1>5. art' \in [1..Len(art) -> Entry] /\ DOMAIN art' = DOMAIN art
  BY <1>1, <1>3, <1>4
<1>6. art' \in Seq(Entry) /\ Len(art') = Len(art)
  BY <1>1, <1>5
<1>7. OnePerGame(art')
  BY <1>4, <1>5 DEF OnePerGame
<1> QED
  BY <1>6, <1>7
-----------------------------------------------------------------------------
LEMMA CallersAre ==
    /\ \A c \in Calls : c \in Actors /\ LimiterOf(c) = "artwork"
    /\ "artwork" \in Limiters
BY LimiterAssumption DEF Actors, LimiterOf, Limiters

LEMMA OfCall ==
    ASSUME ArtworkInv, NEW c \in Calls
    PROVE  /\ c \in Actors /\ at[c] \in {"out", "line", "pacing", "wire"}
           /\ call[c] \in [app : Apps \union {NoApp}, donor : 0..Donors]
           /\ at[c] # "out" => call[c].app \in Apps /\ call[c].donor \in 1..Donors
BY CallersAre DEF ArtworkInv, TypeOK, LimiterInv, LimiterTypeOK, WalkOK

LEMMA CacheIs ==
    ASSUME ArtworkInv
    PROVE  art \in Seq(Entry) /\ OnePerGame(art) /\ Len(art) <= Capacity
BY DEF ArtworkInv, TypeOK, CacheBounded, OnePerGame

LEMMA BoundedIs ==
    ASSUME OnePerGame(art'), Len(art') <= Capacity
    PROVE  CacheBounded'
BY DEF CacheBounded, OnePerGame

\* A step of one call leaves the walks of the others as they were.
LEMMA OneCall ==
    ASSUME ArtworkInv, NEW c \in Calls, LimiterInv',
           call' \in [Calls -> [app : Apps \union {NoApp}, donor : 0..Donors]],
           art' \in Seq(Entry), OnePerGame(art'), Len(art') <= Capacity,
           cool' \in 0..Cooldown, CoolOK',
           \A d \in Calls : d # c => call'[d] = call[d] /\ at'[d] = at[d],
           at'[c] # "out" => call'[c].app \in Apps /\ call'[c].donor \in 1..Donors
    PROVE  ArtworkInv'
<1>1. TypeOK'
  BY DEF TypeOK, LimiterInv
<1>2. WalkOK'
  BY DEF ArtworkInv, WalkOK
<1> QED
  BY <1>1, <1>2, BoundedIs DEF ArtworkInv

LEMMA Moves ==
    ASSUME ArtworkInv, NEW c \in Calls
    PROVE  /\ Leave(c) => at'[c] = "out" /\ \A d \in Calls : d # c => at'[d] = at[d]
           /\ Join(c) \/ JoinAgain(c) =>
                 at'[c] = "line" /\ \A d \in Calls : d # c => at'[d] = at[d]
BY CallersAre DEF ArtworkInv, LimiterInv, LimiterTypeOK, Leave, Join, JoinAgain

\* A call leaves and the clocks stay: the cooldown's condition stays too.
LEMMA CoolLeft ==
    ASSUME ArtworkInv, NEW c \in Calls, Leave(c), UNCHANGED <<cool, circuit>>
    PROVE  CoolOK'
BY Moves DEF ArtworkInv, CoolOK

\* A call whose walk ends: its record is cleared and it leaves the line.
LEMMA EndKeeps ==
    ASSUME ArtworkInv, NEW c \in Calls, Leave(c), LimiterInv',
           call' = [call EXCEPT ![c] = NoCall],
           art' \in Seq(Entry), OnePerGame(art'), Len(art') <= Capacity,
           cool' \in 0..Cooldown, CoolOK'
    PROVE  ArtworkInv'
<1>1. NoCall \in [app : Apps \union {NoApp}, donor : 0..Donors]
  BY ArtworkAssumption DEF NoCall
<1>2. call' \in [Calls -> [app : Apps \union {NoApp}, donor : 0..Donors]]
  BY <1>1 DEF ArtworkInv, TypeOK
<1>3. \A d \in Calls : d # c => call'[d] = call[d]
  BY DEF ArtworkInv, TypeOK
<1> QED
  BY <1>2, <1>3, Moves, OneCall
-----------------------------------------------------------------------------
LEMMA InitInv == Init => ArtworkInv
<1> SUFFICES ASSUME Init PROVE ArtworkInv
  OBVIOUS
<1>1. LimiterInv /\ cool = 0 /\ art = <<>>
  BY LimiterInitInv DEF Init
<1>2. TypeOK
  BY <1>1, ArtworkAssumption DEF Init, TypeOK, LimiterInv, NoCall
<1>3. CacheBounded
  BY <1>1, ArtworkAssumption DEF CacheBounded
<1>4. WalkOK
  BY CallersAre DEF Init, LimiterInit, WalkOK
<1>5. CoolOK
  BY <1>1 DEF CoolOK
<1> QED
  BY <1>1, <1>2, <1>3, <1>4, <1>5 DEF ArtworkInv

LEMMA AskInv ==
    ASSUME ArtworkInv, NEW c \in Calls, NEW app \in Apps, Ask(c, app)
    PROVE  ArtworkInv'
<1>1. /\ at[c] = "out" /\ cool = 0 /\ Join(c) /\ art' = Forget(app)
      /\ UNCHANGED <<pause, gap, circuit, throttled, cool>>
      /\ call' = [call EXCEPT ![c] = [app |-> app, donor |-> 1]]
  BY DEF Ask, AskAnyway
<1>2. LimiterInv'
  BY <1>1, JoinStep, CallersAre DEF ArtworkInv
<1>3. art' \in Seq(Entry) /\ OnePerGame(art') /\ Len(art') <= Capacity
  BY <1>1, ForgetKeeps, CacheIs
<1>4. 1 \in 1..Donors /\ 1 \in 0..Donors
  BY ArtworkAssumption
<1>5. call' \in [Calls -> [app : Apps \union {NoApp}, donor : 0..Donors]]
  BY <1>1, <1>4 DEF ArtworkInv, TypeOK
<1>6. /\ call'[c].app = app /\ call'[c].donor = 1
      /\ \A d \in Calls : d # c => call'[d] = call[d]
  BY <1>1 DEF ArtworkInv, TypeOK
<1>7. CoolOK' /\ cool' \in 0..Cooldown
  BY <1>1 DEF ArtworkInv, TypeOK, CoolOK
<1>8. \A d \in Calls : d # c => at'[d] = at[d]
  BY <1>1, Moves
<1> QED
  BY <1>2, <1>3, <1>4, <1>5, <1>6, <1>7, <1>8, OneCall

\* Only the cache changes.
LEMMA CacheAlone ==
    ASSUME ArtworkInv, UNCHANGED <<limiterVars, call, cool>>,
           art' \in Seq(Entry), OnePerGame(art'), Len(art') <= Capacity
    PROVE  ArtworkInv'
<1>1. LimiterInv'
  BY DEF ArtworkInv, LimiterInv, LimiterTypeOK, LineInv, PacingInv, limiterVars, Holds
<1>2. TypeOK'
  BY <1>1 DEF ArtworkInv, TypeOK, LimiterInv
<1>3. WalkOK' /\ CoolOK'
  BY DEF ArtworkInv, WalkOK, CoolOK, limiterVars
<1> QED
  BY <1>1, <1>2, <1>3, BoundedIs DEF ArtworkInv

LEMMA CooledInv ==
    ASSUME ArtworkInv, NEW c \in Calls, NEW app \in Apps, Cooled(c, app)
    PROVE  ArtworkInv'
BY CacheIs, ForgetKeeps, CacheAlone DEF Cooled

LEMMA ExpireInv ==
    ASSUME ArtworkInv, NEW app \in Apps, Expire(app)
    PROVE  ArtworkInv'
BY CacheIs, ExpireKeeps, CacheAlone DEF Expire

\* The three ways a walk ends with an answer or none.
LEMMA AnswerInv ==
    ASSUME ArtworkInv, NEW c \in Calls, Shows(c) \/ NobodyShows(c) \/ Sick(c)
    PROVE  ArtworkInv'
<1>1. /\ at[c] = "wire" /\ Leave(c) /\ call' = [call EXCEPT ![c] = NoCall]
      /\ UNCHANGED <<pause, gap, circuit, throttled, cool>>
  BY DEF Shows, NobodyShows, Sick, End
<1>2. LimiterInv'
  BY <1>1, LeaveStep, CallersAre DEF ArtworkInv
<1>3. call[c].app \in Apps
  BY <1>1, OfCall
<1>4. art' \in Seq(Entry) /\ OnePerGame(art') /\ Len(art') <= Capacity
  <2>1. CASE Shows(c)
    BY <2>1, <1>3, CacheIs, StoreKeeps DEF Shows
  <2>2. CASE NobodyShows(c)
    BY <2>2, <1>3, CacheIs, StoreKeeps DEF NobodyShows
  <2>3. CASE Sick(c)
    BY <2>3, CacheIs DEF Sick
  <2> QED BY <2>1, <2>2, <2>3
<1>5. CoolOK' /\ cool' \in 0..Cooldown
  BY <1>1, CoolLeft DEF ArtworkInv, TypeOK
<1> QED
  BY <1>1, <1>2, <1>4, <1>5, EndKeeps

LEMMA RefuseInv ==
    ASSUME ArtworkInv, NEW c \in Calls, Refuse(c)
    PROVE  ArtworkInv'
<1>1. /\ Refused(c) /\ Leave(c) /\ call' = [call EXCEPT ![c] = NoCall]
      /\ UNCHANGED <<circuit, art, cool>>
  BY DEF Refuse, Refused
<1>2. LimiterInv'
  BY <1>1, RefusedStep, CallersAre DEF ArtworkInv
<1>3. CoolOK' /\ cool' \in 0..Cooldown
  BY <1>1, CoolLeft DEF ArtworkInv, TypeOK
<1> QED
  BY <1>1, <1>2, <1>3, CacheIs, EndKeeps

LEMMA NextDonorInv ==
    ASSUME ArtworkInv, NEW c \in Calls, NextDonor(c)
    PROVE  ArtworkInv'
<1>1. /\ at[c] = "wire" /\ call[c].donor < Donors /\ JoinAgain(c)
      /\ UNCHANGED <<pause, gap, circuit, throttled, art, cool>>
  BY DEF NextDonor
<1>2. LimiterInv'
  BY <1>1, JoinAgainStep, CallersAre DEF ArtworkInv
<1>3. PICK n : n = call[c].donor + 1
  OBVIOUS
<1>4. n \in 1..Donors /\ call[c].app \in Apps
  BY <1>1, <1>3, OfCall, ArtworkAssumption
<1>5. PICK own : own = [call[c] EXCEPT !.donor = n]
  OBVIOUS
<1>6. own \in [app : Apps \union {NoApp}, donor : 0..Donors] /\ own.app = call[c].app /\ own.donor = n
  BY <1>4, <1>5, OfCall
<1>7. call' = [call EXCEPT ![c] = own]
  BY <1>3, <1>5 DEF NextDonor
<1>8. call' \in [Calls -> [app : Apps \union {NoApp}, donor : 0..Donors]]
  BY <1>6, <1>7 DEF ArtworkInv, TypeOK
<1>9. call'[c] = own /\ \A d \in Calls : d # c => call'[d] = call[d]
  BY <1>7 DEF ArtworkInv, TypeOK
<1>10. \A d \in Calls : d # c => at'[d] = at[d]
  BY <1>1, Moves
<1>11. CoolOK' /\ cool' \in 0..Cooldown
  BY <1>1 DEF ArtworkInv, TypeOK, CoolOK
<1> QED
  BY <1>1, <1>2, <1>4, <1>6, <1>8, <1>9, <1>10, <1>11, CacheIs, OneCall

\* The cooldown begins: the others of the line wait for the lock, with the circuit open.
LEMMA TooManyInv ==
    ASSUME ArtworkInv, NEW c \in Calls, TooMany(c)
    PROVE  ArtworkInv'
<1>1. PICK after \in RetryAfter : Throttle(c, IF after > Interval THEN after ELSE Interval)
  BY DEF TooMany
<1>2. PICK delay : delay = IF after > Interval THEN after ELSE Interval
  OBVIOUS
<1>3. delay \in 1..MaxCircuit /\ delay \in 0..MaxCircuit
  BY <1>2, LimiterAssumption, ArtworkAssumption
<1>4. Throttle(c, delay)
  BY <1>1, <1>2
<1>5. LimiterInv' /\ Leave(c) /\ at[c] = "wire"
  BY <1>3, <1>4, ThrottleStep, CallersAre DEF ArtworkInv, Throttle
<1>6. call' = [call EXCEPT ![c] = NoCall] /\ UNCHANGED art /\ cool' \in 0..Cooldown
  BY ArtworkAssumption DEF TooMany
<1>7. \A d \in Calls : d # c => at[d] \in {"out", "line"}
  <2>1. Serialised
    BY SerialisedHolds DEF ArtworkInv, LimiterInv
  <2> QED BY <1>5, <2>1, OfCall, CallersAre DEF Serialised
<1>8. circuit'["artwork"] # 0
  BY <1>3, <1>4, CallersAre DEF Throttle, ArtworkInv, LimiterInv, LimiterTypeOK
<1>9. CoolOK'
  BY <1>5, <1>7, <1>8, Moves DEF CoolOK
<1> QED
  BY <1>5, <1>6, <1>9, CacheIs, EndKeeps

\* Nobody paces or sends during the cooldown.
LEMMA Cold ==
    ASSUME ArtworkInv, NEW c \in Calls, Pace(c) \/ Send(c)
    PROVE  cool = 0
<1>1. circuit["artwork"] = 0 /\ Holds(c)
  BY CallersAre DEF Pace, Send, Ready
<1>2. at[c] # "out"
  BY DEF Pace, Send, Ready
<1>3. cool \in Nat /\ (cool > 0 => at[c] = "out")
  BY <1>1, ArtworkAssumption DEF ArtworkInv, CoolOK, TypeOK
<1> QED
  BY <1>2, <1>3

LEMMA PaceSendInv ==
    ASSUME ArtworkInv, NEW c \in Calls, Pace(c) \/ Send(c), UNCHANGED artVars
    PROVE  ArtworkInv'
<1>1. LimiterInv' /\ UNCHANGED <<call, art, cool>>
  BY PaceStep, SendStep, CallersAre DEF ArtworkInv, artVars
<1>2. PICK stage \in {"pacing", "wire"} : at' = [at EXCEPT ![c] = stage]
  BY DEF Pace, Send
<1>3. at[c] # "out"
  BY DEF Pace, Send, Ready
<1>4. \A d \in Calls : d # c => at'[d] = at[d]
  BY <1>2, CallersAre DEF ArtworkInv, LimiterInv, LimiterTypeOK
<1>5. CoolOK'
  BY <1>1, Cold DEF CoolOK
<1>6. call[c].app \in Apps /\ call[c].donor \in 1..Donors
  BY <1>3, OfCall
<1> QED
  BY <1>1, <1>4, <1>5, <1>6, CacheIs, OneCall DEF ArtworkInv, TypeOK

\* A second passes only when nobody is about to look at the clock: during the
\* cooldown, only when the line is empty.
LEMMA TickInv ==
    ASSUME ArtworkInv, Tick
    PROVE  ArtworkInv'
<1>1. LimiterInv' /\ UNCHANGED <<call, art, at, line>> /\ ~ \E a \in Actors : Ready(a)
  BY TickStep DEF Tick, LimiterTick, ArtworkInv
<1>2. cool' \in 0..Cooldown /\ (cool' > 0 => cool > 0)
  BY ArtworkAssumption DEF Tick, CoolTick, ArtworkInv, TypeOK
<1>3. ASSUME cool > 0, NEW c \in Calls PROVE at[c] = "out"
  <2> SUFFICES ASSUME at[c] # "out" PROVE FALSE
    OBVIOUS
  <2>1. c \in Range(line["artwork"]) /\ line["artwork"] \in Seq(Actors)
    BY CallersAre DEF ArtworkInv, LimiterInv, LineInv
  <2>2. PICK a : a = Head(line["artwork"])
    OBVIOUS
  <2>3. a \in Actors /\ a \in Range(line["artwork"])
    <3>1. DOMAIN line["artwork"] = 1..Len(line["artwork"]) /\ Len(line["artwork"]) >= 1
      BY <2>1 DEF Range
    <3> QED BY <2>1, <2>2, <3>1 DEF Range
  <2>4. LimiterOf(a) = "artwork" /\ at[a] # "out"
    BY <2>3, CallersAre DEF ArtworkInv, LimiterInv, LineInv
  <2>5. a \in Calls
    BY <2>3, <2>4 DEF LimiterOf, Actors
  <2>6. at[a] = "line"
    BY <1>3, <2>4, <2>5 DEF ArtworkInv, CoolOK
  <2>7. Ready(a)
    BY <2>2, <2>3, <2>4, <2>6 DEF Ready, Holds
  <2> QED BY <1>1, <2>3, <2>7
<1>4. CoolOK'
  BY <1>1, <1>2, <1>3 DEF CoolOK
<1>5. TypeOK'
  BY <1>1, <1>2 DEF ArtworkInv, TypeOK, LimiterInv
<1>6. WalkOK' /\ CacheBounded'
  BY <1>1 DEF ArtworkInv, WalkOK, CacheBounded
<1> QED
  BY <1>1, <1>4, <1>5, <1>6 DEF ArtworkInv
-----------------------------------------------------------------------------
\* One step per action of Next.
LEMMA NextInv == ArtworkInv /\ [Next]_vars => ArtworkInv'
<1> SUFFICES ASSUME ArtworkInv, [Next]_vars PROVE ArtworkInv'
  OBVIOUS
<1>1. ASSUME NEW c \in Calls, Walk(c) PROVE ArtworkInv'
  BY <1>1, PaceSendInv, AnswerInv, NextDonorInv, TooManyInv, RefuseInv DEF Walk
<1>2. ASSUME NEW c \in Calls, NEW app \in Apps, Ask(c, app) \/ Cooled(c, app) PROVE ArtworkInv'
  BY <1>2, AskInv, CooledInv
<1>3. ASSUME NEW app \in Apps, Expire(app) PROVE ArtworkInv'
  BY <1>3, ExpireInv
<1>4. CASE Tick
  BY <1>4, TickInv
<1>5. CASE UNCHANGED vars
  BY <1>5, CacheIs, CacheAlone DEF vars, artVars
<1> QED
  BY <1>1, <1>2, <1>3, <1>4, <1>5 DEF Next, Serve

\* The inductive invariant of the artwork service and its limiter holds at every step
\* (ArtworkInv, the ground of the other theorems).
THEOREM SpecInv == Spec => []ArtworkInv
BY InitInv, NextInv, PTL DEF Spec

\* The types of what the service and its limiter keep; no countdown goes below zero.
THEOREM TypeCorrect == Spec => []TypeOK
<1>1. ArtworkInv => TypeOK
  BY DEF ArtworkInv
<1> QED
  BY <1>1, SpecInv, PTL

\* The cache keeps to its capacity with one entry per game, however many walks of
\* one game end with a store (BadgeArtworkService._store).
THEOREM CacheStaysBounded == Spec => []CacheBounded
<1>1. ArtworkInv => CacheBounded
  BY DEF ArtworkInv
<1> QED
  BY <1>1, SpecInv, PTL

\* From a 429 until the cooldown is over no page is asked for, not even by a walk
\* that was in the line already (check_badge_artwork, SteamCommunityLimiter.run).
THEOREM CooldownIsKept == Spec => CooldownHolds
<1> DEFINE Held == \A c \in Calls : at[c] # "wire" /\ at'[c] = "wire" => cool = 0
<1>1. ASSUME ArtworkInv, [Next]_vars PROVE [Held]_vars
  <2>1. ASSUME NEW c \in Calls, at[c] # "wire", at'[c] = "wire",
               NEW d \in Calls, NEW place \in {"out", "line", "pacing"},
               at' = [at EXCEPT ![d] = place]
        PROVE  FALSE
    BY <1>1, <2>1, CallersAre DEF ArtworkInv, LimiterInv, LimiterTypeOK
  <2>2. ASSUME NEW c \in Calls, at[c] # "wire", at'[c] = "wire", NEW d \in Calls, Walk(d)
        PROVE  cool = 0
    <3>1. CASE Pace(d) \/ Send(d)
      BY <1>1, <3>1, Cold
    <3>2. CASE Shows(d) \/ NobodyShows(d) \/ Sick(d) \/ TooMany(d) \/ Refuse(d)
      <4>1. at' = [at EXCEPT ![d] = "out"]
        BY <3>2 DEF Shows, NobodyShows, Sick, TooMany, Refuse, Refused, Throttle, End, Leave
      <4> QED BY <2>1, <2>2, <4>1
    <3>3. CASE NextDonor(d)
      <4>1. at' = [at EXCEPT ![d] = "line"]
        BY <3>3 DEF NextDonor, JoinAgain
      <4> QED BY <2>1, <2>2, <4>1
    <3> QED BY <2>2, <3>1, <3>2, <3>3 DEF Walk
  <2>3. ASSUME NEW c \in Calls, at[c] # "wire", at'[c] = "wire",
               NEW d \in Calls, NEW app \in Apps, Ask(d, app)
        PROVE  FALSE
    <3>1. at' = [at EXCEPT ![d] = "line"]
      BY <2>3 DEF Ask, AskAnyway, Join
    <3> QED BY <2>1, <2>3, <3>1
  <2>4. ASSUME NEW d \in Calls, NEW app \in Apps, Cooled(d, app) \/ Expire(app) PROVE UNCHANGED at
    BY <2>4 DEF Cooled, Expire, limiterVars
  <2>5. ASSUME NEW app \in Apps, Expire(app) PROVE UNCHANGED at
    BY <2>5 DEF Expire, limiterVars
  <2>6. Tick \/ UNCHANGED vars => UNCHANGED at
    BY DEF Tick, LimiterTick, vars, limiterVars
  <2> QED BY <1>1, <2>2, <2>3, <2>4, <2>5, <2>6 DEF Next, Serve
<1> QED
  BY <1>1, SpecInv, PTL DEF Spec, CooldownHolds
=============================================================================
