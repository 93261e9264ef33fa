---------------------------- MODULE BadgeArtwork ----------------------------
(***************************************************************************)
(* BadgeArtworkService: concurrent requests for the badge artwork of games *)
(* walk the donors' public pages until one shows the badge, each page      *)
(* through the service's limiter, and share a bounded cache and a cooldown *)
(* kept in the process.  Requests of one game are not joined together.     *)
(***************************************************************************)
EXTENDS CommunityLimiter

CONSTANTS
    Apps,         \* games asked about
    Donors,       \* how many donor_steam_ids there are
    Capacity,     \* MAX_BADGE_ARTWORK_CACHE_ENTRIES
    Cooldown,     \* BADGE_ARTWORK_COOLDOWN_SECONDS
    RetryAfter,   \* Retry-After of a 429, clamped by _bounded_retry_after
    NoApp

ASSUME ArtworkAssumption ==
    /\ Donors \in Nat \ {0} /\ Capacity \in Nat \ {0}
    /\ Cooldown \in Nat
    /\ RetryAfter \subseteq 1..MaxCircuit
    /\ NoApp \notin Apps

VARIABLES
    call,   \* call[c]: the game c asks about and the donor it is at
    art,    \* _cache: entries from the oldest insertion to the newest
    cool    \* time until the service's _rate_limited_until

artVars == <<call, art, cool>>
vars == <<limiterVars, artVars>>
-----------------------------------------------------------------------------
NoCall == [app |-> NoApp, donor |-> 0]
Entry == [app : Apps, status : {"ready", "unavailable"}, fresh : BOOLEAN]

TypeOK ==
    /\ LimiterTypeOK
    /\ call \in [Calls -> [app : Apps \union {NoApp}, donor : 0..Donors]]
    /\ art \in Seq(Entry)
    /\ cool \in 0..Cooldown

Init ==
    /\ LimiterInit
    /\ call = [c \in Calls |-> NoCall]
    /\ art = <<>>
    /\ cool = 0
-----------------------------------------------------------------------------
EntriesOf(app) == {i \in DOMAIN art : art[i].app = app}
Forget(app) == RemoveFirstMatch(art, LAMBDA e : e.app = app)

\* Fault: eviction starts one entry too late.
TrimLate(s) == IF Len(s) > Capacity + 1 THEN Tail(s) ELSE s

\* A new answer takes the place of an old one of the game, or the end of the line;
\* then the oldest insertion makes room.
Trim(s) == IF Len(s) > Capacity THEN Tail(s) ELSE s

Store(app, status) ==
    LET entry == [app |-> app, status |-> status, fresh |-> TRUE]
    IN  art' = IF EntriesOf(app) = {}
               THEN Trim(Append(art, entry))
               ELSE [i \in DOMAIN art |-> IF art[i].app = app THEN entry ELSE art[i]]

\* check_badge_artwork up to the first page: a fresh entry answers, an expired one
\* is dropped, the cooldown answers "unavailable", or the walk begins.
AnswerFromCache(app) == \E i \in EntriesOf(app) : art[i].fresh

Cooled(c, app) ==
    /\ at[c] = "out" /\ EntriesOf(app) # {} /\ ~AnswerFromCache(app)
    /\ cool > 0
    /\ art' = Forget(app)
    /\ UNCHANGED <<limiterVars, call, cool>>

\* Fault: the cooldown is not looked at.
AskAnyway(c, app) ==
    /\ at[c] = "out" /\ ~AnswerFromCache(app)
    /\ art' = Forget(app)
    /\ call' = [call EXCEPT ![c] = [app |-> app, donor |-> 1]]
    /\ Join(c)
    /\ UNCHANGED <<pause, gap, circuit, throttled, cool>>

Ask(c, app) == cool = 0 /\ AskAnyway(c, app)
-----------------------------------------------------------------------------
End(c) ==
    /\ call' = [call EXCEPT ![c] = NoCall]
    /\ Leave(c)
    /\ UNCHANGED <<pause, gap, circuit, throttled>>

\* The page shows the badge.
Shows(c) ==
    /\ at[c] = "wire"
    /\ Store(call[c].app, "ready")
    /\ End(c)
    /\ UNCHANGED cool

\* Fault: the walk stays at a donor that does not show the badge.
SameDonor(c) ==
    /\ at[c] = "wire"
    /\ JoinAgain(c)
    /\ UNCHANGED <<pause, gap, circuit, throttled, call, art, cool>>

\* The donor hides the badge or does not have it: on to the next one.
NextDonor(c) ==
    /\ at[c] = "wire" /\ call[c].donor < Donors
    /\ call' = [call EXCEPT ![c].donor = @ + 1]
    /\ JoinAgain(c)
    /\ UNCHANGED <<pause, gap, circuit, throttled, art, cool>>

NobodyShows(c) ==
    /\ at[c] = "wire" /\ call[c].donor = Donors
    /\ Store(call[c].app, "unavailable")
    /\ End(c)
    /\ UNCHANGED cool

\* A 5xx or no answer: "unavailable" for now, and nothing is remembered.
Sick(c) ==
    /\ at[c] = "wire"
    /\ End(c)
    /\ UNCHANGED <<art, cool>>

TooMany(c) ==
    /\ \E after \in RetryAfter :
          Throttle(c, IF after > Interval THEN after ELSE Interval)
    /\ cool' = Cooldown
    /\ call' = [call EXCEPT ![c] = NoCall]
    /\ UNCHANGED art

\* The circuit is open: also "unavailable" for now.
Refuse(c) ==
    /\ Refused(c)
    /\ call' = [call EXCEPT ![c] = NoCall]
    /\ UNCHANGED <<art, cool>>

Expire(app) ==
    /\ AnswerFromCache(app)
    /\ art' = [i \in DOMAIN art |->
                  IF art[i].app = app THEN [art[i] EXCEPT !.fresh = FALSE] ELSE art[i]]
    /\ UNCHANGED <<limiterVars, call, cool>>

\* Fault: what is left of the cooldown goes below zero.
CoolTickPast == cool' = cool - 1

CoolTick == cool' = IF cool > 0 THEN cool - 1 ELSE 0

Tick ==
    /\ \/ \E a \in Actors : pause[a] > 0
       \/ \E l \in Limiters : gap[l] > 0 \/ circuit[l] > 0
       \/ cool > 0
    /\ LimiterTick
    /\ CoolTick
    /\ UNCHANGED <<call, art>>
-----------------------------------------------------------------------------
\* What a walk does by itself, and Steam Community's answers.
Walk(c) ==
    \/ (Pace(c) \/ Send(c)) /\ UNCHANGED artVars
    \/ Shows(c) \/ NextDonor(c) \/ NobodyShows(c) \/ Sick(c) \/ TooMany(c) \/ Refuse(c)

Serve ==
    \/ \E c \in Calls : Walk(c) \/ \E app \in Apps : Ask(c, app) \/ Cooled(c, app)
    \/ \E app \in Apps : Expire(app)

Next == Serve \/ Tick

Spec == Init /\ [][Next]_vars

\* A walk is a task of the event loop whose pages have a timeout; seconds pass.
LiveSpec == Spec /\ SF_vars(Tick) /\ \A c \in Calls : WF_vars(Walk(c))
-----------------------------------------------------------------------------
\* Safety: the cache never outgrows its bound and has one entry per game, though
\* several walks of one game may each end with a store.
CacheBounded ==
    /\ Len(art) <= Capacity
    /\ \A i, j \in DOMAIN art : art[i].app = art[j].app => i = j

\* Action: once a 429 has started the cooldown no page is asked for until it is
\* over, not even by a walk that was under way when it started: the circuit of the
\* limiter is still open when such a walk gets the lock, and ends it.
CooldownHolds ==
    [][\A c \in Calls : at[c] # "wire" /\ at'[c] = "wire" => cool = 0]_vars

\* Liveness: every request is answered, however many walk at once.
WalkEnds == \A c \in Calls : at[c] # "out" ~> at[c] = "out"
=============================================================================
