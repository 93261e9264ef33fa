----------------------------- MODULE Community ------------------------------
(***************************************************************************)
(* All of the gateway's requests to Steam Community in one process: the    *)
(* warmers and the artwork requests, on the limiters SteamGateway wires    *)
(* them to, under one clock.                                               *)
(***************************************************************************)
EXTENDS CommunityLimiter

CONSTANTS KeysOf, MinOpen, MaxRetry, Hints, NoHint, NoKey,
          Apps, Donors, Capacity, Cooldown, RetryAfter, NoApp

VARIABLES worker, queue, scheduled, nap, cache, call, art, cool

Warming == INSTANCE Warmer
Artwork == INSTANCE BadgeArtwork

vars == <<limiterVars, worker, queue, scheduled, nap, cache, call, art, cool>>

Init == Warming!Init /\ Artwork!Init

Tick ==
    /\ LimiterTick
    /\ Warming!NapTick /\ Artwork!CoolTick
    /\ UNCHANGED <<worker, queue, scheduled, cache, call, art>>

Next ==
    \/ Warming!Warm /\ UNCHANGED <<call, art, cool>>
    \/ Artwork!Serve /\ UNCHANGED <<worker, queue, scheduled, nap, cache>>
    \/ Tick

Spec == Init /\ [][Next]_vars
-----------------------------------------------------------------------------
\* Safety, as the documentation has it: artwork pages are read "through the shared
\* limiter", so that the process has at most one request to Steam Community on the
\* wire.  SteamGateway gives the artwork service a limiter of its own.
OneRequestAtATime ==
    \A a, b \in Actors : at[a] = "wire" /\ at[b] = "wire" => a = b
=============================================================================
