-------------------------- MODULE CommunityLimiter --------------------------
(***************************************************************************)
(* SteamCommunityLimiter (gem_pricing.py): requests to Steam Community are *)
(* serialised by one asyncio lock that is held across the pacing sleep and *)
(* the request, start at least Interval apart, and stop for a while after  *)
(* a 429.  This module has the limiter's steps; Warmer and BadgeArtwork    *)
(* are the clients that take them.                                         *)
(*                                                                         *)
(* Time is a set of countdowns, all lowered by one tick.  A tick waits for *)
(* the coroutine that holds the lock and is ready to run: the event loop   *)
(* runs what is ready long before the seconds a countdown stands for.      *)
(***************************************************************************)
EXTENDS Integers, SequencesExt

CONSTANTS
    Workers,       \* the two warmers: "gem", "booster" or both
    Calls,         \* concurrent badge-artwork requests
    Interval,      \* minimum_start_interval_seconds
    MaxCircuit,    \* bound: the longest a circuit stays open
    MaxThrottled   \* bound: 429 answers in a behaviour

ASSUME LimiterAssumption ==
    /\ Workers \subseteq {"gem", "booster"}
    /\ Workers \intersect Calls = {}
    /\ Interval \in Nat \ {0}
    /\ MaxCircuit \in Nat /\ MaxCircuit >= Interval
    /\ MaxThrottled \in Nat

VARIABLES
    line,       \* line[l]: who holds (first) or waits for l's lock, in order
    at,         \* at[a]: where a is in run()
    pause,      \* pause[a]: what is left of a's pacing sleep
    gap,        \* gap[l]: time until _last_started + minimum_start_interval
    circuit,    \* circuit[l]: time until _circuit_until
    throttled   \* number of 429 answers so far

limiterVars == <<line, at, pause, gap, circuit, throttled>>
-----------------------------------------------------------------------------
Actors == Workers \union Calls

\* The gateway is built without a limiter: SteamApisClient makes one for the
\* two warmers, and BadgeArtworkService, given none, makes its own.
Limiters == {"warmers", "artwork"}
LimiterOf(a) == IF a \in Workers THEN "warmers" ELSE "artwork"

LimiterTypeOK ==
    /\ line \in [Limiters -> Seq(Actors)]
    /\ at \in [Actors -> {"out", "line", "pacing", "wire"}]
    /\ pause \in [Actors -> 0..Interval]
    /\ gap \in [Limiters -> 0..Interval]
    /\ circuit \in [Limiters -> 0..MaxCircuit]
    /\ throttled \in 0..MaxThrottled

LimiterInit ==
    /\ line = [l \in Limiters |-> <<>>]
    /\ at = [a \in Actors |-> "out"]
    /\ pause = [a \in Actors |-> 0]
    /\ gap = [l \in Limiters |-> 0]
    /\ circuit = [l \in Limiters |-> 0]
    /\ throttled = 0
-----------------------------------------------------------------------------
\* Fault: the lock is not kept across the sleep and the request.
AnyoneHolds(a) == a \in Range(line[LimiterOf(a)])

Holds(a) == a \in Range(line[LimiterOf(a)]) /\ Head(line[LimiterOf(a)]) = a

\* Fault: the sleep may be cut short.
ReadyWithoutSleep(a) == Holds(a) /\ at[a] \in {"line", "pacing"}

\* a has the lock and is about to look at the clock, before or after its sleep.
Ready(a) == Holds(a) /\ (at[a] = "line" \/ (at[a] = "pacing" /\ pause[a] = 0))

OutOfLine(a) == [line EXCEPT ![LimiterOf(a)] = RemoveFirst(@, a)]

\* async with self._lock: a waits its turn.  The lock is fair.
Join(a) ==
    /\ line' = [line EXCEPT ![LimiterOf(a)] = Append(@, a)]
    /\ at' = [at EXCEPT ![a] = "line"]

\* run returns or raises, or a is cancelled wherever it is.
Leave(a) ==
    /\ line' = OutOfLine(a)
    /\ at' = [at EXCEPT ![a] = "out"]

\* run returns and the same coroutine calls it again.
JoinAgain(a) ==
    /\ line' = [OutOfLine(a) EXCEPT ![LimiterOf(a)] = Append(@, a)]
    /\ at' = [at EXCEPT ![a] = "line"]

\* The pacing sleep; the lock is kept.
Pace(a) ==
    /\ Holds(a) /\ at[a] = "line"
    /\ circuit[LimiterOf(a)] = 0
    /\ gap[LimiterOf(a)] > 0
    /\ at' = [at EXCEPT ![a] = "pacing"]
    /\ pause' = [pause EXCEPT ![a] = gap[LimiterOf(a)]]
    /\ UNCHANGED <<line, gap, circuit, throttled>>

\* _last_started is set and the operation begins.
Send(a) ==
    /\ Ready(a)
    /\ circuit[LimiterOf(a)] = 0
    /\ at[a] = "line" => gap[LimiterOf(a)] = 0
    /\ at' = [at EXCEPT ![a] = "wire"]
    /\ gap' = [gap EXCEPT ![LimiterOf(a)] = Interval]
    /\ UNCHANGED <<line, pause, circuit, throttled>>

\* a finds the circuit open: _CircuitOpenError(what is left of it).
Refused(a) ==
    /\ Ready(a)
    /\ circuit[LimiterOf(a)] > 0
    /\ Leave(a)
    /\ UNCHANGED <<pause, gap, circuit, throttled>>

\* The answer is a 429: the circuit opens for delay and run raises.
Throttle(a, delay) ==
    /\ at[a] = "wire"
    /\ throttled < MaxThrottled
    /\ throttled' = throttled + 1
    /\ circuit' = [circuit EXCEPT ![LimiterOf(a)] = IF @ > delay THEN @ ELSE delay]
    /\ Leave(a)
    /\ UNCHANGED <<pause, gap>>

LimiterTick ==
    /\ ~ \E a \in Actors : Ready(a)
    /\ pause' = [a \in Actors |-> IF pause[a] > 0 THEN pause[a] - 1 ELSE 0]
    /\ gap' = [l \in Limiters |-> IF gap[l] > 0 THEN gap[l] - 1 ELSE 0]
    /\ circuit' = [l \in Limiters |-> IF circuit[l] > 0 THEN circuit[l] - 1 ELSE 0]
    /\ UNCHANGED <<line, at, throttled>>
-----------------------------------------------------------------------------
\* Safety: of the coroutines that share a limiter, only the one at the head of
\* its lock sleeps to pace or has a request on the wire.
Serialised ==
    \A a, b \in Actors :
        /\ LimiterOf(a) = LimiterOf(b)
        /\ at[a] \in {"pacing", "wire"} /\ at[b] \in {"pacing", "wire"}
        => a = b

\* Action: a request starts at least Interval after the previous one of its
\* limiter and never while the circuit is open, whatever happened between the
\* look at the clock and the start.
StartsSpaced ==
    [][\A a \in Actors : at[a] # "wire" /\ at'[a] = "wire"
          => gap[LimiterOf(a)] = 0 /\ circuit[LimiterOf(a)] = 0]_limiterVars
=============================================================================
