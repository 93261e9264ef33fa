---------------------------- MODULE WarmerProofs ----------------------------
(***************************************************************************)
(* For any keys, delays and cache contents: the warmers' requests are      *)
(* serialised and spaced, _scheduled names exactly what is queued or in a  *)
(* worker's hands, and a value once found stays.                           *)
(***************************************************************************)
EXTENDS Warmer, LimiterProofs, FiniteSetTheorems

\* A worker has a key exactly while it looks one up or sleeps over it, and is with
\* the limiter exactly while it looks one up.
HandOK(w) ==
    /\ worker[w].pc \in {"off", "idle"} => worker[w].key = NoKey /\ at[w] = "out"
    /\ worker[w].pc = "asleep" => worker[w].key \in Keys /\ at[w] = "out"
    /\ worker[w].pc = "busy" =>
          worker[w].key \in Keys /\ at[w] # "out" /\ worker[w].stage \in 1..Stages(w)

\* ScheduledExactly for one worker.
ExactFor(w) ==
    /\ scheduled[w] = Range(queue[w]) \union InHand(w)
    /\ IsInjective(queue[w]) /\ Range(queue[w]) \intersect InHand(w) = {}
    /\ worker[w].pc = "off" => scheduled[w] = {}

WarmerInv ==
    /\ TypeOK
    /\ LimiterInv
    /\ \A w \in Workers : HandOK(w) /\ ExactFor(w)
-----------------------------------------------------------------------------
\* Sequences of keys.

LEMMA TailUnique ==
    ASSUME NEW S, NEW s \in Seq(S), s # <<>>, IsInjective(s)
    PROVE  /\ Tail(s) \in Seq(S) /\ IsInjective(Tail(s))
           /\ Head(s) \in S
           /\ Range(Tail(s)) = Range(s) \ {Head(s)} /\ Head(s) \in Range(s)
<1>1. /\ Tail(s) \in Seq(S) /\ Len(Tail(s)) = Len(s) - 1 /\ Len(s) >= 1
      /\ \A i \in 1..Len(s) - 1 : Tail(s)[i] = s[i + 1]
      /\ Head(s) = s[1] /\ DOMAIN s = 1..Len(s) /\ DOMAIN Tail(s) = 1..Len(s) - 1
  OBVIOUS
<1> DEFINE t == Tail(s)
<1> HIDE DEF t
<1>2. IsInjective(t)
  BY <1>1 DEF IsInjective, t
<1>3. Range(t) \subseteq Range(s) \ {Head(s)}
  BY <1>1 DEF IsInjective, Range, t
<1>4. ASSUME NEW i \in 1..Len(s), s[i] # Head(s) PROVE s[i] \in Range(t)
  <2>1. i - 1 \in 1..Len(s) - 1 /\ (i - 1) + 1 = i
    BY <1>1, <1>4
  <2>2. t[i - 1] = s[i]
    BY <2>1, <1>1 DEF t
  <2> QED BY <2>1, <2>2, <1>1 DEF Range, t
<1>5. Range(s) \ {Head(s)} \subseteq Range(t)
  BY <1>1, <1>4 DEF Range
<1>6. Head(s) \in S /\ Head(s) \in Range(s)
  BY <1>1 DEF Range
<1> QED
  BY <1>1, <1>2, <1>3, <1>5, <1>6 DEF t

LEMMA ConcatUnique ==
    ASSUME NEW S, NEW s \in Seq(S), NEW t \in Seq(S),
           IsInjective(s), IsInjective(t), Range(s) \intersect Range(t) = {}
    PROVE  /\ s \o t \in Seq(S) /\ IsInjective(s \o t)
           /\ Range(s \o t) = Range(s) \union Range(t)
<1> DEFINE u == s \o t
<1>1. /\ u \in Seq(S) /\ Len(u) = Len(s) + Len(t)
      /\ \A i \in 1..Len(s) + Len(t) : u[i] = IF i <= Len(s) THEN s[i] ELSE t[i - Len(s)]
  BY ConcatProperties
<1>2. /\ DOMAIN u = 1..Len(s) + Len(t) /\ DOMAIN s = 1..Len(s) /\ DOMAIN t = 1..Len(t)
      /\ Len(s) \in Nat /\ Len(t) \in Nat
  BY <1>1
<1> HIDE DEF u
<1>3. ASSUME NEW i \in DOMAIN u
      PROVE  \/ i \in DOMAIN s /\ u[i] = s[i]
             \/ ~(i \in DOMAIN s) /\ i - Len(s) \in DOMAIN t /\ u[i] = t[i - Len(s)]
  BY <1>1, <1>2
<1>4. \A i \in DOMAIN s, j \in DOMAIN t : s[i] # t[j]
  BY DEF Range
<1>5. IsInjective(u)
  <2> SUFFICES ASSUME NEW i \in DOMAIN u, NEW j \in DOMAIN u, u[i] = u[j] PROVE i = j
    BY DEF IsInjective
  <2>1. CASE i \in DOMAIN s /\ j \in DOMAIN s
    BY <2>1, <1>3 DEF IsInjective
  <2>2. CASE ~(i \in DOMAIN s) /\ ~(j \in DOMAIN s)
    <3>1. i - Len(s) = j - Len(s)
      BY <2>2, <1>3 DEF IsInjective
    <3> QED BY <3>1, <1>2
  <2> QED BY <2>1, <2>2, <1>3, <1>4
<1>6. Range(u) \subseteq Range(s) \union Range(t)
  BY <1>3 DEF Range
<1>7. Range(s) \subseteq Range(u)
  BY <1>1, <1>2 DEF Range
<1>8. ASSUME NEW j \in DOMAIN t PROVE t[j] \in Range(u)
  <2>1. j + Len(s) \in DOMAIN u /\ ~(j + Len(s) <= Len(s)) /\ (j + Len(s)) - Len(s) = j
    BY <1>2
  <2>2. u[j + Len(s)] = t[j]
    BY <2>1, <1>1, <1>2
  <2> QED BY <2>1, <2>2 DEF Range
<1>9. Range(t) \subseteq Range(u)
  BY <1>8 DEF Range
<1> QED
  BY <1>1, <1>5, <1>6, <1>7, <1>9 DEF u

\* The keys of K in their order are the keys of K, each once.
LEMMA InOrderIs ==
    ASSUME NEW K, IsFiniteSet(K), NEW s \in InOrder(K)
    PROVE  s \in Seq(K) /\ IsInjective(s) /\ Range(s) = K
<1> DEFINE n == Cardinality(K)
<1>1. n \in Nat
  BY FS_CardinalityType
<1>2. s \in [1..n -> K] /\ \A i, j \in 1..n : i # j => s[i] # s[j]
  BY DEF InOrder, SetToSeqs
<1>3. IsFiniteSet(1..n) /\ Cardinality(1..n) = n
  BY <1>1, FS_Interval
<1> HIDE DEF n
<1>4. s \in Injection(1..n, K) /\ IsInjective(s)
  BY <1>2 DEF Injection, IsInjective
<1>5. s \in Surjection(1..n, K)
  BY <1>3, <1>4, FS_Injection DEF n
<1>6. Range(s) = K
  BY <1>2, <1>5 DEF Surjection, Range
<1>7. s \in Seq(K)
  BY <1>1, <1>2
<1> QED
  BY <1>4, <1>6, <1>7
-----------------------------------------------------------------------------
\* What a worker's record may be.
Hands == [pc : {"off", "idle", "busy", "asleep"}, key : Keys \union {NoKey}, stage : 0..2]

LEMMA KeysAre ==
    /\ \A w \in Workers : KeysOf[w] \subseteq Keys /\ IsFiniteSet(KeysOf[w])
    /\ NoKey \notin Keys
    /\ \A w \in Workers : w \in Actors /\ Stages(w) \in 1..2
BY WarmerAssumption DEF Keys, Range, Actors, Stages

LEMMA HandsAre ==
    /\ Off \in Hands /\ Idle \in Hands
    /\ \A k \in Keys : Dozing(k) \in Hands /\ \A s \in 1..2 : Looking(k, s) \in Hands
    /\ Off.pc = "off" /\ Off.key = NoKey /\ Idle.pc = "idle" /\ Idle.key = NoKey
    /\ \A k : Dozing(k).pc = "asleep" /\ Dozing(k).key = k
    /\ \A k, s : Looking(k, s).pc = "busy" /\ Looking(k, s).key = k /\ Looking(k, s).stage = s
BY DEF Off, Idle, Dozing, Looking, Hands

LEMMA DelaysAre ==
    /\ \A d \in Nat : RetryDelay(d) \in 0..MaxRetry
    /\ \A hint \in Hints : CircuitDelay(hint) \in 0..MaxCircuit
<1>1. /\ MinOpen \in 0..MaxCircuit /\ MaxRetry \in 0..MaxCircuit /\ MaxCircuit \in Nat
      /\ Interval \in Nat /\ Interval <= MaxCircuit
      /\ \A hint \in Hints : hint = NoHint \/ hint \in 0..MaxRetry
  BY WarmerAssumption, LimiterAssumption
<1>2. ASSUME NEW d \in Nat PROVE RetryDelay(d) \in 0..MaxRetry
  BY <1>1 DEF RetryDelay
<1>3. ASSUME NEW hint \in Hints PROVE CircuitDelay(hint) \in 0..MaxCircuit
  <2>1. CASE hint = NoHint
    BY <1>1, <2>1 DEF CircuitDelay
  <2>2. CASE hint # NoHint
    BY <1>1, <2>2 DEF CircuitDelay
  <2> QED BY <2>1, <2>2
<1> QED
  BY <1>2, <1>3

\* A step of one worker leaves what the others have as it was.
LEMMA OneWorker ==
    ASSUME WarmerInv, NEW w \in Workers, TypeOK', LimiterInv',
           \A v \in Workers : v # w =>
               /\ worker'[v] = worker[v] /\ queue'[v] = queue[v]
               /\ scheduled'[v] = scheduled[v] /\ at'[v] = at[v],
           HandOK(w)', ExactFor(w)'
    PROVE  WarmerInv'
<1> SUFFICES ASSUME NEW v \in Workers, v # w
             PROVE  HandOK(v)' /\ ExactFor(v)'
  BY DEF WarmerInv
<1>1. HandOK(v) /\ ExactFor(v)
  BY DEF WarmerInv
<1> QED
  BY <1>1 DEF HandOK, ExactFor, InHand

\* What the invariant says of one worker.
LEMMA OfWorker ==
    ASSUME WarmerInv, NEW w \in Workers
    PROVE  /\ worker[w] \in Hands /\ queue[w] \in Seq(Keys) /\ scheduled[w] \in SUBSET Keys
           /\ nap[w] \in 0..MaxRetry
           /\ HandOK(w) /\ ExactFor(w) /\ w \in Actors
BY KeysAre DEF WarmerInv, TypeOK, Hands

\* Everyone else stays where they are.
LEMMA OthersStay ==
    ASSUME WarmerInv, NEW w \in Workers
    PROVE  /\ Leave(w) => at'[w] = "out" /\ \A v \in Workers : v # w => at'[v] = at[v]
           /\ Join(w) \/ JoinAgain(w) => at'[w] = "line" /\ \A v \in Workers : v # w => at'[v] = at[v]
BY KeysAre DEF WarmerInv, LimiterInv, LimiterTypeOK, Leave, Join, JoinAgain
-----------------------------------------------------------------------------
LEMMA InitInv == Init => WarmerInv
<1> SUFFICES ASSUME Init PROVE WarmerInv
  OBVIOUS
<1>1. LimiterInv
  BY LimiterInitInv DEF Init
<1>2. TypeOK
  BY <1>1, HandsAre, WarmerAssumption DEF Init, TypeOK, LimiterInv, Hands
<1>3. /\ IsInjective(<<>>) /\ Range(<<>>) = {}
  BY DEF IsInjective, Range
<1>4. ASSUME NEW w \in Workers PROVE HandOK(w) /\ ExactFor(w)
  BY <1>3, HandsAre, KeysAre DEF Init, LimiterInit, HandOK, ExactFor, InHand
<1> QED
  BY <1>1, <1>2, <1>4 DEF WarmerInv

LEMMA StartInv ==
    ASSUME WarmerInv, NEW w \in Workers, Start(w)
    PROVE  WarmerInv'
<1>1. LimiterInv'
  BY DEF Start, WarmerInv, LimiterInv, LimiterTypeOK, LineInv, PacingInv, limiterVars, Holds
<1>2. worker'[w] = Idle /\ \A v \in Workers : v # w => worker'[v] = worker[v]
  BY DEF Start, WarmerInv, TypeOK
<1>3. TypeOK'
  BY <1>1, HandsAre DEF Start, WarmerInv, TypeOK, LimiterInv, Hands
<1>4. HandOK(w)' /\ ExactFor(w)'
  BY <1>2, OfWorker, HandsAre DEF Start, HandOK, ExactFor, InHand, limiterVars
<1> QED
  BY <1>1, <1>2, <1>3, <1>4, OneWorker DEF Start, limiterVars

LEMMA StopInv ==
    ASSUME WarmerInv, NEW w \in Workers, Stop(w)
    PROVE  WarmerInv'
<1>1. LimiterInv'
  BY LeaveStep, KeysAre DEF Stop, WarmerInv
<1>2. /\ worker'[w] = Off /\ queue'[w] = <<>> /\ scheduled'[w] = {} /\ at'[w] = "out"
      /\ \A v \in Workers : v # w =>
            /\ worker'[v] = worker[v] /\ queue'[v] = queue[v]
            /\ scheduled'[v] = scheduled[v] /\ at'[v] = at[v]
  BY OthersStay DEF Stop, WarmerInv, TypeOK
<1>3. TypeOK'
  BY <1>1, HandsAre, WarmerAssumption DEF Stop, WarmerInv, TypeOK, LimiterInv, Hands
<1>4. HandOK(w)'
  BY <1>2, HandsAre DEF HandOK
<1>5. ExactFor(w)'
  <2>1. IsInjective(<<>>) /\ Range(<<>>) = {}
    BY DEF IsInjective, Range
  <2> QED BY <1>2, <2>1, HandsAre DEF ExactFor, InHand
<1> QED
  BY <1>1, <1>2, <1>3, <1>4, <1>5, OneWorker

\* What resolve queues is not scheduled yet, hence neither queued nor in hand.
LEMMA ResolveInv ==
    ASSUME WarmerInv, NEW w \in Workers, NEW K \in SUBSET KeysOf[w], Resolve(w, K)
    PROVE  WarmerInv'
<1>1. PICK nameless \in (IF w = "gem" THEN SUBSET K ELSE {{}}), rows \in {cache[w], [k \in K |-> Missing]} :
          LET new == Unasked(w, Wanted(w, K, nameless, rows))
          IN  /\ worker' = [worker EXCEPT ![w] = IF worker[w].pc = "off" THEN Idle ELSE worker[w]]
              /\ \E asked \in InOrder(new) : queue' = [queue EXCEPT ![w] = queue[w] \o asked]
              /\ scheduled' = [scheduled EXCEPT ![w] = scheduled[w] \union new]
              /\ UNCHANGED <<limiterVars, nap, cache>>
  BY DEF Resolve
<1> DEFINE new == Unasked(w, Wanted(w, K, nameless, rows))
<1>2. new \subseteq Keys /\ new \intersect scheduled[w] = {} /\ IsFiniteSet(new)
  <2>1. new \subseteq K
    BY DEF Unasked, Wanted
  <2>2. K \subseteq KeysOf[w] /\ new \in SUBSET KeysOf[w]
    BY <2>1
  <2> QED BY <2>2, KeysAre, FS_Subset DEF Unasked
<1>3. PICK asked \in InOrder(new) : queue' = [queue EXCEPT ![w] = queue[w] \o asked]
  BY <1>1
<1> HIDE DEF new
<1>4. asked \in Seq(new) /\ IsInjective(asked) /\ Range(asked) = new
  BY <1>2, InOrderIs
<1>5. asked \in Seq(Keys)
  BY <1>2, <1>4, SeqMonotonic
<1>6. PICK long : long = queue[w] \o asked
  OBVIOUS
<1>7. long \in Seq(Keys) /\ IsInjective(long) /\ Range(long) = Range(queue[w]) \union new
  <2>1. queue[w] \in Seq(Keys) /\ IsInjective(queue[w]) /\ Range(queue[w]) \subseteq scheduled[w]
    BY OfWorker DEF ExactFor
  <2>2. Range(queue[w]) \intersect Range(asked) = {}
    BY <2>1, <1>2, <1>4
  <2> QED BY <2>1, <2>2, <1>4, <1>5, <1>6, ConcatUnique
<1>8. LimiterInv'
  BY <1>1 DEF WarmerInv, LimiterInv, LimiterTypeOK, LineInv, PacingInv, limiterVars, Holds
<1>9. /\ worker'[w] = IF worker[w].pc = "off" THEN Idle ELSE worker[w]
      /\ queue'[w] = long /\ scheduled'[w] = scheduled[w] \union new /\ UNCHANGED at
      /\ \A v \in Workers : v # w =>
            worker'[v] = worker[v] /\ queue'[v] = queue[v] /\ scheduled'[v] = scheduled[v]
  BY <1>1, <1>3, <1>6 DEF WarmerInv, TypeOK, limiterVars, new
<1>10. TypeOK'
  <2>1. worker' \in [Workers -> Hands]
    BY <1>1, HandsAre DEF WarmerInv, TypeOK, Hands, new
  <2>2. queue' \in [Workers -> Seq(Keys)]
    BY <1>3, <1>6, <1>7 DEF WarmerInv, TypeOK
  <2>3. scheduled' \in [Workers -> SUBSET Keys]
    BY <1>1, <1>2 DEF WarmerInv, TypeOK, new
  <2> QED BY <1>1, <1>8, <2>1, <2>2, <2>3 DEF WarmerInv, TypeOK, LimiterInv, Hands, new
<1>11. InHand(w)' = InHand(w) /\ worker'[w].pc # "off"
  BY <1>9, OfWorker, HandsAre DEF InHand, HandOK
<1>12. HandOK(w)'
  BY <1>9, OfWorker, HandsAre DEF HandOK
<1>13. ExactFor(w)'
  BY <1>2, <1>7, <1>9, <1>11, OfWorker DEF ExactFor
<1> QED
  BY <1>8, <1>9, <1>10, <1>12, <1>13, OneWorker

LEMMA TakeInv ==
    ASSUME WarmerInv, NEW w \in Workers, Take(w)
    PROVE  WarmerInv'
<1>1. at[w] = "out" /\ InHand(w) = {} /\ queue[w] \in Seq(Keys) /\ queue[w] # <<>> /\ ExactFor(w)
  BY OfWorker DEF Take, HandOK, InHand
<1>2. LimiterInv'
  BY <1>1, JoinStep, KeysAre DEF Take, WarmerInv
<1>3. PICK k, rest : k = Head(queue[w]) /\ rest = Tail(queue[w])
  OBVIOUS
<1>4. /\ k \in Keys /\ rest \in Seq(Keys) /\ IsInjective(rest)
      /\ Range(rest) = Range(queue[w]) \ {k} /\ k \in Range(queue[w])
  BY <1>1, <1>3, TailUnique DEF ExactFor
<1>5. /\ worker' = [worker EXCEPT ![w] = Looking(k, 1)]
      /\ queue' = [queue EXCEPT ![w] = rest] /\ UNCHANGED <<scheduled, nap, cache>>
  BY <1>3 DEF Take
<1>6. /\ worker'[w] = Looking(k, 1) /\ queue'[w] = rest /\ at'[w] = "line"
      /\ \A v \in Workers : v # w =>
            worker'[v] = worker[v] /\ queue'[v] = queue[v] /\ at'[v] = at[v]
  BY <1>5, OthersStay DEF Take, WarmerInv, TypeOK
<1>7. TypeOK'
  BY <1>2, <1>4, <1>5, HandsAre DEF WarmerInv, TypeOK, LimiterInv, Hands
<1>8. HandOK(w)'
  BY <1>4, <1>6, HandsAre, KeysAre DEF HandOK
<1>9. ExactFor(w)'
  <2>1. InHand(w)' = {k}
    BY <1>4, <1>6, HandsAre, KeysAre DEF InHand
  <2> QED BY <2>1, <1>1, <1>4, <1>5, <1>6, HandsAre DEF ExactFor
<1> QED
  BY <1>2, <1>5, <1>6, <1>7, <1>8, <1>9, OneWorker

\* The worker keeps its key over the sleep.
LEMMA DozeInv ==
    ASSUME WarmerInv, NEW w \in Workers, worker[w].pc = "busy", NEW retry \in Nat,
           Doze(w, retry), LimiterInv', Leave(w)
    PROVE  WarmerInv'
<1>1. PICK k : k = worker[w].key
  OBVIOUS
<1>2. k \in Keys /\ InHand(w) = {k}
  BY <1>1, OfWorker, KeysAre DEF HandOK, InHand
<1>3. /\ worker' = [worker EXCEPT ![w] = Dozing(k)] /\ UNCHANGED <<queue, scheduled, cache>>
      /\ nap' = [nap EXCEPT ![w] = RetryDelay(retry)] /\ RetryDelay(retry) \in 0..MaxRetry
  BY <1>1, DelaysAre DEF Doze
<1>4. /\ worker'[w] = Dozing(k) /\ at'[w] = "out"
      /\ \A v \in Workers : v # w => worker'[v] = worker[v] /\ at'[v] = at[v]
  BY <1>3, OthersStay DEF WarmerInv, TypeOK
<1>5. TypeOK'
  BY <1>2, <1>3, HandsAre DEF WarmerInv, TypeOK, LimiterInv, Hands
<1>6. HandOK(w)'
  BY <1>2, <1>4, HandsAre DEF HandOK
<1>7. ExactFor(w)'
  <2>1. InHand(w)' = {k}
    BY <1>2, <1>4, HandsAre, KeysAre DEF InHand
  <2> QED BY <2>1, <1>2, <1>3, <1>4, HandsAre, OfWorker DEF ExactFor
<1> QED
  BY <1>3, <1>4, <1>5, <1>6, <1>7, OneWorker

\* Who is in the line looks a key up.
LEMMA BusyInLine ==
    ASSUME WarmerInv, NEW w \in Workers, at[w] # "out"
    PROVE  worker[w].pc = "busy"
BY OfWorker DEF HandOK, Hands

LEMMA RefuseInv ==
    ASSUME WarmerInv, NEW w \in Workers, Refuse(w)
    PROVE  WarmerInv'
<1>1. at[w] # "out"
  BY DEF Refuse, Refused, Ready
<1>2. circuit[LimiterOf(w)] \in Nat
  BY OwnLimiter, LimiterAssumption DEF WarmerInv, LimiterInv, LimiterTypeOK
<1>3. LimiterInv' /\ Leave(w) /\ Doze(w, circuit[LimiterOf(w)])
  BY RefusedStep, KeysAre DEF Refuse, Refused, WarmerInv
<1> QED
  BY <1>1, <1>2, <1>3, BusyInLine, DozeInv

LEMMA TooManyInv ==
    ASSUME WarmerInv, NEW w \in Workers, TooMany(w)
    PROVE  WarmerInv'
<1>1. PICK hint \in Hints : Throttle(w, CircuitDelay(hint)) /\ Doze(w, CircuitDelay(hint))
  BY DEF TooMany
<1>2. CircuitDelay(hint) \in 0..MaxCircuit /\ CircuitDelay(hint) \in Nat
  BY DelaysAre, LimiterAssumption
<1>3. LimiterInv' /\ Leave(w) /\ at[w] # "out"
  BY <1>1, <1>2, ThrottleStep, KeysAre DEF Throttle, WarmerInv
<1> QED
  BY <1>1, <1>2, <1>3, BusyInLine, DozeInv

LEMMA WakeInv ==
    ASSUME WarmerInv, NEW w \in Workers, Wake(w)
    PROVE  WarmerInv'
<1>1. PICK k : k = worker[w].key
  OBVIOUS
<1>2. k \in Keys /\ InHand(w) = {k} /\ at[w] = "out"
  BY <1>1, OfWorker, KeysAre DEF Wake, HandOK, InHand
<1>3. LimiterInv'
  BY <1>2, JoinStep, KeysAre DEF Wake, WarmerInv
<1>4. worker' = [worker EXCEPT ![w] = Looking(k, 1)] /\ UNCHANGED <<queue, scheduled, nap, cache>>
  BY <1>1 DEF Wake
<1>5. /\ worker'[w] = Looking(k, 1) /\ at'[w] = "line"
      /\ \A v \in Workers : v # w => worker'[v] = worker[v] /\ at'[v] = at[v]
  BY <1>4, OthersStay DEF Wake, WarmerInv, TypeOK
<1>6. TypeOK'
  BY <1>2, <1>3, <1>4, HandsAre DEF WarmerInv, TypeOK, LimiterInv, Hands
<1>7. HandOK(w)'
  BY <1>2, <1>5, HandsAre, KeysAre DEF HandOK
<1>8. ExactFor(w)'
  <2>1. InHand(w)' = {k}
    BY <1>2, <1>5, HandsAre, KeysAre DEF InHand
  <2>2. worker'[w].pc # "off" /\ ExactFor(w)
    BY <1>5, HandsAre, OfWorker
  <2> QED BY <2>1, <2>2, <1>2, <1>4 DEF ExactFor
<1> QED
  BY <1>3, <1>4, <1>5, <1>6, <1>7, <1>8, OneWorker

LEMMA ListedInv ==
    ASSUME WarmerInv, NEW w \in Workers, Listed(w)
    PROVE  WarmerInv'
<1>1. worker[w].pc = "busy" /\ worker[w] \in Hands /\ HandOK(w) /\ ExactFor(w)
  BY BusyInLine, OfWorker DEF Listed
<1>2. PICK n : n = worker[w].stage + 1
  OBVIOUS
<1>3. n \in 1..Stages(w) /\ n \in 0..2
  BY <1>1, <1>2, KeysAre DEF Listed, HandOK
<1>4. PICK own : own = [worker[w] EXCEPT !.stage = n]
  OBVIOUS
<1>5. own \in Hands /\ own.pc = "busy" /\ own.key = worker[w].key /\ own.stage = n
  BY <1>1, <1>3, <1>4 DEF Hands
<1>6. LimiterInv'
  BY JoinAgainStep, KeysAre DEF Listed, WarmerInv
<1>7. worker' = [worker EXCEPT ![w] = own] /\ UNCHANGED <<queue, scheduled, nap, cache>>
  BY <1>2, <1>4 DEF Listed
<1>8. /\ worker'[w] = own /\ at'[w] = "line"
      /\ \A v \in Workers : v # w => worker'[v] = worker[v] /\ at'[v] = at[v]
  BY <1>7, OthersStay DEF Listed, WarmerInv, TypeOK
<1>9. TypeOK'
  BY <1>5, <1>6, <1>7 DEF WarmerInv, TypeOK, LimiterInv, Hands
<1>10. HandOK(w)'
  BY <1>1, <1>3, <1>5, <1>8 DEF HandOK
<1>11. ExactFor(w)'
  BY <1>1, <1>5, <1>7, <1>8 DEF ExactFor, InHand
<1> QED
  BY <1>6, <1>7, <1>8, <1>9, <1>10, <1>11, OneWorker

\* Everything that does not touch a worker.
LEMMA WorkersAlone ==
    ASSUME WarmerInv, LimiterInv', UNCHANGED warmerVars,
           \A w \in Workers : at[w] = "out" <=> at'[w] = "out"
    PROVE  WarmerInv'
<1>1. TypeOK'
  BY DEF WarmerInv, TypeOK, LimiterInv, warmerVars
<1>2. ASSUME NEW w \in Workers PROVE HandOK(w)' /\ ExactFor(w)'
  BY OfWorker DEF HandOK, ExactFor, InHand, warmerVars
<1> QED
  BY <1>1, <1>2 DEF WarmerInv

LEMMA PaceSendInv ==
    ASSUME WarmerInv, NEW w \in Workers, Pace(w) \/ Send(w), UNCHANGED warmerVars
    PROVE  WarmerInv'
<1>1. LimiterInv'
  BY PaceStep, SendStep, KeysAre DEF WarmerInv
<1>2. PICK stage \in {"pacing", "wire"} : at' = [at EXCEPT ![w] = stage]
  BY DEF Pace, Send
<1>3. at[w] # "out"
  BY DEF Pace, Send, Ready
<1>4. \A v \in Workers : at[v] = "out" <=> at'[v] = "out"
  BY <1>2, <1>3, KeysAre DEF WarmerInv, LimiterInv, LimiterTypeOK
<1> QED
  BY <1>1, <1>4, WorkersAlone

\* A row of w's table takes another value.
LEMMA RowPut ==
    ASSUME cache \in Caches, NEW w \in Workers, NEW k, NEW row,
           k \in KeysOf[w] => row \in Row,
           cache' = [cache EXCEPT ![w][k] = row]
    PROVE  /\ cache' \in Caches
           /\ \A v \in Workers : \A j \in KeysOf[v] :
                 cache'[v][j] = IF v = w /\ j = k THEN row ELSE cache[v][j]
<1>1. \A v \in Workers : cache[v] \in [KeysOf[v] -> Row]
  BY DEF Caches
<1>2. PICK table : table = [cache[w] EXCEPT ![k] = row]
  OBVIOUS
<1>3. cache' = [cache EXCEPT ![w] = table] /\ table \in [KeysOf[w] -> Row]
  BY <1>1, <1>2
<1>4. cache \in [Workers -> UNION {[KeysOf[v] -> Row] : v \in Workers}]
  BY DEF Caches
<1>5. table \in UNION {[KeysOf[v] -> Row] : v \in Workers}
  BY <1>3
<1>6. cache' \in [Workers -> UNION {[KeysOf[v] -> Row] : v \in Workers}]
  BY <1>3, <1>4, <1>5
<1>7. /\ cache'[w] = table
      /\ \A v \in Workers : v # w => cache'[v] = cache[v]
  BY <1>3, <1>4
<1>8. \A v \in Workers : cache'[v] \in [KeysOf[v] -> Row]
  BY <1>1, <1>3, <1>7
<1>9. \A j \in KeysOf[w] : table[j] = IF j = k THEN row ELSE cache[w][j]
  BY <1>1, <1>2
<1> QED
  BY <1>6, <1>7, <1>8, <1>9 DEF Caches

LEMMA RowsAre ==
    /\ Positive \in Row /\ Negative \in Row
    /\ \A row \in Row : \A outcome : Put(row, outcome) \in Row
    /\ \A row \in Row : [row EXCEPT !.fresh = FALSE] \in Row
                        /\ [row EXCEPT !.fresh = FALSE].status = row.status
    /\ \A row \in Row : row.status = "positive" =>
          Put(row, "negative").status = "positive" /\ Put(row, "found").status = "positive"
<1>1. Positive \in Row /\ Negative \in Row /\ Positive.status = "positive"
  BY DEF Row, Positive, Negative
<1>2. ASSUME NEW row \in Row, NEW outcome PROVE Put(row, outcome) \in Row
  BY <1>1 DEF Put, PutAnyway
<1>3. ASSUME NEW row \in Row
      PROVE  [row EXCEPT !.fresh = FALSE] \in Row /\ [row EXCEPT !.fresh = FALSE].status = row.status
  <2>1. CASE row \in [status : {"positive", "negative"}, fresh : BOOLEAN]
    BY <2>1 DEF Row
  <2>2. CASE row = Missing
    <3>1. [row EXCEPT !.fresh = FALSE] = Missing
      <4>1. [row EXCEPT !.fresh = FALSE] = [row EXCEPT !.fresh = row.fresh]
        BY <2>2 DEF Missing
      <4> QED BY <2>2, <4>1 DEF Missing
    <3> QED BY <2>2, <3>1 DEF Row
  <2> QED BY <2>1, <2>2 DEF Row
<1>4. ASSUME NEW row \in Row, row.status = "positive"
      PROVE  Put(row, "negative").status = "positive" /\ Put(row, "found").status = "positive"
  BY <1>1, <1>4 DEF Put, PutAnyway
<1> QED
  BY <1>1, <1>2, <1>3, <1>4

\* The outcome of a lookup as the table keeps it.
LEMMA FinishPuts ==
    ASSUME WarmerInv, NEW w \in Workers, Finish(w)
    PROVE  \/ UNCHANGED cache
           \/ \E outcome \in {"negative", "found"} :
                 cache' = [cache EXCEPT ![w][worker[w].key] = Put(cache[w][worker[w].key], outcome)]
<1>1. PICK outcome \in Outcomes(w), stored \in BOOLEAN :
          cache' = IF stored /\ outcome # "inconclusive"
                   THEN [cache EXCEPT ![w][worker[w].key] = Put(cache[w][worker[w].key], outcome)]
                   ELSE cache
  BY DEF Finish, FinishWith
<1>2. outcome \in {"negative", "found", "inconclusive"}
  BY DEF Outcomes
<1> QED
  BY <1>1, <1>2

LEMMA FinishInv ==
    ASSUME WarmerInv, NEW w \in Workers, Finish(w)
    PROVE  WarmerInv'
<1>1. worker[w].pc = "busy" /\ HandOK(w) /\ ExactFor(w)
  BY BusyInLine, OfWorker DEF Finish, FinishWith
<1>2. PICK k : k = worker[w].key
  OBVIOUS
<1>3. k \in Keys /\ InHand(w) = {k}
  BY <1>1, <1>2, KeysAre DEF HandOK, InHand
<1>4. LimiterInv' /\ Leave(w)
  BY LeaveStep, KeysAre DEF Finish, FinishWith, WarmerInv
<1>5. /\ worker' = [worker EXCEPT ![w] = Idle] /\ nap' = [nap EXCEPT ![w] = 0]
      /\ scheduled' = [scheduled EXCEPT ![w] = scheduled[w] \ {k}] /\ UNCHANGED queue
  BY <1>2 DEF Finish, FinishWith
<1>6. /\ worker'[w] = Idle /\ at'[w] = "out" /\ scheduled'[w] = scheduled[w] \ {k}
      /\ \A v \in Workers : v # w =>
            worker'[v] = worker[v] /\ scheduled'[v] = scheduled[v] /\ at'[v] = at[v]
  BY <1>4, <1>5, OthersStay DEF WarmerInv, TypeOK
<1>7. cache' \in Caches
  <2>1. cache \in Caches /\ \A j \in KeysOf[w] : cache[w][j] \in Row
    BY DEF WarmerInv, TypeOK, Caches
  <2>2. ASSUME NEW outcome,
               cache' = [cache EXCEPT ![w][worker[w].key] = Put(cache[w][worker[w].key], outcome)]
        PROVE  cache' \in Caches
    <3>1. k \in KeysOf[w] => Put(cache[w][k], outcome) \in Row
      BY <2>1, RowsAre
    <3> QED BY <1>2, <2>1, <2>2, <3>1, RowPut
  <2> QED BY <2>1, <2>2, FinishPuts
<1>8. TypeOK'
  BY <1>4, <1>5, <1>7, HandsAre, WarmerAssumption DEF WarmerInv, TypeOK, LimiterInv, Hands
<1>9. HandOK(w)'
  BY <1>6, HandsAre DEF HandOK
<1>10. ExactFor(w)'
  <2>1. InHand(w)' = {} /\ worker'[w].pc # "off"
    BY <1>6, HandsAre DEF InHand
  <2> QED BY <2>1, <1>1, <1>3, <1>5, <1>6 DEF ExactFor
<1> QED
  BY <1>4, <1>5, <1>6, <1>8, <1>9, <1>10, OneWorker

LEMMA ExpireInv ==
    ASSUME WarmerInv, NEW w \in Workers, NEW k \in KeysOf[w], Expire(w, k)
    PROVE  WarmerInv'
<1>1. cache \in Caches /\ cache[w][k] \in Row
  BY DEF WarmerInv, TypeOK, Caches
<1>2. PICK row : row = [cache[w][k] EXCEPT !.fresh = FALSE]
  OBVIOUS
<1>3. cache' = [cache EXCEPT ![w][k] = row] /\ row \in Row
  BY <1>1, <1>2, RowsAre DEF Expire
<1>4. cache' \in Caches
  BY <1>1, <1>3, RowPut
<1>5. LimiterInv'
  BY DEF Expire, WarmerInv, LimiterInv, LimiterTypeOK, LineInv, PacingInv, limiterVars, Holds
<1>6. TypeOK'
  BY <1>4, <1>5 DEF Expire, WarmerInv, TypeOK, LimiterInv
<1>7. ASSUME NEW v \in Workers PROVE HandOK(v)' /\ ExactFor(v)'
  BY OfWorker DEF Expire, HandOK, ExactFor, InHand, limiterVars
<1> QED
  BY <1>5, <1>6, <1>7 DEF WarmerInv

LEMMA TickInv ==
    ASSUME WarmerInv, Tick
    PROVE  WarmerInv'
<1>1. LimiterInv'
  BY TickStep DEF Tick, WarmerInv
<1>2. nap' \in [Workers -> 0..MaxRetry]
  BY WarmerAssumption DEF Tick, NapTick, WarmerInv, TypeOK
<1>3. TypeOK'
  BY <1>1, <1>2 DEF Tick, WarmerInv, TypeOK, LimiterInv
<1>4. ASSUME NEW v \in Workers PROVE HandOK(v)' /\ ExactFor(v)'
  BY OfWorker DEF Tick, LimiterTick, HandOK, ExactFor, InHand
<1> QED
  BY <1>1, <1>3, <1>4 DEF WarmerInv
-----------------------------------------------------------------------------
\* One step per action of Next.
LEMMA NextInv == WarmerInv /\ [Next]_vars => WarmerInv'
<1> SUFFICES ASSUME WarmerInv, [Next]_vars PROVE WarmerInv'
  OBVIOUS
<1>1. ASSUME NEW w \in Workers, Start(w) PROVE WarmerInv'
  BY <1>1, StartInv
<1>2. ASSUME NEW w \in Workers, Stop(w) PROVE WarmerInv'
  BY <1>2, StopInv
<1>3. ASSUME NEW w \in Workers, NEW K \in SUBSET KeysOf[w], Resolve(w, K) PROVE WarmerInv'
  BY <1>3, ResolveInv
<1>4. ASSUME NEW w \in Workers, Work(w) PROVE WarmerInv'
  BY <1>4, TakeInv, RefuseInv, WakeInv, PaceSendInv, TooManyInv, ListedInv, FinishInv DEF Work
<1>5. ASSUME NEW w \in Workers, NEW k \in KeysOf[w], Expire(w, k) PROVE WarmerInv'
  BY <1>5, ExpireInv
<1>6. CASE Tick
  BY <1>6, TickInv
<1>7. CASE UNCHANGED vars
  <2>1. LimiterInv'
    BY <1>7 DEF vars, WarmerInv, LimiterInv, LimiterTypeOK, LineInv, PacingInv, limiterVars, Holds
  <2> QED BY <1>7, <2>1, WorkersAlone DEF vars, limiterVars
<1> QED
  BY <1>1, <1>2, <1>3, <1>4, <1>5, <1>6, <1>7 DEF Next, Warm

\* The inductive invariant of the limiter and the warmers holds at every step, whatever
\* is cancelled, lost or expires (WarmerInv, the ground of the other theorems).
THEOREM SpecInv == Spec => []WarmerInv
BY InitInv, NextInv, PTL DEF Spec

\* The types of what the services and the limiter keep; in particular no countdown
\* goes below zero or beyond its limit.
THEOREM TypeCorrect == Spec => []TypeOK
<1>1. WarmerInv => TypeOK
  BY DEF WarmerInv
<1> QED
  BY <1>1, SpecInv, PTL

\* At most one of the warmers sleeps to pace or has a request on the wire, though
\* either may be cancelled wherever it is (SteamCommunityLimiter.run).
THEOREM RequestsSerialised == Spec => []Serialised
<1>1. WarmerInv => Serialised
  BY SerialisedHolds DEF WarmerInv, LimiterInv
<1> QED
  BY <1>1, SpecInv, PTL

\* _scheduled is exactly the queue and the key in hand, each key once, through
\* failed writes, rate limits, sleeps and shutdowns (_queue_lookup, _run_worker).
THEOREM ScheduleExact == Spec => []ScheduledExactly
<1>1. WarmerInv => ScheduledExactly
  BY DEF WarmerInv, ExactFor, ScheduledExactly
<1> QED
  BY <1>1, SpecInv, PTL

\* A request starts only when the interval has passed and the circuit is closed,
\* whoever left the line meanwhile (SteamCommunityLimiter.run).
THEOREM StartsAreSpaced == Spec => StartsSpaced
<1>1. ASSUME WarmerInv, [Next]_vars PROVE [StartsSpacedStep]_limiterVars
  <2>1. ASSUME UNCHANGED at PROVE StartsSpacedStep
    BY <2>1 DEF StartsSpacedStep
  <2>2. ASSUME NEW w \in Workers, NEW place \in {"out", "line", "pacing"},
               at' = [at EXCEPT ![w] = place]
        PROVE  StartsSpacedStep
    BY <1>1, <2>2, OthersSpaced, KeysAre DEF WarmerInv
  <2>3. ASSUME NEW w \in Workers, Work(w) PROVE StartsSpacedStep
    <3>1. CASE Send(w)
      BY <1>1, <3>1, SendSpaced, KeysAre DEF WarmerInv
    <3>2. CASE Pace(w)
      BY <2>2, <3>2 DEF Pace
    <3>3. CASE Take(w) \/ Wake(w) \/ Listed(w)
      BY <2>2, <3>3 DEF Take, Wake, Listed, Join, JoinAgain
    <3>4. CASE Refuse(w) \/ TooMany(w) \/ Finish(w)
      BY <2>2, <3>4 DEF Refuse, Refused, TooMany, Throttle, Finish, FinishWith, Leave
    <3> QED BY <2>3, <3>1, <3>2, <3>3, <3>4 DEF Work
  <2>4. ASSUME NEW w \in Workers, Stop(w) PROVE StartsSpacedStep
    BY <2>2, <2>4 DEF Stop, Leave
  <2>5. CASE Warm
    <3>1. ASSUME NEW w \in Workers,
                 \/ Start(w)
                 \/ \E K \in SUBSET KeysOf[w] : Resolve(w, K)
                 \/ \E k \in KeysOf[w] : Expire(w, k)
          PROVE  UNCHANGED at
      BY <3>1 DEF Start, Resolve, Expire, limiterVars
    <3> QED BY <2>1, <2>3, <2>4, <2>5, <3>1 DEF Warm
  <2>6. CASE Tick
    BY <2>1, <2>6 DEF Tick, LimiterTick
  <2>7. CASE UNCHANGED vars
    BY <2>1, <2>7 DEF vars, limiterVars
  <2> QED BY <1>1, <2>5, <2>6, <2>7 DEF Next
<1> QED
  BY <1>1, SpecInv, PTL DEF Spec, StartsSpaced, StartsSpacedStep

\* A row that holds a value keeps one, whatever later lookups say
\* (put_positive, put_negative).
THEOREM FoundStays == Spec => FoundIsKept
<1> DEFINE Kept == \A w \in Workers : \A k \in KeysOf[w] :
                      cache[w][k].status = "positive" => cache'[w][k].status = "positive"
<1>1. ASSUME WarmerInv, [Next]_vars PROVE [Kept]_vars
  <2>1. cache \in Caches /\ \A w \in Workers : \A k \in KeysOf[w] : cache[w][k] \in Row
    BY <1>1 DEF WarmerInv, TypeOK, Caches
  <2>2. ASSUME UNCHANGED cache PROVE Kept
    BY <2>2
  <2>3. ASSUME NEW w \in Workers, NEW k, NEW row,
               cache' = [cache EXCEPT ![w][k] = row],
               k \in KeysOf[w] => row \in Row /\ (cache[w][k].status = "positive" => row.status = "positive")
        PROVE  Kept
    BY <2>1, <2>3, RowPut
  <2>4. ASSUME NEW w \in Workers, Finish(w) PROVE Kept
    <3>1. ASSUME NEW outcome \in {"negative", "found"},
                 cache' = [cache EXCEPT ![w][worker[w].key] = Put(cache[w][worker[w].key], outcome)]
          PROVE  Kept
      <4>1. PICK k, row : k = worker[w].key /\ row = Put(cache[w][k], outcome)
        OBVIOUS
      <4>2. k \in KeysOf[w] => row \in Row /\ (cache[w][k].status = "positive" => row.status = "positive")
        BY <2>1, <4>1, RowsAre
      <4>3. cache' = [cache EXCEPT ![w][k] = row]
        BY <3>1, <4>1
      <4> QED BY <2>3, <4>2, <4>3
    <3> QED BY <1>1, <2>2, <2>4, <3>1, FinishPuts
  <2>5. ASSUME NEW w \in Workers, NEW k \in KeysOf[w], Expire(w, k) PROVE Kept
    <3>1. PICK row : row = [cache[w][k] EXCEPT !.fresh = FALSE]
      OBVIOUS
    <3>2. cache' = [cache EXCEPT ![w][k] = row] /\ row \in Row /\ row.status = cache[w][k].status
      BY <2>1, <2>5, <3>1, RowsAre DEF Expire
    <3> QED BY <2>3, <3>2
  <2>6. CASE Warm
    <3>1. ASSUME NEW w \in Workers,
                 \/ Start(w) \/ Stop(w)
                 \/ \E K \in SUBSET KeysOf[w] : Resolve(w, K)
                 \/ Take(w) \/ Refuse(w) \/ Wake(w) \/ TooMany(w) \/ Listed(w)
                 \/ (Pace(w) \/ Send(w)) /\ UNCHANGED warmerVars
          PROVE  UNCHANGED cache
      BY <3>1 DEF Start, Stop, Resolve, Take, Refuse, Wake, TooMany, Listed, Doze, warmerVars
    <3> QED BY <2>2, <2>4, <2>5, <2>6, <3>1 DEF Warm, Work
  <2>7. CASE Tick
    BY <2>2, <2>7 DEF Tick
  <2>8. CASE UNCHANGED vars
    BY <2>2, <2>8 DEF vars, warmerVars
  <2> QED BY <1>1, <2>6, <2>7, <2>8 DEF Next
<1> QED
  BY <1>1, SpecInv, PTL DEF Spec, FoundIsKept
=============================================================================
