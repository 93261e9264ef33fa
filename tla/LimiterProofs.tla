--------------------------- MODULE LimiterProofs ----------------------------
(***************************************************************************)
(* What the steps of the limiter preserve, for any callers: the lock's     *)
(* line has each caller that is in run() once, in its own limiter's line,  *)
(* and only its head paces or is on the wire.  WarmerProofs and            *)
(* BadgeArtworkProofs cite these lemmas for each step of a client that     *)
(* moves in the line.                                                      *)
(***************************************************************************)
EXTENDS CommunityLimiter, SequenceTheorems, TLAPS

-----------------------------------------------------------------------------
\* Sequences without duplicates.

LEMMA AppendUnique ==
    ASSUME NEW S, NEW s \in Seq(S), NEW e \in S
    PROVE  /\ Append(s, e) \in Seq(S)
           /\ Range(Append(s, e)) = Range(s) \union {e}
           /\ IsInjective(s) /\ e \notin Range(s) => IsInjective(Append(s, e))
           /\ s # <<>> => Head(Append(s, e)) = Head(s)
<1> DEFINE t == Append(s, e)
<1>1. /\ t \in Seq(S) /\ Len(t) = Len(s) + 1 /\ DOMAIN t = 1..Len(s) + 1
      /\ \A i \in 1..Len(s) : t[i] = s[i]
      /\ t[Len(s) + 1] = e /\ DOMAIN s = 1..Len(s)
  OBVIOUS
<1> HIDE DEF t
<1>2. Range(t) = Range(s) \union {e}
  BY <1>1 DEF Range
<1>3. IsInjective(s) /\ e \notin Range(s) => IsInjective(t)
  BY <1>1 DEF Range, IsInjective
<1>4. s # <<>> => Head(t) = Head(s)
  BY <1>1
<1> QED
  BY <1>1, <1>2, <1>3, <1>4 DEF t

\* Taking out the element at i.
LEMMA RemoveAtIs ==
    ASSUME NEW S, NEW s \in Seq(S), NEW i \in 1..Len(s)
    PROVE  /\ RemoveAt(s, i) \in Seq(S)
           /\ Len(RemoveAt(s, i)) = Len(s) - 1
           /\ \A j \in 1..Len(s) - 1 :
                 RemoveAt(s, i)[j] = IF j < i THEN s[j] ELSE s[j + 1]
<1> DEFINE p == SubSeq(s, 1, i - 1)
           q == SubSeq(s, i + 1, Len(s))
<1>1. /\ p \in Seq(S) /\ Len(p) = i - 1
      /\ \A j \in 1..i - 1 : p[j] = s[j]
  BY SubSeqProperties
<1>2. /\ q \in Seq(S) /\ Len(q) = Len(s) - i
      /\ \A j \in 1..Len(s) - i : q[j] = s[i + j]
  BY SubSeqProperties
<1> HIDE DEF p, q
<1>3. /\ p \o q \in Seq(S) /\ Len(p \o q) = Len(p) + Len(q)
      /\ \A j \in 1..Len(p) + Len(q) :
            (p \o q)[j] = IF j <= Len(p) THEN p[j] ELSE q[j - Len(p)]
  BY <1>1, <1>2, ConcatProperties
<1>4. \A j \in 1..Len(s) - 1 : (p \o q)[j] = IF j < i THEN s[j] ELSE s[j + 1]
  <2> TAKE j \in 1..Len(s) - 1
  <2>1. CASE j < i
    BY <2>1, <1>1, <1>2, <1>3
  <2>2. CASE ~(j < i)
    <3>1. (p \o q)[j] = q[j - (i - 1)]
      BY <2>2, <1>1, <1>2, <1>3
    <3>2. j - (i - 1) \in 1..Len(s) - i /\ i + (j - (i - 1)) = j + 1
      BY <2>2
    <3> QED BY <2>2, <3>1, <3>2, <1>2
  <2> QED BY <2>1, <2>2
<1>5. Len(p \o q) = Len(s) - 1
  BY <1>1, <1>2, <1>3
<1>6. RemoveAt(s, i) = p \o q
  BY DEF RemoveAt, p, q
<1> QED
  BY <1>3, <1>4, <1>5, <1>6, Zenon

\* Taking the only occurrence of e out leaves the others, in their order.
LEMMA RemoveAtUnique ==
    ASSUME NEW S, NEW s \in Seq(S), IsInjective(s), NEW i \in 1..Len(s)
    PROVE  /\ RemoveAt(s, i) \in Seq(S)
           /\ IsInjective(RemoveAt(s, i))
           /\ Range(RemoveAt(s, i)) = Range(s) \ {s[i]}
           /\ s[i] # Head(s) => RemoveAt(s, i) # <<>> /\ Head(RemoveAt(s, i)) = Head(s)
<1> DEFINE t == RemoveAt(s, i)
<1>1. /\ t \in Seq(S) /\ Len(t) = Len(s) - 1
      /\ \A j \in 1..Len(s) - 1 : t[j] = IF j < i THEN s[j] ELSE s[j + 1]
      /\ DOMAIN t = 1..Len(s) - 1 /\ DOMAIN s = 1..Len(s)
  BY RemoveAtIs
<1> HIDE DEF t
<1>2. ASSUME NEW j \in 1..Len(s), NEW k \in 1..Len(s), s[j] = s[k]
      PROVE  j = k
  BY <1>2, <1>1 DEF IsInjective
<1>3. IsInjective(t)
  <2> SUFFICES ASSUME NEW j \in 1..Len(s) - 1, NEW k \in 1..Len(s) - 1, t[j] = t[k]
               PROVE  j = k
    BY <1>1 DEF IsInjective
  <2> DEFINE J == IF j < i THEN j ELSE j + 1
             K == IF k < i THEN k ELSE k + 1
  <2>1. J \in 1..Len(s) /\ K \in 1..Len(s) /\ t[j] = s[J] /\ t[k] = s[K]
    BY <1>1
  <2>2. J = K
    BY <2>1, <1>2
  <2> QED BY <2>2
<1>4. Range(t) \subseteq Range(s) \ {s[i]}
  <2> SUFFICES ASSUME NEW j \in 1..Len(s) - 1
               PROVE  t[j] \in Range(s) /\ t[j] # s[i]
    BY <1>1 DEF Range
  <2> DEFINE J == IF j < i THEN j ELSE j + 1
  <2>1. J \in 1..Len(s) /\ J # i /\ t[j] = s[J]
    BY <1>1
  <2> HIDE DEF J
  <2> QED BY <2>1, <1>1, <1>2 DEF Range
<1>5. Range(s) \ {s[i]} \subseteq Range(t)
  <2> SUFFICES ASSUME NEW j \in 1..Len(s), s[j] # s[i]
               PROVE  s[j] \in Range(t)
    BY <1>1 DEF Range
  <2>1. CASE j < i
    <3>1. j \in 1..Len(s) - 1 /\ t[j] = s[j]
      BY <2>1, <1>1
    <3> QED BY <3>1, <1>1 DEF Range
  <2>2. CASE j > i
    <3>1. j - 1 \in 1..Len(s) - 1 /\ ~(j - 1 < i) /\ (j - 1) + 1 = j
      BY <2>2
    <3>2. t[j - 1] = s[j]
      BY <3>1, <1>1
    <3> QED BY <3>1, <3>2, <1>1 DEF Range
  <2> QED BY <2>1, <2>2
<1>6. s[i] # Head(s) => t # <<>> /\ Head(t) = Head(s)
  <2> SUFFICES ASSUME s[i] # Head(s) PROVE t # <<>> /\ Head(t) = Head(s)
    OBVIOUS
  <2>1. i > 1 /\ 1 \in 1..Len(s) - 1
    OBVIOUS
  <2>2. t[1] = s[1] /\ t # <<>>
    BY <2>1, <1>1
  <2> QED BY <2>2, <1>1
<1> QED
  BY <1>1, <1>3, <1>4, <1>5, <1>6 DEF t

\* RemoveFirst on a sequence without duplicates.
LEMMA RemoveUnique ==
    ASSUME NEW S, NEW s \in Seq(S), IsInjective(s), NEW e
    PROVE  /\ RemoveFirst(s, e) \in Seq(S)
           /\ IsInjective(RemoveFirst(s, e))
           /\ Range(RemoveFirst(s, e)) = Range(s) \ {e}
           /\ s # <<>> /\ e # Head(s) => /\ RemoveFirst(s, e) # <<>>
                                         /\ Head(RemoveFirst(s, e)) = Head(s)
<1>1. CASE \E i \in 1..Len(s) : s[i] = e
  <2> DEFINE I == {i \in 1..Len(s) : s[i] = e}
  <2>1. PICK i \in 1..Len(s) : s[i] = e
    BY <1>1
  <2>2. I = {i}
    BY <2>1 DEF IsInjective
  <2>3. Min(I) = i
    BY <2>2 DEF Min
  <2>4. SelectInSeq(s, LAMBDA v : v = e) = i
    BY <2>2, <2>3 DEF SelectInSeq
  <2>5. RemoveFirst(s, e) = RemoveAt(s, i)
    BY <1>1, <2>4 DEF RemoveFirst
  <2> QED BY <2>1, <2>5, RemoveAtUnique
<1>2. CASE ~ \E i \in 1..Len(s) : s[i] = e
  <2>1. RemoveFirst(s, e) = s /\ e \notin Range(s)
    BY <1>2 DEF RemoveFirst, Range
  <2> QED BY <2>1
<1> QED
  BY <1>1, <1>2
-----------------------------------------------------------------------------
\* Whoever is in run() is in its own limiter's line, once; only the head of a
\* line has gone past the lock.
LineInv ==
    /\ line \in [Limiters -> Seq(Actors)]
    /\ at \in [Actors -> {"out", "line", "pacing", "wire"}]
    /\ \A l \in Limiters : IsInjective(line[l])
    /\ \A l \in Limiters, a \in Actors :
          a \in Range(line[l]) <=> LimiterOf(a) = l /\ at[a] # "out"
    /\ \A a \in Actors : at[a] \in {"pacing", "wire"} => Head(line[LimiterOf(a)]) = a

\* A pacing sleep is no shorter than what is left of the interval.
PacingInv == \A a \in Actors : at[a] = "pacing" => gap[LimiterOf(a)] <= pause[a]

LimiterInv == LimiterTypeOK /\ LineInv /\ PacingInv

LEMMA OwnLimiter == \A a : LimiterOf(a) \in Limiters
BY DEF LimiterOf, Limiters

LEMMA HolderHolds ==
    ASSUME LineInv, NEW a \in Actors, at[a] \in {"pacing", "wire"}
    PROVE  Holds(a)
<1>1. at[a] # "out" /\ LimiterOf(a) \in Limiters
  BY OwnLimiter
<1> QED
  BY <1>1 DEF LineInv, Holds

LEMMA SerialisedHolds == LineInv => Serialised
BY OwnLimiter DEF LineInv, Serialised

LEMMA LimiterInitInv == LimiterInit => LimiterInv
<1> SUFFICES ASSUME LimiterInit PROVE LimiterInv
  OBVIOUS
<1>1. LimiterTypeOK
  BY LimiterAssumption DEF LimiterInit, LimiterTypeOK
<1>2. /\ <<>> \in Seq(Actors) /\ IsInjective(<<>>) /\ Range(<<>>) = {}
  BY DEF IsInjective, Range
<1>3. LineInv
  BY <1>2 DEF LimiterInit, LineInv
<1>4. PacingInv
  BY DEF LimiterInit, PacingInv
<1> QED
  BY <1>1, <1>3, <1>4 DEF LimiterInv

\* a goes to the end of its line.
LEMMA JoinKeeps ==
    ASSUME LineInv, NEW a \in Actors, at[a] = "out", Join(a)
    PROVE  LineInv'
<1> DEFINE m == LimiterOf(a)
<1>1. m \in Limiters /\ a \notin Range(line[m]) /\ line[m] \in Seq(Actors) /\ IsInjective(line[m])
  BY OwnLimiter DEF LineInv
<1>2. /\ line' = [line EXCEPT ![m] = Append(line[m], a)]
      /\ at' = [at EXCEPT ![a] = "line"]
  BY DEF Join
<1> HIDE DEF m
<1>3. PICK long : long = Append(line[m], a)
  OBVIOUS
<1>4. /\ long \in Seq(Actors) /\ IsInjective(long) /\ Range(long) = Range(line[m]) \union {a}
      /\ line[m] # <<>> => Head(long) = Head(line[m])
  BY <1>1, <1>3, AppendUnique
<1>5. line' = [line EXCEPT ![m] = long]
  BY <1>2, <1>3
<1>6. \A b \in Actors : b # a => at'[b] = at[b]
  BY <1>2 DEF LineInv
<1>7. line' \in [Limiters -> Seq(Actors)] /\ at' \in [Actors -> {"out", "line", "pacing", "wire"}]
  BY <1>1, <1>2, <1>4, <1>5 DEF LineInv
<1>8. at'[a] = "line" /\ line'[m] = long /\ \A l \in Limiters : l # m => line'[l] = line[l]
  BY <1>1, <1>2, <1>5 DEF LineInv
<1>9. \A l \in Limiters : IsInjective(line'[l])
  BY <1>4, <1>8 DEF LineInv
<1>10. \A l \in Limiters, b \in Actors :
          b \in Range(line'[l]) <=> LimiterOf(b) = l /\ at'[b] # "out"
  BY <1>1, <1>4, <1>6, <1>8 DEF LineInv, m
<1>11. ASSUME NEW b \in Actors, at'[b] \in {"pacing", "wire"}
       PROVE  Head(line'[LimiterOf(b)]) = b
  <2>1. b # a /\ at[b] \in {"pacing", "wire"}
    BY <1>6, <1>8, <1>11
  <2>2. Head(line[LimiterOf(b)]) = b /\ b \in Range(line[LimiterOf(b)])
    BY <2>1, OwnLimiter DEF LineInv
  <2>3. line[LimiterOf(b)] # <<>>
    BY <2>2 DEF Range
  <2> QED BY <1>4, <1>8, <2>2, <2>3, OwnLimiter
<1> QED
  BY <1>7, <1>9, <1>10, <1>11 DEF LineInv

\* a leaves its line, from wherever it is in it, or was in none.
LEMMA LeaveKeeps ==
    ASSUME LineInv, NEW a \in Actors, Leave(a)
    PROVE  LineInv'
<1> DEFINE m == LimiterOf(a)
<1>1. m \in Limiters /\ line[m] \in Seq(Actors) /\ IsInjective(line[m])
  BY OwnLimiter DEF LineInv
<1>2. /\ line' = [line EXCEPT ![m] = RemoveFirst(line[m], a)]
      /\ at' = [at EXCEPT ![a] = "out"]
  BY DEF Leave, OutOfLine
<1> HIDE DEF m
<1>3. PICK short : short = RemoveFirst(line[m], a)
  OBVIOUS
<1>4. /\ short \in Seq(Actors) /\ IsInjective(short) /\ Range(short) = Range(line[m]) \ {a}
      /\ line[m] # <<>> /\ a # Head(line[m]) => Head(short) = Head(line[m])
  BY <1>1, <1>3, RemoveUnique
<1>5. line' = [line EXCEPT ![m] = short]
  BY <1>2, <1>3
<1>6. \A b \in Actors : b # a => at'[b] = at[b]
  BY <1>2 DEF LineInv
<1>7. line' \in [Limiters -> Seq(Actors)] /\ at' \in [Actors -> {"out", "line", "pacing", "wire"}]
  BY <1>1, <1>2, <1>4, <1>5 DEF LineInv
<1>8. at'[a] = "out" /\ line'[m] = short /\ \A l \in Limiters : l # m => line'[l] = line[l]
  BY <1>1, <1>2, <1>5 DEF LineInv
<1>9. \A l \in Limiters : IsInjective(line'[l])
  BY <1>4, <1>8 DEF LineInv
<1>10. \A l \in Limiters, b \in Actors :
          b \in Range(line'[l]) <=> LimiterOf(b) = l /\ at'[b] # "out"
  BY <1>1, <1>4, <1>6, <1>8 DEF LineInv, m
<1>11. ASSUME NEW b \in Actors, at'[b] \in {"pacing", "wire"}
       PROVE  Head(line'[LimiterOf(b)]) = b
  <2>1. b # a /\ at[b] \in {"pacing", "wire"}
    BY <1>6, <1>8, <1>11
  <2>2. Head(line[LimiterOf(b)]) = b /\ b \in Range(line[LimiterOf(b)])
    BY <2>1, OwnLimiter DEF LineInv
  <2>3. line[LimiterOf(b)] # <<>>
    BY <2>2 DEF Range
  <2> QED BY <1>4, <1>8, <2>1, <2>2, <2>3, OwnLimiter
<1> QED
  BY <1>7, <1>9, <1>10, <1>11 DEF LineInv

\* a leaves its line and goes to the end of it.
LEMMA JoinAgainKeeps ==
    ASSUME LineInv, NEW a \in Actors, JoinAgain(a)
    PROVE  LineInv'
<1> DEFINE m == LimiterOf(a)
<1>1. m \in Limiters /\ line[m] \in Seq(Actors) /\ IsInjective(line[m])
  BY OwnLimiter DEF LineInv
<1>2. PICK short : short = RemoveFirst(line[m], a)
  OBVIOUS
<1>3. /\ short \in Seq(Actors) /\ IsInjective(short) /\ Range(short) = Range(line[m]) \ {a}
      /\ line[m] # <<>> /\ a # Head(line[m]) => short # <<>> /\ Head(short) = Head(line[m])
  BY <1>1, <1>2, RemoveUnique
<1>4. PICK next : next = Append(short, a)
  OBVIOUS
<1>5. /\ next \in Seq(Actors) /\ IsInjective(next) /\ Range(next) = Range(short) \union {a}
      /\ short # <<>> => Head(next) = Head(short)
  BY <1>3, <1>4, AppendUnique
<1>6. /\ line' = [line EXCEPT ![m] = next]
      /\ at' = [at EXCEPT ![a] = "line"]
  <2>1. OutOfLine(a) = [line EXCEPT ![m] = short]
    BY <1>2 DEF OutOfLine
  <2>2. line' = [[line EXCEPT ![m] = short] EXCEPT ![m] = Append([line EXCEPT ![m] = short][m], a)]
    BY <2>1 DEF JoinAgain
  <2>3. [line EXCEPT ![m] = short][m] = short
    BY <1>1 DEF LineInv
  <2> QED BY <2>2, <2>3, <1>1, <1>4 DEF JoinAgain, LineInv
<1> HIDE DEF m
<1>7. \A b \in Actors : b # a => at'[b] = at[b]
  BY <1>6 DEF LineInv
<1>8. line' \in [Limiters -> Seq(Actors)] /\ at' \in [Actors -> {"out", "line", "pacing", "wire"}]
  BY <1>1, <1>5, <1>6 DEF LineInv
<1>9. at'[a] = "line" /\ line'[m] = next /\ \A l \in Limiters : l # m => line'[l] = line[l]
  BY <1>1, <1>6 DEF LineInv
<1>10. \A l \in Limiters : IsInjective(line'[l])
  BY <1>5, <1>9 DEF LineInv
<1>11. \A l \in Limiters, b \in Actors :
          b \in Range(line'[l]) <=> LimiterOf(b) = l /\ at'[b] # "out"
  BY <1>1, <1>3, <1>5, <1>7, <1>9 DEF LineInv, m
<1>12. ASSUME NEW b \in Actors, at'[b] \in {"pacing", "wire"}
       PROVE  Head(line'[LimiterOf(b)]) = b
  <2>1. b # a /\ at[b] \in {"pacing", "wire"}
    BY <1>7, <1>9, <1>12
  <2>2. Head(line[LimiterOf(b)]) = b /\ b \in Range(line[LimiterOf(b)])
    BY <2>1, OwnLimiter DEF LineInv
  <2>3. line[LimiterOf(b)] # <<>>
    BY <2>2 DEF Range
  <2> QED BY <1>3, <1>5, <1>9, <2>1, <2>2, <2>3, OwnLimiter
<1> QED
  BY <1>8, <1>10, <1>11, <1>12 DEF LineInv

\* The holder goes on; the line stays.
LEMMA HolderKeeps ==
    ASSUME LineInv, NEW a \in Actors, Holds(a), NEW stage \in {"pacing", "wire"},
           UNCHANGED line, at' = [at EXCEPT ![a] = stage]
    PROVE  LineInv'
<1>1. at[a] # "out" /\ Head(line[LimiterOf(a)]) = a
  BY OwnLimiter DEF LineInv, Holds
<1>2. at' \in [Actors -> {"out", "line", "pacing", "wire"}]
  BY DEF LineInv
<1>3. at'[a] = stage /\ \A b \in Actors : b # a => at'[b] = at[b]
  BY DEF LineInv
<1> QED
  BY <1>1, <1>2, <1>3 DEF LineInv
-----------------------------------------------------------------------------
\* The steps of the limiter, with what their callers leave alone.

\* The clocks stay and nobody new paces: LimiterInv follows from its part about the
\* line.
LEMMA ClocksKept ==
    ASSUME LimiterInv, LineInv', UNCHANGED <<pause, gap>>,
           circuit' \in [Limiters -> 0..MaxCircuit], throttled' \in 0..MaxThrottled,
           \A a \in Actors : at'[a] = "pacing" => at[a] = "pacing"
    PROVE  LimiterInv'
<1>1. LimiterTypeOK'
  BY DEF LimiterInv, LimiterTypeOK, LineInv
<1>2. PacingInv'
  BY DEF LimiterInv, PacingInv
<1> QED
  BY <1>1, <1>2 DEF LimiterInv

\* Where the others are when a moves to where it does not pace.
LEMMA Elsewhere ==
    ASSUME LimiterInv, NEW a \in Actors, NEW place \in {"out", "line", "wire"},
           at' = [at EXCEPT ![a] = place]
    PROVE  /\ at'[a] = place
           /\ \A b \in Actors : b # a => at'[b] = at[b]
           /\ \A b \in Actors : at'[b] = "pacing" => at[b] = "pacing"
BY DEF LimiterInv, LimiterTypeOK

LEMMA JoinStep ==
    ASSUME LimiterInv, NEW a \in Actors, at[a] = "out", Join(a),
           UNCHANGED <<pause, gap, circuit, throttled>>
    PROVE  LimiterInv'
<1>1. LineInv'
  BY JoinKeeps DEF LimiterInv
<1>2. at' = [at EXCEPT ![a] = "line"]
  BY DEF Join
<1> QED
  BY <1>1, <1>2, ClocksKept, Elsewhere DEF LimiterInv, LimiterTypeOK

LEMMA JoinAgainStep ==
    ASSUME LimiterInv, NEW a \in Actors, JoinAgain(a),
           UNCHANGED <<pause, gap, circuit, throttled>>
    PROVE  LimiterInv'
<1>1. LineInv'
  BY JoinAgainKeeps DEF LimiterInv
<1>2. at' = [at EXCEPT ![a] = "line"]
  BY DEF JoinAgain
<1> QED
  BY <1>1, <1>2, ClocksKept, Elsewhere DEF LimiterInv, LimiterTypeOK

LEMMA LeaveStep ==
    ASSUME LimiterInv, NEW a \in Actors, Leave(a),
           UNCHANGED <<pause, gap, circuit, throttled>>
    PROVE  LimiterInv'
<1>1. LineInv'
  BY LeaveKeeps DEF LimiterInv
<1>2. at' = [at EXCEPT ![a] = "out"]
  BY DEF Leave
<1> QED
  BY <1>1, <1>2, ClocksKept, Elsewhere DEF LimiterInv, LimiterTypeOK

LEMMA RefusedStep ==
    ASSUME LimiterInv, NEW a \in Actors, Refused(a)
    PROVE  LimiterInv'
BY LeaveStep DEF Refused

LEMMA ThrottleStep ==
    ASSUME LimiterInv, NEW a \in Actors, NEW delay \in 0..MaxCircuit, Throttle(a, delay)
    PROVE  LimiterInv'
<1>1. LineInv'
  BY LeaveKeeps DEF LimiterInv, Throttle
<1>2. at' = [at EXCEPT ![a] = "out"] /\ UNCHANGED <<pause, gap>>
  BY DEF Throttle, Leave
<1>3. throttled' \in 0..MaxThrottled
  BY LimiterAssumption DEF Throttle, LimiterInv, LimiterTypeOK
<1>4. circuit' \in [Limiters -> 0..MaxCircuit]
  BY LimiterAssumption, OwnLimiter DEF Throttle, LimiterInv, LimiterTypeOK
<1> QED
  BY <1>1, <1>2, <1>3, <1>4, ClocksKept, Elsewhere

LEMMA PaceStep ==
    ASSUME LimiterInv, NEW a \in Actors, Pace(a)
    PROVE  LimiterInv'
<1>1. LineInv'
  BY HolderKeeps DEF Pace, LimiterInv
<1>2. LimiterTypeOK'
  BY OwnLimiter, <1>1 DEF Pace, LimiterInv, LimiterTypeOK, LineInv
<1>3. PacingInv'
  <2> SUFFICES ASSUME NEW b \in Actors, at'[b] = "pacing"
               PROVE  gap[LimiterOf(b)] <= pause'[b]
    BY DEF PacingInv, Pace
  <2>1. gap[LimiterOf(b)] \in 0..Interval /\ gap[LimiterOf(a)] \in 0..Interval
    BY OwnLimiter DEF LimiterInv, LimiterTypeOK
  <2>2. CASE b = a
    <3>1. pause'[a] = gap[LimiterOf(a)]
      BY DEF Pace, LimiterInv, LimiterTypeOK
    <3> QED BY <2>1, <2>2, <3>1, LimiterAssumption
  <2>3. CASE b # a
    <3>1. pause'[b] = pause[b] /\ at[b] = "pacing"
      BY <2>3 DEF Pace, LimiterInv, LimiterTypeOK
    <3> QED BY <3>1 DEF LimiterInv, PacingInv
  <2> QED BY <2>2, <2>3
<1> QED
  BY <1>1, <1>2, <1>3 DEF LimiterInv

\* Nobody else of the limiter can be pacing when a sends: a holds the lock.
LEMMA SendStep ==
    ASSUME LimiterInv, NEW a \in Actors, Send(a)
    PROVE  LimiterInv'
<1>1. Holds(a) /\ at' = [at EXCEPT ![a] = "wire"] /\ UNCHANGED <<line, pause, circuit, throttled>>
  BY DEF Send, Ready
<1>2. LineInv'
  BY <1>1, HolderKeeps DEF LimiterInv
<1>3. gap' = [gap EXCEPT ![LimiterOf(a)] = Interval] /\ Interval \in 0..Interval
  BY LimiterAssumption DEF Send
<1>4. LimiterTypeOK'
  BY OwnLimiter, <1>1, <1>2, <1>3 DEF LimiterInv, LimiterTypeOK, LineInv
<1>5. ASSUME NEW b \in Actors, at'[b] = "pacing"
      PROVE  gap'[LimiterOf(b)] <= pause'[b]
  <2>1. b # a /\ at[b] = "pacing"
    BY <1>1, <1>5, Elsewhere
  <2>2. LimiterOf(b) # LimiterOf(a)
    <3>1. Head(line[LimiterOf(b)]) = b /\ Head(line[LimiterOf(a)]) = a
      BY <1>1, <2>1 DEF LimiterInv, LineInv, Holds
    <3> QED BY <3>1, <2>1
  <2>3. gap'[LimiterOf(b)] = gap[LimiterOf(b)]
    BY <1>3, <2>2, OwnLimiter DEF LimiterInv, LimiterTypeOK
  <2> QED BY <1>1, <2>1, <2>3 DEF LimiterInv, PacingInv
<1>6. PacingInv'
  BY <1>5 DEF PacingInv
<1> QED
  BY <1>2, <1>4, <1>6 DEF LimiterInv

\* All countdowns go down together.
LEMMA TickStep ==
    ASSUME LimiterInv, LimiterTick
    PROVE  LimiterInv'
<1>1. LineInv'
  BY DEF LimiterInv, LineInv, LimiterTick
<1>2. /\ \A a \in Actors : pause[a] \in 0..Interval /\ pause'[a] = IF pause[a] > 0 THEN pause[a] - 1 ELSE 0
      /\ \A l \in Limiters : gap[l] \in 0..Interval /\ gap'[l] = IF gap[l] > 0 THEN gap[l] - 1 ELSE 0
      /\ \A l \in Limiters : circuit[l] \in 0..MaxCircuit
      /\ Interval \in Nat /\ MaxCircuit \in Nat
  BY LimiterAssumption DEF LimiterInv, LimiterTypeOK, LimiterTick
<1>3. LimiterTypeOK'
  BY <1>2 DEF LimiterInv, LimiterTypeOK, LimiterTick
<1>4. ASSUME NEW a \in Actors, at'[a] = "pacing"
      PROVE  gap'[LimiterOf(a)] <= pause'[a]
  <2>1. gap[LimiterOf(a)] <= pause[a]
    BY <1>4 DEF LimiterInv, PacingInv, LimiterTick
  <2> QED BY <2>1, <1>2, OwnLimiter
<1> QED
  BY <1>1, <1>3, <1>4 DEF LimiterInv, PacingInv
-----------------------------------------------------------------------------
\* What StartsSpaced says of a step.
StartsSpacedStep ==
    \A a \in Actors : at[a] # "wire" /\ at'[a] = "wire"
        => gap[LimiterOf(a)] = 0 /\ circuit[LimiterOf(a)] = 0

\* A request starts only after the pacing sleep has covered the interval.
LEMMA SendSpaced ==
    ASSUME LimiterInv, NEW a \in Actors, Send(a)
    PROVE  StartsSpacedStep
<1>1. gap[LimiterOf(a)] = 0 /\ circuit[LimiterOf(a)] = 0
  <2>1. circuit[LimiterOf(a)] = 0
    BY DEF Send
  <2>2. CASE at[a] = "line"
    BY <2>1, <2>2 DEF Send
  <2>3. CASE at[a] = "pacing" /\ pause[a] = 0
    <3>1. gap[LimiterOf(a)] <= pause[a] /\ gap[LimiterOf(a)] \in 0..Interval
      BY <2>3, OwnLimiter DEF LimiterInv, PacingInv, LimiterTypeOK
    <3> QED BY <2>1, <2>3, <3>1, LimiterAssumption
  <2> QED BY <2>2, <2>3 DEF Send, Ready
<1>2. at' = [at EXCEPT ![a] = "wire"]
  BY DEF Send
<1> QED
  BY <1>1, <1>2, Elsewhere DEF StartsSpacedStep

\* Any other move of a starts nothing.
LEMMA OthersSpaced ==
    ASSUME LimiterInv, NEW a \in Actors, NEW place \in {"out", "line", "pacing"},
           at' = [at EXCEPT ![a] = place]
    PROVE  StartsSpacedStep
BY DEF LimiterInv, LimiterTypeOK, StartsSpacedStep
=============================================================================
