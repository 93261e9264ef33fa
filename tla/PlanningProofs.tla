----------------------------- MODULE PlanningProofs ----------------------------
(***************************************************************************)
(* What the planning arithmetic computes, for every contract, price,       *)
(* account, catalogue and budget: the conversion of a text and the search  *)
(* for a receipt are exact, a level changes with the last missing point,   *)
(* and the greedy passes of the badge planner keep the request's envelope, *)
(* are never beaten by another choice of crafts, and agree with the        *)
(* dashboard, the goal and the sale alternative computed beside them.  The *)
(* level-up optimizer's prefixes lose nothing: its recommendation is real  *)
(* and the best there is, and so are its alternatives.                     *)
(***************************************************************************)
EXTENDS FeeSearch, PlayerLevel, BadgePlan, LevelUp, SumLemmas

-----------------------------------------------------------------------------
(***************************************************************************)
(* The search for the receipt.                                             *)
(***************************************************************************)

\* A fee does not fall while the receipt grows (_component_fee).
LEMMA FeeMonotone ==
    ASSUME NEW r \in Nat, NEW s \in Nat, NEW bps \in Nat, NEW minimum \in Nat, r <= s
    PROVE  /\ ComponentFee(r, bps, minimum) \in Nat
           /\ ComponentFee(r, bps, minimum) <= ComponentFee(s, bps, minimum)
<1> DEFINE x == r * bps
           y == s * bps
<1>1. x \in Nat /\ y \in Nat /\ x <= y
  <2>1. PICK d \in Nat : s = r + d
    <3>1. s - r \in Nat /\ s = r + (s - r)
      OBVIOUS
    <3> QED BY <3>1
  <2>2. y = x + d * bps
    BY <2>1, SMT
  <2>3. d * bps \in Nat /\ x \in Nat
    BY <2>1, SMT
  <2> QED
    BY <2>2, <2>3
<1> HIDE DEF x, y
<1>2. x \div 10000 \in Nat /\ y \div 10000 \in Nat /\ x \div 10000 <= y \div 10000
  BY <1>1, SMT
<1>3. /\ ComponentFee(r, bps, minimum) = AtLeast(x \div 10000, minimum)
      /\ ComponentFee(s, bps, minimum) = AtLeast(y \div 10000, minimum)
  BY DEF ComponentFee, x, y
<1> QED
  BY <1>2, <1>3 DEF AtLeast

\* Two receipts never have the same total: what the buyer pays grows with each
\* minor unit the seller receives (_raw_buyer_total).
LEMMA TotalStrict ==
    ASSUME NEW c \in Contract, NEW r \in Nat, NEW s \in Nat, r < s
    PROVE  /\ RawTotal(r, c) \in Nat /\ RawTotal(s, c) \in Nat
           /\ RawTotal(r, c) < RawTotal(s, c)
<1>1. MaxFeeBps \in Nat
  BY DEF MaxFeeBps
<1>2. c.steam \in 0..MaxFeeBps /\ c.publisher \in 0..MaxFeeBps /\ c.minimum \in Nat
  BY DEF Contract
<1>3. c.steam \in Nat /\ c.publisher \in Nat /\ c.minimum \in Nat
  BY <1>1, <1>2
<1>4. r <= s /\ s <= s
  OBVIOUS
<1>5. ASSUME NEW bps \in Nat, NEW minimum \in Nat
      PROVE  /\ ComponentFee(r, bps, minimum) \in Nat
             /\ ComponentFee(s, bps, minimum) \in Nat
             /\ ComponentFee(r, bps, minimum) <= ComponentFee(s, bps, minimum)
  <2>1. /\ ComponentFee(r, bps, minimum) \in Nat
        /\ ComponentFee(r, bps, minimum) <= ComponentFee(s, bps, minimum)
    BY <1>4, FeeMonotone
  <2>2. ComponentFee(s, bps, minimum) \in Nat
    BY <1>4, FeeMonotone
  <2> QED
    BY <2>1, <2>2
<1>6. PICK steam : steam = c.steam
  OBVIOUS
<1>7. PICK publisher : publisher = c.publisher
  OBVIOUS
<1>8. PICK minimum : minimum = c.minimum
  OBVIOUS
<1>9. /\ RawTotal(r, c) = r + ComponentFee(r, steam, minimum) + ComponentFee(r, publisher, minimum)
      /\ RawTotal(s, c) = s + ComponentFee(s, steam, minimum) + ComponentFee(s, publisher, minimum)
  BY <1>6, <1>7, <1>8, Zenon DEF RawTotal
<1>10. steam \in Nat /\ publisher \in Nat /\ minimum \in Nat
  BY <1>3, <1>6, <1>7, <1>8, Zenon
<1>11. /\ ComponentFee(r, steam, minimum) \in Nat
       /\ ComponentFee(s, steam, minimum) \in Nat
       /\ ComponentFee(r, steam, minimum) <= ComponentFee(s, steam, minimum)
  BY <1>5, <1>10
<1>12. /\ ComponentFee(r, publisher, minimum) \in Nat
       /\ ComponentFee(s, publisher, minimum) \in Nat
       /\ ComponentFee(r, publisher, minimum) <= ComponentFee(s, publisher, minimum)
  BY <1>5, <1>10
<1> QED
  BY <1>9, <1>11, <1>12

\* Every receipt has a total (_raw_buyer_total).
LEMMA TotalType ==
    ASSUME NEW c \in Contract, NEW r \in Nat
    PROVE  RawTotal(r, c) \in Nat
BY TotalStrict, r + 1 \in Nat, r < r + 1

-----------------------------------------------------------------------------
\* The interval of the search never loses the receipt that is looked for.
Interval ==
    /\ low \in 0..total /\ high \in low..total
    /\ \A r \in 0..total : RawTotal(r, contract) = total => r \in low..high

SearchInv ==
    /\ contract \in Contract
    /\ total \in (0..MaxMinorUnits) \union {None}
    /\ total # None => Interval
    /\ ReceiptExact

\* A receipt that recomposes the total is the one that is promised.
LEMMA OnlyReceipt ==
    ASSUME NEW c \in Contract, NEW t \in 0..MaxMinorUnits, NEW r \in 0..t, RawTotal(r, c) = t
    PROVE  SellerReceipt(t, c) = r
<1> USE FeesAssumption
<1>1. r \in Nat
  OBVIOUS
<1>2. ASSUME NEW s \in 0..t, RawTotal(s, c) = t
      PROVE  s = r
  <2>1. s \in Nat
    OBVIOUS
  <2>2. ~ (s < r)
    BY <1>1, <1>2, <2>1, TotalStrict
  <2>3. ~ (r < s)
    BY <1>1, <1>2, <2>1, TotalStrict
  <2> QED
    BY <1>1, <2>1, <2>2, <2>3
<1>3. \E s \in 0..t : RawTotal(s, c) = t
  OBVIOUS
<1>4. SellerReceipt(t, c) = CHOOSE s \in 0..t : RawTotal(s, c) = t
  BY <1>3 DEF SellerReceipt
<1>5. (CHOOSE s \in 0..t : RawTotal(s, c) = t) = r
  BY <1>2, <1>3
<1> QED
  BY <1>4, <1>5

\* The search begins with the interval of all receipts up to the total.
LEMMA SearchInit == FeeInit => SearchInv
<1> SUFFICES ASSUME FeeInit PROVE SearchInv
  OBVIOUS
<1>1. contract \in Contract
  BY FeesAssumption DEF FeeInit
<1>2. total \in (0..MaxMinorUnits) \union {None}
  BY DEF FeeInit, DecimalToMinor
<1>3. total # None => Interval
  <2> SUFFICES ASSUME total # None PROVE Interval
    OBVIOUS
  <2>1. total \in Nat /\ low = 0 /\ high = total
    BY <1>2, FeesAssumption DEF FeeInit
  <2> QED
    BY <2>1 DEF Interval
<1>4. ReceiptExact
  BY DEF FeeInit, ReceiptExact
<1> QED
  BY <1>1, <1>2, <1>3, <1>4 DEF SearchInv

\* Narrowing loses no receipt, and ending reports the one that is left.
LEMMA SearchStep == SearchInv /\ [FeeNext]_feeVars => SearchInv'
<1> SUFFICES ASSUME SearchInv, [FeeNext]_feeVars PROVE SearchInv'
  OBVIOUS
<1> USE FeesAssumption, SearchAssumption
<1>1. CASE Narrow
  <2>1. /\ contract' = contract /\ total' = total /\ receipt' = receipt
        /\ receipt = Searching /\ low < high
    BY <1>1 DEF Narrow
  <2>2. ReceiptExact'
    BY <2>1 DEF ReceiptExact
  <2>3. ASSUME total # None PROVE Interval'
    <3> DEFINE candidate == (low + high) \div 2
    <3>1. total \in Nat /\ low \in 0..total /\ high \in low..total
      BY <2>3 DEF SearchInv, Interval
    <3>2. candidate \in Nat /\ low <= candidate /\ candidate < high
      BY <2>1, <3>1, SMT
    <3>3. CASE RawTotal(candidate, contract) < total
      <4>1. low' = candidate + 1 /\ high' = high
        BY <1>1, <3>3 DEF Narrow
      <4>2. ASSUME NEW r \in 0..total, RawTotal(r, contract) = total
            PROVE  r \in candidate + 1..high
        <5>1. r \in low..high
          BY <2>3, <4>2 DEF SearchInv, Interval
        <5>2. r # candidate
          BY <3>1, <3>3, <4>2
        <5>3. ~ (r < candidate)
          <6> SUFFICES ASSUME r < candidate PROVE FALSE
            OBVIOUS
          <6>1. r \in Nat /\ contract \in Contract
            BY <3>1 DEF SearchInv
          <6>2. /\ RawTotal(r, contract) < RawTotal(candidate, contract)
                /\ RawTotal(candidate, contract) \in Nat
            BY <3>2, <6>1, TotalStrict
          <6> QED
            BY <3>1, <3>3, <4>2, <6>2
        <5> QED
          BY <3>1, <3>2, <5>1, <5>2, <5>3
      <4> HIDE DEF candidate
      <4>3. candidate + 1 \in 0..total /\ high \in candidate + 1..total
        BY <3>1, <3>2
      <4> QED
        BY <2>1, <4>1, <4>2, <4>3 DEF Interval
    <3>4. CASE ~ RawTotal(candidate, contract) < total
      <4>1. low' = low /\ high' = candidate
        BY <1>1, <3>4 DEF Narrow
      <4>2. ASSUME NEW r \in 0..total, RawTotal(r, contract) = total
            PROVE  r \in low..candidate
        <5>1. r \in low..high
          BY <2>3, <4>2 DEF SearchInv, Interval
        <5>2. ~ (candidate < r)
          <6> SUFFICES ASSUME candidate < r PROVE FALSE
            OBVIOUS
          <6>1. r \in Nat /\ contract \in Contract
            BY <3>1 DEF SearchInv
          <6>2. /\ RawTotal(candidate, contract) < RawTotal(r, contract)
                /\ RawTotal(candidate, contract) \in Nat
            BY <3>2, <6>1, TotalStrict
          <6> QED
            BY <3>1, <3>4, <4>2, <6>2
        <5> HIDE DEF candidate
        <5> QED
          BY <3>1, <3>2, <5>1, <5>2
      <4> HIDE DEF candidate
      <4>3. low \in 0..total /\ candidate \in low..total
        BY <3>1, <3>2
      <4> QED
        BY <2>1, <4>1, <4>2, <4>3 DEF Interval
    <3> QED
      BY <3>3, <3>4
  <2> QED
    BY <2>1, <2>2, <2>3 DEF SearchInv
<1>2. CASE Settle
  <2>1. /\ contract' = contract /\ total' = total /\ low' = low /\ high' = high
        /\ ~ low < high
        /\ receipt' = IF ItemTotal(low, contract) = total THEN low ELSE None
    BY <1>2 DEF Settle
  <2>2. Interval' <=> Interval
    BY <2>1 DEF Interval
  <2>3. ASSUME total # None PROVE receipt' = SellerReceipt(total, contract)
    <3>1. /\ total \in 0..MaxMinorUnits /\ total \in Nat /\ contract \in Contract
          /\ low \in 0..total /\ high = low
      BY <2>1, <2>3 DEF SearchInv, Interval
    <3>2. low \in 0..MaxMinorUnits /\ low \in Nat
      BY <3>1
    <3>3. RawTotal(low, contract) \in Nat
      BY <3>1, <3>2, TotalType
    <3>4. ItemTotal(low, contract) = total <=> RawTotal(low, contract) = total
      BY <3>1, <3>2, <3>3 DEF ItemTotal
    <3>5. CASE RawTotal(low, contract) = total
      BY <2>1, <3>1, <3>4, <3>5, OnlyReceipt
    <3>6. CASE RawTotal(low, contract) # total
      <4>1. ASSUME NEW r \in 0..total PROVE RawTotal(r, contract) # total
        <5> SUFFICES ASSUME RawTotal(r, contract) = total PROVE FALSE
          OBVIOUS
        <5>1. r \in low..high
          BY <2>3 DEF SearchInv, Interval
        <5>2. r = low
          BY <3>1, <3>2, <5>1
        <5> QED
          BY <3>6, <5>2
      <4>2. SellerReceipt(total, contract) = None
        BY <4>1 DEF SellerReceipt
      <4> QED
        BY <2>1, <3>4, <3>6, <4>2
    <3> QED
      BY <3>5, <3>6
  <2>4. ReceiptExact'
    BY <2>1, <2>3 DEF ReceiptExact
  <2> QED
    BY <2>1, <2>2, <2>4 DEF SearchInv
<1>3. CASE UNCHANGED feeVars
  BY <1>3 DEF feeVars, SearchInv, Interval, ReceiptExact
<1> QED
  BY <1>1, <1>2, <1>3 DEF FeeNext

\* The inductive invariant of the search holds in every behaviour.
THEOREM SearchHolds == FeeSpec => []SearchInv
BY SearchInit, SearchStep, PTL DEF FeeSpec

\* For every contract, the search answers the one receipt whose two fees recompose
\* the buyer's total, and None exactly when there is none
\* (seller_receipt_from_buyer_total).
THEOREM ReceiptIsExact == FeeSpec => []ReceiptExact
<1>1. SearchInv => ReceiptExact
  BY DEF SearchInv
<1> QED
  BY <1>1, SearchHolds, PTL

-----------------------------------------------------------------------------
(***************************************************************************)
(* The price of a text.                                                    *)
(***************************************************************************)

\* Horner's scheme in base ten, over digits d from a start a.
Horner(f, a, d, N) == f = [n \in 0..N |-> IF n = 0 THEN a ELSE 10 * f[n - 1] + d[n]]

\* There is such a function, and its values are natural numbers.
LEMMA HornerExists ==
    ASSUME NEW a \in Nat, NEW N \in Nat, NEW d, \A n \in 1..N : d[n] \in Nat
    PROVE  \E f \in [0..N -> Nat] : Horner(f, a, d, N)
<1> DEFINE K == {n \in Nat : n <= N => \E f \in [0..n -> Nat] : Horner(f, a, d, n)}
<1>1. 0 \in K
  <2>1. PICK f : f = [n \in 0..0 |-> a]
    OBVIOUS
  <2>2. f \in [0..0 -> Nat] /\ Horner(f, a, d, 0)
    BY <2>1 DEF Horner
  <2> QED BY <2>2
<1>2. ASSUME NEW n \in Nat, n \in K PROVE n + 1 \in K
  <2>1. ASSUME n + 1 <= N PROVE \E f \in [0..n + 1 -> Nat] : Horner(f, a, d, n + 1)
    <3>1. PICK g \in [0..n -> Nat] : Horner(g, a, d, n)
      BY <1>2, <2>1
    <3>2. PICK f : f = [k \in 0..n + 1 |-> IF k = 0 THEN a ELSE 10 * g[k - 1] + d[k]]
      OBVIOUS
    <3>3. \A k \in 0..n + 1 : k # 0 => k - 1 \in 0..n /\ k \in 1..N
      BY <2>1
    <3>4. \A k \in 0..n : k \in 0..n + 1 /\ f[k] = g[k]
      BY <3>1, <3>2, <3>3 DEF Horner
    <3>5. \A k \in 0..n + 1 : f[k] = IF k = 0 THEN a ELSE 10 * f[k - 1] + d[k]
      BY <3>2, <3>3, <3>4
    <3>6. ASSUME NEW k \in 0..n + 1 PROVE f[k] \in Nat
      <4>1. CASE k = 0
        BY <3>2, <4>1
      <4>2. CASE k # 0
        <5>1. g[k - 1] \in Nat /\ d[k] \in Nat
          BY <3>3, <4>2
        <5>2. f[k] = 10 * g[k - 1] + d[k]
          BY <3>2, <4>2
        <5> QED BY <5>1, <5>2
      <4> QED BY <4>1, <4>2
    <3> QED BY <3>2, <3>5, <3>6 DEF Horner
  <2> QED BY <2>1
<1>3. N \in K
  <2> HIDE DEF K
  <2> QED BY <1>1, <1>2, AllNat
<1> QED
  BY <1>3

\* Digits that are the same.
SameUpTo(d, e, M) == \A n \in 1..M : d[n] = e[n]

\* Two schemes over the same digits agree as far as both go.
LEMMA HornersAgree ==
    ASSUME NEW a \in Nat, NEW N \in Nat, NEW M \in Nat, M <= N, NEW d, NEW e,
           SameUpTo(d, e, M), NEW f, Horner(f, a, d, N), NEW g, Horner(g, a, e, M)
    PROVE  \A n \in 0..M : f[n] = g[n]
<1> DEFINE K == {n \in Nat : n <= M => f[n] = g[n]}
<1>1. 0 \in K
  <2>1. 0 \in 0..N /\ 0 \in 0..M
    OBVIOUS
  <2>2. f[0] = a /\ g[0] = a
    BY <2>1 DEF Horner
  <2> QED BY <2>2
<1>2. ASSUME NEW n \in Nat, n \in K PROVE n + 1 \in K
  <2>1. ASSUME n + 1 <= M PROVE f[n + 1] = g[n + 1]
    <3>1. n + 1 \in 0..N /\ n + 1 \in 0..M /\ n + 1 \in 1..M /\ n + 1 # 0 /\ (n + 1) - 1 = n
      BY <2>1
    <3>2. f[n + 1] = 10 * f[n] + d[n + 1]
      BY <3>1 DEF Horner
    <3>3. g[n + 1] = 10 * g[n] + e[n + 1]
      BY <3>1 DEF Horner
    <3>4. d[n + 1] = e[n + 1]
      BY <3>1 DEF SameUpTo
    <3> QED BY <1>2, <2>1, <3>2, <3>3, <3>4
  <2> QED BY <2>1
<1>3. \A n \in Nat : n \in K
  <2> HIDE DEF K
  <2> QED BY <1>1, <1>2, AllNat
<1> QED
  BY <1>3

\* The number of a sequence of digits ends its scheme.
LEMMA DigitsIs ==
    ASSUME NEW s \in Seq(0..9)
    PROVE  \E f \in [0..Len(s) -> Nat] : Horner(f, 0, s, Len(s)) /\ Digits(s) = f[Len(s)]
<1> DEFINE up == CHOOSE f : Horner(f, 0, s, Len(s))
<1>1. Len(s) \in Nat /\ \A n \in 1..Len(s) : s[n] \in Nat
  OBVIOUS
<1>2. PICK g \in [0..Len(s) -> Nat] : Horner(g, 0, s, Len(s))
  BY <1>1, HornerExists
<1>3. Horner(up, 0, s, Len(s))
  BY <1>2
<1>4. Digits(s) = up[Len(s)]
  BY DEF Digits, Horner
<1> HIDE DEF up
<1>5. \A n \in 0..Len(s) : up[n] = g[n]
  <2>1. SameUpTo(s, s, Len(s))
    BY DEF SameUpTo
  <2> QED BY <1>1, <1>2, <1>3, <2>1, HornersAgree
<1> QED
  BY <1>1, <1>2, <1>4, <1>5

\* The powers of ten are one scheme over zeros.
Zeros == [n \in Nat |-> 0]

\* A power of ten is the last value of the scheme over zeros.
LEMMA TenIs ==
    ASSUME NEW N \in Nat
    PROVE  \E f \in [0..N -> Nat] : Horner(f, 1, Zeros, N) /\ TenTo(N) = f[N]
<1> DEFINE ten == CHOOSE f : f = [n \in 0..N |-> IF n = 0 THEN 1 ELSE 10 * f[n - 1]]
<1>1. \A n \in 1..N : Zeros[n] = 0
  BY DEF Zeros
<1>2. PICK g \in [0..N -> Nat] : Horner(g, 1, Zeros, N)
  <2>1. \A n \in 1..N : Zeros[n] \in Nat
    BY <1>1
  <2> QED BY <2>1, HornerExists
<1>3. g = [n \in 0..N |-> IF n = 0 THEN 1 ELSE 10 * g[n - 1]]
  <2>1. \A n \in 0..N : g[n] = IF n = 0 THEN 1 ELSE 10 * g[n - 1]
    <3> SUFFICES ASSUME NEW n \in 0..N, n # 0 PROVE g[n] = 10 * g[n - 1]
      BY <1>2 DEF Horner
    <3>1. g[n] = 10 * g[n - 1] + Zeros[n]
      BY <1>2 DEF Horner
    <3>2. g[n - 1] \in Nat /\ Zeros[n] = 0
      BY <1>1
    <3> QED BY <3>1, <3>2
  <2> QED BY <2>1
<1>4. ten = [n \in 0..N |-> IF n = 0 THEN 1 ELSE 10 * ten[n - 1]]
  BY <1>3
<1>5. TenTo(N) = ten[N]
  BY DEF TenTo
<1> HIDE DEF ten
<1> DEFINE K == {n \in Nat : n <= N => ten[n] = g[n]}
<1>6. 0 \in K
  BY <1>3, <1>4
<1>7. ASSUME NEW n \in Nat, n \in K PROVE n + 1 \in K
  <2>1. ASSUME n + 1 <= N PROVE ten[n + 1] = g[n + 1]
    <3>1. n + 1 \in 0..N /\ n + 1 # 0 /\ (n + 1) - 1 = n
      BY <2>1
    <3>2. ten[n + 1] = 10 * ten[n]
      BY <1>4, <3>1
    <3>3. g[n + 1] = 10 * g[n]
      BY <1>3, <3>1
    <3> QED BY <1>7, <2>1, <3>2, <3>3
  <2> QED BY <2>1
<1>8. N \in K
  <2> HIDE DEF K
  <2> QED BY <1>6, <1>7, AllNat
<1> QED
  BY <1>2, <1>5, <1>8

\* The powers of ten, one by one.
LEMMA TenStep ==
    ASSUME NEW n \in Nat
    PROVE  /\ TenTo(0) = 1 /\ TenTo(n) \in Nat
           /\ TenTo(n + 1) = 10 * TenTo(n)
<1>1. TenTo(0) = 1
  <2>1. PICK f : Horner(f, 1, Zeros, 0) /\ TenTo(0) = f[0]
    BY TenIs
  <2> QED BY <2>1 DEF Horner
<1>2. PICK f \in [0..n -> Nat] : Horner(f, 1, Zeros, n) /\ TenTo(n) = f[n]
  BY TenIs
<1>3. PICK m \in Nat : m = n + 1
  OBVIOUS
<1>4. PICK g \in [0..m -> Nat] : Horner(g, 1, Zeros, m) /\ TenTo(m) = g[m]
  BY TenIs
<1>5. n <= m
  BY <1>3
<1>6. \A k \in 0..n : g[k] = f[k]
  <2>1. SameUpTo(Zeros, Zeros, n)
    BY DEF SameUpTo
  <2> QED BY <1>2, <1>4, <1>5, <2>1, HornersAgree, SMTT(30)
<1>7. g[m] = 10 * g[n] + 0
  <2>1. m \in 0..m /\ m # 0 /\ m - 1 = n
    BY <1>3
  <2>2. Zeros[m] = 0
    BY DEF Zeros
  <2> QED BY <1>4, <2>1, <2>2 DEF Horner
<1>8. g[n] = f[n] /\ f[n] \in Nat
  BY <1>6
<1> QED
  BY <1>1, <1>2, <1>3, <1>4, <1>7, <1>8

\* A power of ten is the product of two that its exponent is the sum of.
LEMMA TenSum ==
    ASSUME NEW m \in Nat
    PROVE  \A n \in Nat : TenTo(m + n) = TenTo(m) * TenTo(n) /\ TenTo(n) \in Nat /\ TenTo(n) > 0
<1> DEFINE K == {n \in Nat : TenTo(m + n) = TenTo(m) * TenTo(n) /\ TenTo(n) \in Nat /\ TenTo(n) > 0}
<1>1. PICK c \in Nat : c = TenTo(m)
  BY TenStep
<1>2. 0 \in K
  <2>1. TenTo(0) = 1
    BY TenStep
  <2> QED BY <1>1, <2>1
<1>3. ASSUME NEW n \in Nat, n \in K PROVE n + 1 \in K
  <2>1. PICK x \in Nat : x = TenTo(n)
    BY <1>3
  <2>2. TenTo(m + n) = c * x /\ x > 0
    BY <1>1, <1>3, <2>1
  <2>3. TenTo(n + 1) = 10 * x
    BY <2>1, TenStep
  <2>4. TenTo((m + n) + 1) = 10 * (c * x)
    <3>1. m + n \in Nat
      OBVIOUS
    <3> QED BY <2>2, <3>1, TenStep
  <2>5. 10 * (c * x) = c * (10 * x) /\ 10 * x \in Nat /\ 10 * x > 0
    BY <2>2
  <2>6. (m + n) + 1 = m + (n + 1)
    OBVIOUS
  <2>7. TenTo(m + (n + 1)) = TenTo(m) * TenTo(n + 1)
    BY <1>1, <2>3, <2>4, <2>5, <2>6
  <2> QED BY <2>3, <2>5, <2>7
<1>4. \A n \in Nat : n \in K
  <2> HIDE DEF K
  <2> QED BY <1>2, <1>3, AllNat
<1> QED
  BY <1>4

\* From some digit on there are only zeros.
ZerosAfter(s, k) == \A i \in k + 1..Len(s) : s[i] = 0

\* What follows the first k digits adds less than their unit, and nothing exactly when
\* it is all zeros.
LEMMA DigitsSplit ==
    ASSUME NEW s \in Seq(0..9), NEW k \in 0..Len(s)
    PROVE  \E r \in Nat :
              /\ Digits(s) = Digits(SubSeq(s, 1, k)) * TenTo(Len(s) - k) + r
              /\ Digits(SubSeq(s, 1, k)) \in Nat /\ Digits(s) \in Nat
              /\ r < TenTo(Len(s) - k)
              /\ r = 0 <=> ZerosAfter(s, k)
<1>1. PICK f \in [0..Len(s) -> Nat] : Horner(f, 0, s, Len(s)) /\ Digits(s) = f[Len(s)]
  BY DigitsIs
<1>2. PICK kept : kept = SubSeq(s, 1, k)
  OBVIOUS
<1>3. kept \in Seq(0..9) /\ Len(kept) = k /\ \A i \in 1..k : s[i] = kept[i]
  BY <1>2
<1>4. PICK g \in [0..k -> Nat] : Horner(g, 0, kept, k) /\ Digits(kept) = g[k]
  BY <1>3, DigitsIs
<1>5. Len(s) \in Nat /\ k \in Nat /\ k <= Len(s)
  OBVIOUS
<1>6. f[k] = g[k]
  <2>1. \A n \in 0..k : f[n] = g[n]
    <3>1. SameUpTo(s, kept, k)
      BY <1>3 DEF SameUpTo
    <3> QED BY <1>1, <1>4, <1>5, <3>1, HornersAgree, SMTT(30)
  <2> QED BY <1>5, <2>1
<1>7. PICK head \in Nat : head = f[k]
  BY <1>1
<1> DEFINE Rest(n, r) == /\ f[k + n] = head * TenTo(n) + r
                         /\ r < TenTo(n)
                         /\ r = 0 <=> \A i \in k + 1..k + n : s[i] = 0
           K == {n \in Nat : k + n <= Len(s) => \E r \in Nat : Rest(n, r)}
<1>8. 0 \in K
  <2>1. TenTo(0) = 1 /\ k + 0 = k /\ k + 1..k + 0 = {}
    BY <1>5, TenStep
  <2>2. head = head * 1 + 0
    OBVIOUS
  <2>3. Rest(0, 0)
    BY <1>7, <2>1, <2>2
  <2> HIDE DEF Rest
  <2> QED BY <2>3
<1>9. ASSUME NEW n \in Nat, n \in K PROVE n + 1 \in K
  <2>1. ASSUME k + (n + 1) <= Len(s) PROVE \E q \in Nat : Rest(n + 1, q)
    <3>1. PICK j \in Nat : j = k + n
      BY <1>5
    <3>2. j + 1 = k + (n + 1) /\ j + 1 \in 0..Len(s) /\ j + 1 # 0 /\ (j + 1) - 1 = j /\ j <= Len(s)
      BY <2>1, <1>5, <3>1
    <3>3. PICK r \in Nat : /\ f[j] = head * TenTo(n) + r
                           /\ r < TenTo(n)
                           /\ r = 0 <=> \A i \in k + 1..j : s[i] = 0
      <4>1. k + n <= Len(s)
        BY <3>1, <3>2
      <4>2. PICK r \in Nat : Rest(n, r)
        <5> HIDE DEF Rest
        <5> QED BY <1>9, <4>1
      <4> QED BY <3>1, <4>2
    <3>4. PICK t \in Nat : t = TenTo(n) /\ TenTo(n + 1) = 10 * t
      BY TenStep
    <3>5. PICK x \in 0..9 : x = s[j + 1]
      BY <3>2
    <3>6. f[j + 1] = 10 * f[j] + x
      BY <1>1, <3>2, <3>5 DEF Horner
    <3>7. f[j + 1] = head * (10 * t) + (10 * r + x)
      <4>1. f[j] = head * t + r
        BY <3>3, <3>4
      <4>2. 10 * (head * t + r) + x = head * (10 * t) + (10 * r + x)
        OBVIOUS
      <4> QED BY <3>6, <4>1, <4>2
    <3>8. 10 * r + x \in Nat /\ 10 * r + x < 10 * t
      <4>1. r < t
        BY <3>3, <3>4
      <4> QED BY <4>1
    <3>9. 10 * r + x = 0 <=> \A i \in k + 1..j + 1 : s[i] = 0
      <4>1. 10 * r + x = 0 <=> r = 0 /\ x = 0
        OBVIOUS
      <4>2. (\A i \in k + 1..j + 1 : s[i] = 0) <=> (\A i \in k + 1..j : s[i] = 0) /\ s[j + 1] = 0
        <5>1. \A i : i \in k + 1..j + 1 <=> i \in k + 1..j \/ i = j + 1
          <6>1. k \in Nat /\ j \in Nat /\ k <= j
            BY <1>5, <3>1
          <6> QED BY <6>1
        <5> QED BY <5>1
      <4> QED BY <3>3, <3>5, <4>1, <4>2
    <3>10. PICK q \in Nat : q = 10 * r + x
      BY <3>8
    <3>11. Rest(n + 1, q)
      BY <3>2, <3>4, <3>7, <3>8, <3>9, <3>10
    <3> HIDE DEF Rest
    <3> QED BY <3>11
  <2> HIDE DEF Rest
  <2> QED BY <2>1
<1>10. PICK n \in Nat : n = Len(s) - k /\ k + n = Len(s)
  <2>1. Len(s) - k \in Nat /\ k + (Len(s) - k) = Len(s)
    BY <1>5
  <2> QED BY <2>1
<1>11. PICK r \in Nat : Rest(n, r)
  <2>1. n \in K
    <3> HIDE DEF K
    <3> QED BY <1>8, <1>9, AllNat
  <2> HIDE DEF Rest
  <2> QED BY <1>10, <2>1
<1>12. /\ f[Len(s)] = head * TenTo(n) + r
       /\ r < TenTo(n)
       /\ r = 0 <=> ZerosAfter(s, k)
  BY <1>10, <1>11 DEF ZerosAfter
<1>13. Digits(kept) = head /\ Digits(s) = f[Len(s)] /\ f[Len(s)] \in Nat
  BY <1>1, <1>4, <1>6, <1>7
<1>14. Len(s) - k = n
  BY <1>10
<1>15. Digits(s) \in Nat /\ Digits(kept) \in Nat
  BY <1>13
<1>16. Digits(s) = Digits(kept) * TenTo(Len(s) - k) + r /\ r < TenTo(Len(s) - k)
  BY <1>12, <1>13, <1>14
<1> QED
  BY <1>2, <1>12, <1>15, <1>16, Zenon

\* What is left of a division is less than the divisor.
LEMMA DivRem ==
    ASSUME NEW p \in Nat, p > 0, NEW a \in Nat, NEW r \in Nat, r < p
    PROVE  (a * p + r) % p = r /\ (a * p + r) \div p = a
  OBVIOUS

\* The digits of a fraction that are kept, and what the two numbers of a text are.
Kept(s, m) == SubSeq(s, 1, IF Len(s) < m THEN Len(s) ELSE m)

Written(w, s, m) == (w * TenTo(Len(s)) + Digits(s)) * TenTo(m)

Taken(w, s, m) == w * TenTo(m) + Digits(Kept(s, m)) * TenTo(m - Len(Kept(s, m)))

\* The amount of a text is the text's number in minor units (decimal_to_minor).
LEMMA AmountIs ==
    ASSUME NEW w \in Nat, NEW s \in Seq(0..9), NEW m \in Nat
    PROVE  /\ Taken(w, s, m) \in Nat
           /\ Written(w, s, m) \div TenTo(Len(s)) = Taken(w, s, m)
           /\ Written(w, s, m) % TenTo(Len(s)) = 0 <=> ZerosAfter(s, m)
<1>1. PICK n, kept : n = Len(s) /\ kept = SubSeq(s, 1, IF n < m THEN n ELSE m)
  OBVIOUS
<1>2. n \in Nat /\ n = Len(s)
  BY <1>1
<1>2a. n \in Nat /\ (n <= m => m - n \in Nat) /\ (~ n <= m => n - m \in Nat)
  BY <1>2
<1>3. PICK x \in Nat, y \in Nat : x = TenTo(n) /\ y = TenTo(m) /\ x > 0 /\ y > 0
  <2>1. 0 \in Nat
    OBVIOUS
  <2> QED BY <1>2, <2>1, TenSum
<1>4. Digits(s) \in Nat
  <2>1. 0 \in 0..Len(s)
    BY <1>2
  <2> QED BY <2>1, DigitsSplit
<1> DEFINE exact == (w * x + Digits(s)) * y
           amount == w * y + Digits(kept) * TenTo(m - Len(kept))
           Exact == /\ amount \in Nat /\ exact \div x = amount
                    /\ exact % x = 0 <=> ZerosAfter(s, m)
<1>5. ASSUME n <= m PROVE Exact
  <2>1. kept = s /\ Len(kept) = n
    <3>1. (IF n < m THEN n ELSE m) = n
      BY <1>2, <1>5
    <3> QED BY <1>1, <1>2, <3>1
  <2>2. PICK d \in Nat : d = m - n
    BY <1>2a, <1>5
  <2>3. PICK z \in Nat : z = TenTo(d)
    BY <2>2, TenStep
  <2>4. y = x * z
    <3>1. m = n + d
      BY <1>2a, <2>2
    <3> QED BY <1>2, <1>3, <2>3, <3>1, TenSum
  <2>5. PICK c \in Nat : c = Digits(s)
    BY <1>4
  <2>6. amount = w * (x * z) + c * z
    BY <2>1, <2>2, <2>3, <2>4, <2>5
  <2>7. PICK a \in Nat : a = w * (x * z) + c * z
    <3>1. w * (x * z) \in Nat /\ c * z \in Nat
      BY <1>3
    <3> QED BY <3>1
  <2>8. exact = a * x + 0
    <3>1. (w * x + c) * (x * z) = (w * (x * z) + c * z) * x
      BY <1>3
    <3>2. exact = a * x
      BY <2>4, <2>5, <2>7, <3>1
    <3>3. a * x \in Nat
      BY <1>3
    <3> QED BY <3>2, <3>3
  <2>9. exact \div x = a /\ exact % x = 0
    <3> HIDE DEF exact
    <3>1. 0 \in Nat /\ 0 < x
      BY <1>3
    <3> QED BY <2>8, <3>1, DivRem
  <2>10. ZerosAfter(s, m)
    <3>1. m + 1..n = {}
      BY <1>2a, <1>5
    <3> QED BY <1>2, <3>1 DEF ZerosAfter
  <2> HIDE DEF amount, exact
  <2> QED BY <2>6, <2>7, <2>9, <2>10
<1>6. ASSUME ~ n <= m PROVE Exact
  <2>1. kept = SubSeq(s, 1, m) /\ Len(kept) = m /\ m \in 0..Len(s)
    <3>1. (IF n < m THEN n ELSE m) = m /\ m < n
      BY <1>2, <1>6
    <3> QED BY <1>1, <1>2, <3>1
  <2>2. PICK d \in Nat : d = n - m
    BY <1>2a, <1>6
  <2>3. PICK z \in Nat : z = TenTo(d) /\ z > 0
    BY <2>2, TenSum
  <2>4. x = y * z
    <3>1. n = m + d
      BY <1>2a, <2>2
    <3> QED BY <1>3, <2>3, <3>1, TenSum
  <2>5. PICK r \in Nat : /\ Digits(s) = Digits(kept) * z + r /\ Digits(kept) \in Nat
                         /\ r < z
                         /\ r = 0 <=> ZerosAfter(s, m)
    <3>1. Len(s) - m = d
      BY <1>2, <2>2
    <3> QED BY <2>1, <2>3, <3>1, DigitsSplit
  <2>5a. PICK c \in Nat : c = Digits(kept)
    BY <2>5
  <2>6. amount = w * y + c
    <3>1. m - Len(kept) = 0
      BY <2>1
    <3>2. TenTo(m - Len(kept)) = 1
      BY <3>1, TenStep
    <3>3. Digits(kept) * TenTo(m - Len(kept)) = c
      BY <2>5a, <3>2
    <3> QED BY <3>3
  <2>7. PICK a \in Nat : a = w * y + c
    <3>1. w * y \in Nat
      BY <1>3
    <3> QED BY <3>1
  <2>8. exact = a * x + r * y
    <3>1. PICK p \in Nat, q \in Nat : p = w * y /\ q = c * z
      <4>1. w * y \in Nat /\ c * z \in Nat
        BY <1>3, <2>3
      <4> QED BY <4>1
    <3>2. w * x = p * z /\ q * y = c * x
      <4>1. w * (y * z) = (w * y) * z /\ (c * z) * y = c * (y * z)
        BY <1>3, <2>3
      <4> QED BY <2>4, <3>1, <4>1
    <3>3. (p * z + (q + r)) * y = (p * z) * y + q * y + r * y
      <4>1. PICK u \in Nat : u = p * z
        BY <2>3
      <4>2. (u + (q + r)) * y = u * y + q * y + r * y
        BY <1>3
      <4> QED BY <4>1, <4>2
    <3>4. (p * z) * y = p * x
      BY <1>3, <2>3, <2>4
    <3>5. (p + c) * x = p * x + c * x
      BY <1>3
    <3>6. exact = (p * z + (q + r)) * y
      BY <2>5, <2>5a, <3>1, <3>2
    <3>7. a = p + c
      BY <2>7, <3>1
    <3> HIDE DEF exact
    <3> QED BY <3>2, <3>3, <3>4, <3>5, <3>6, <3>7
  <2>9. r * y \in Nat /\ r * y < x
    <3>1. PICK k \in Nat : z = r + k /\ k > 0
      <4>1. z - r \in Nat /\ z = r + (z - r) /\ z - r > 0
        <5>1. r < z
          BY <2>5
        <5> QED BY <5>1
      <4> QED BY <4>1
    <3>2. y * (r + k) = r * y + k * y /\ r * y \in Nat
      BY <1>3
    <3>3. k * y > 0 /\ k * y \in Nat
      BY <1>3, <3>1
    <3> QED BY <2>4, <3>1, <3>2, <3>3
  <2>10. exact \div x = a /\ exact % x = r * y
    <3>1. PICK q \in Nat : q = r * y /\ q < x
      BY <2>9
    <3>2. exact = a * x + q
      BY <2>8, <3>1
    <3> HIDE DEF exact
    <3>3. exact \div x = a /\ exact % x = q
      BY <1>3, <3>1, <3>2, DivRem
    <3> QED BY <3>1, <3>3
  <2>11. r * y = 0 <=> r = 0
    BY <1>3
  <2> HIDE DEF amount, exact
  <2> QED BY <2>5, <2>6, <2>7, <2>10, <2>11
<1>7. Exact
  <2> HIDE DEF Exact
  <2> QED BY <1>5, <1>6
<1>8. Taken(w, s, m) = amount /\ Written(w, s, m) = exact /\ TenTo(Len(s)) = x
  BY <1>1, <1>3 DEF Taken, Written, Kept
<1> HIDE DEF amount, exact
<1> QED
  BY <1>7, <1>8

\* A price is its text in minor units, and refused exactly when it is no whole number
\* of them or too large, for any currency and any number of digits (decimal_to_minor).
THEOREM PriceIsExact == FeeSpec => []PriceExact
<1>1. FeeInit => PriceExact
  <2> SUFFICES ASSUME FeeInit PROVE PriceExact
    OBVIOUS
  <2>1. PICK w \in Nat, s \in Seq(0..9), m \in Nat :
          w = text.whole /\ s = text.fraction /\ m = contract.minorDigits
    <3>1. text \in [whole : Nat, fraction : Seq(0..9)] /\ contract \in Contract
      BY SearchAssumption, FeesAssumption DEF FeeInit
    <3>2. text.whole \in Nat /\ text.fraction \in Seq(0..9) /\ contract.minorDigits \in Nat
      BY <3>1 DEF Contract
    <3> QED BY <3>2
  <2>2. /\ Taken(w, s, m) \in Nat
        /\ Written(w, s, m) \div TenTo(Len(s)) = Taken(w, s, m)
        /\ Written(w, s, m) % TenTo(Len(s)) = 0 <=> ZerosAfter(s, m)
    BY AmountIs
  <2>3. total = IF ZerosAfter(s, m) /\ Taken(w, s, m) \in 0..MaxMinorUnits
                THEN Taken(w, s, m) ELSE None
    BY <2>1 DEF FeeInit, DecimalToMinor, ZerosAfter, Taken, Kept
  <2>4. Taken(w, s, m) \in 0..MaxMinorUnits <=> Taken(w, s, m) <= MaxMinorUnits
    BY <2>2, FeesAssumption
  <2>5. total = IF Written(w, s, m) % TenTo(Len(s)) = 0
                   /\ Written(w, s, m) \div TenTo(Len(s)) <= MaxMinorUnits
                THEN Written(w, s, m) \div TenTo(Len(s)) ELSE None
    BY <2>2, <2>3, <2>4
  <2> QED BY <2>1, <2>5 DEF PriceExact, Written
<1>2. PriceExact /\ [FeeNext]_feeVars => PriceExact'
  <2>1. [FeeNext]_feeVars => UNCHANGED <<contract, text, total>>
    BY DEF FeeNext, Narrow, Settle, feeVars
  <2> QED BY <2>1 DEF PriceExact
<1> QED
  BY <1>1, <1>2, PTL DEF FeeSpec

-----------------------------------------------------------------------------
(***************************************************************************)
(* Levels.                                                                 *)
(***************************************************************************)

\* A decade begins at a whole number of points, and the next begins a thousand
\* points later for each of its levels' hundreds.
LEMMA DecadeStep ==
    ASSUME NEW d \in Nat
    PROVE  /\ DecadeXp(d) \in Nat
           /\ DecadeXp(d + 1) = DecadeXp(d) + 1000 * (d + 1)
           /\ d <= DecadeXp(d)
<1>1. PICK q \in Nat : q = d * (d + 1)
  <2>1. d * (d + 1) \in Nat
    OBVIOUS
  <2> QED BY <2>1
<1>2. DecadeXp(d) = 500 * q
  BY <1>1 DEF DecadeXp
<1>3. (d + 1) * ((d + 1) + 1) = q + 2 * (d + 1)
  BY <1>1
<1>4. DecadeXp(d + 1) = 500 * (q + 2 * (d + 1))
  <2>1. DecadeXp(d + 1) = 500 * ((d + 1) * ((d + 1) + 1))
    BY DEF DecadeXp
  <2> QED BY <1>3, <2>1
<1>5. d <= q
  <2>1. q = d * d + d /\ d * d \in Nat
    BY <1>1
  <2> QED BY <2>1
<1> QED
  BY <1>1, <1>2, <1>4, <1>5

\* Exactly one decade has begun and has not ended.
LEMMA DecadeExists ==
    ASSUME NEW xp \in Nat
    PROVE  \E d \in Nat : /\ DecadeXp(d) <= xp /\ xp < DecadeXp(d + 1)
                          /\ \A e \in Nat : DecadeXp(e) <= xp <=> e <= d
<1> DEFINE T == {e \in Nat : xp < DecadeXp(e)}
<1>1. xp + 1 \in T
  <2>1. xp + 1 \in Nat
    OBVIOUS
  <2>2. xp + 1 <= DecadeXp(xp + 1) /\ DecadeXp(xp + 1) \in Nat
    BY <2>1, DecadeStep
  <2> QED BY <2>1, <2>2
<1>2. PICK m \in T : \A e \in T : m <= e
  BY <1>1, LeastNat
<1>3. DecadeXp(0) = 0
  BY DEF DecadeXp
<1>4. m # 0
  BY <1>2, <1>3
<1>5. PICK d \in Nat : m = d + 1
  <2>1. m - 1 \in Nat /\ m = (m - 1) + 1
    BY <1>2, <1>4
  <2> QED BY <2>1
<1>6. \A e \in Nat : e \in T => e + 1 \in T
  <2> TAKE e \in Nat
  <2>1. DecadeXp(e) \in Nat /\ DecadeXp(e + 1) = DecadeXp(e) + 1000 * (e + 1)
    <3> HIDE DEF T
    <3> QED BY DecadeStep
  <2> QED BY <2>1
<1>7. \A n \in Nat : m + n \in T
  <2> DEFINE K == {n \in Nat : m + n \in T}
  <2> HIDE DEF T
  <2>1. m \in Nat
    BY <1>5
  <2>2. 0 \in K
    BY <1>2, <2>1
  <2>3. \A n \in Nat : n \in K => n + 1 \in K
    <3> SUFFICES ASSUME NEW n \in Nat, n \in K PROVE n + 1 \in K
      OBVIOUS
    <3>1. m + n \in Nat /\ m + n \in T
      BY <2>1
    <3>2. (m + n) + 1 \in T
      BY <1>6, <3>1
    <3>3. (m + n) + 1 = m + (n + 1)
      BY <2>1
    <3> QED BY <3>2, <3>3
  <2>4. \A n \in Nat : n \in K
    <3> HIDE DEF K
    <3> QED BY <2>2, <2>3, AllNat
  <2> QED BY <2>4
<1>8. \A e \in Nat : DecadeXp(e) <= xp <=> e <= d
  <2> TAKE e \in Nat
  <2>1. DecadeXp(e) \in Nat
    <3> HIDE DEF T
    <3> QED BY DecadeStep
  <2>2. CASE e <= d
    <3>1. ~ m <= e
      BY <1>5, <2>2
    <3>2. e \notin T
      BY <1>2, <3>1
    <3> QED BY <2>1, <2>2, <3>2
  <2>3. CASE ~ e <= d
    <3>1. PICK n \in Nat : e = m + n
      <4>1. e - m \in Nat /\ e = m + (e - m)
        BY <1>5, <2>3
      <4> QED BY <4>1
    <3>2. e \in T
      BY <1>7, <3>1
    <3> QED BY <2>1, <2>3, <3>2
  <2> QED BY <2>2, <2>3
<1>9. xp < DecadeXp(d + 1)
  BY <1>2, <1>5
<1>10. DecadeXp(d) <= xp
  BY <1>8
<1> QED
  BY <1>8, <1>9, <1>10

\* The square root of the estimate is a natural number.
LEMMA RootType == ASSUME NEW n \in Nat PROVE ISqrt(n) \in Nat
<1> DEFINE T == {r \in Nat : n < (r + 1) * (r + 1)}
<1>1. n \in T
  <2>1. (n + 1) * (n + 1) = n * n + 2 * n + 1 /\ n * n \in Nat
    OBVIOUS
  <2> QED BY <2>1
<1>2. PICK r \in T : \A s \in T : r <= s
  BY <1>1, LeastNat
<1>3. r * r <= n
  <2>1. CASE r = 0
    BY <2>1
  <2>2. CASE r # 0
    <3>1. PICK s \in Nat : r = s + 1
      <4>1. r - 1 \in Nat /\ r = (r - 1) + 1
        BY <1>2, <2>2
      <4> QED BY <4>1
    <3>2. s \notin T
      BY <1>2, <3>1
    <3>3. (s + 1) * (s + 1) \in Nat
      BY <3>1
    <3> QED BY <3>1, <3>2, <3>3
  <2> QED BY <2>1, <2>2
<1>4. r \in 0..n /\ (r + 1) * (r + 1) > n
  <2>1. (r + 1) * (r + 1) \in Nat
    BY <1>2
  <2> QED BY <1>1, <1>2, <2>1
<1>5. ISqrt(n) \in 0..n
  BY <1>3, <1>4, Zenon DEF ISqrt
<1> QED
  BY <1>5

\* The corrections of the estimate end in the decade of the points, wherever the
\* estimate was.
LEMMA DecadesExact ==
    ASSUME NEW xp \in Nat, NEW d \in Nat,
           \A e \in Nat : DecadeXp(e) <= xp <=> e <= d
    PROVE  Decades(xp) = d
<1> DEFINE downF(f) == [e \in Nat |-> IF DecadeXp(e) > xp THEN f[e - 1] ELSE e]
           upF(f) == [e \in Nat |-> IF DecadeXp(e + 1) <= xp THEN f[e + 1] ELSE e]
           down == CHOOSE f : f = downF(f)
           up == CHOOSE f : f = upF(f)
           root == ISqrt(1 + xp \div 125) \div 2
<1>1. root \in Nat
  <2>1. PICK q \in Nat : q = 1 + xp \div 125
    <3>1. 1 + xp \div 125 \in Nat
      OBVIOUS
    <3> QED BY <3>1
  <2>2. PICK s \in Nat : s = ISqrt(q)
    BY RootType
  <2>3. s \div 2 \in Nat
    OBVIOUS
  <2> QED BY <2>1, <2>2, <2>3
<1>2. Decades(xp) = up[down[root]]
  BY DEF Decades
<1>3. \A e \in Nat : (DecadeXp(e) > xp <=> e > d) /\ (DecadeXp(e + 1) <= xp <=> e + 1 <= d)
  <2> TAKE e \in Nat
  <2>1. DecadeXp(e) \in Nat
    BY DecadeStep
  <2>2. DecadeXp(e) <= xp <=> e <= d
    OBVIOUS
  <2>3. e + 1 \in Nat
    OBVIOUS
  <2>4. DecadeXp(e + 1) <= xp <=> e + 1 <= d
    BY <2>3
  <2> QED BY <2>1, <2>2, <2>4
<1>4. down = downF(down)
  <2>1. PICK D : D = [e \in Nat |-> IF e > d THEN d ELSE e]
    OBVIOUS
  <2>2. ASSUME NEW e \in Nat PROVE D[e] = IF DecadeXp(e) > xp THEN D[e - 1] ELSE e
    <3>1. CASE e > d
      <4>1. e - 1 \in Nat /\ e - 1 >= d
        BY <3>1
      <4>2. D[e - 1] = d /\ D[e] = d
        BY <2>1, <3>1, <4>1
      <4> QED BY <1>3, <3>1, <4>2
    <3>2. CASE ~ e > d
      BY <1>3, <2>1, <3>2
    <3> QED BY <3>1, <3>2
  <2>3. D = downF(D)
    BY <2>1, <2>2
  <2> QED BY <2>3
<1>5. up = upF(up)
  <2>1. PICK U : U = [e \in Nat |-> IF e <= d THEN d ELSE e]
    OBVIOUS
  <2>2. ASSUME NEW e \in Nat PROVE U[e] = IF DecadeXp(e + 1) <= xp THEN U[e + 1] ELSE e
    <3>1. CASE e + 1 <= d
      <4>1. e + 1 \in Nat /\ e <= d
        BY <3>1
      <4>2. U[e + 1] = d /\ U[e] = d
        BY <2>1, <3>1, <4>1
      <4> QED BY <1>3, <3>1, <4>2
    <3>2. CASE ~ e + 1 <= d
      <4>1. U[e] = e
        BY <2>1, <3>2
      <4> QED BY <1>3, <3>2, <4>1
    <3> QED BY <3>1, <3>2
  <2>3. U = upF(U)
    BY <2>1, <2>2
  <2> QED BY <2>3
<1> HIDE DEF down, up, root
<1>6. \A e \in Nat : down[e] = IF e > d THEN down[e - 1] ELSE e
  BY <1>3, <1>4
<1>7. \A e \in Nat : up[e] = IF e + 1 <= d THEN up[e + 1] ELSE e
  BY <1>3, <1>5
<1> HIDE DEF downF, upF
<1>8. \A e \in Nat : down[e] \in 0..d
  <2> DEFINE K == {e \in Nat : down[e] \in 0..d}
  <2>1. 0 \in K
    <3>1. ~ 0 > d
      OBVIOUS
    <3> QED BY <1>6, <3>1
  <2>2. \A e \in Nat : e \in K => e + 1 \in K
    <3> SUFFICES ASSUME NEW e \in Nat, e \in K PROVE e + 1 \in K
      OBVIOUS
    <3>1. e + 1 \in Nat /\ (e + 1) - 1 = e
      OBVIOUS
    <3>2. down[e + 1] = IF e + 1 > d THEN down[e] ELSE e + 1
      BY <1>6, <3>1
    <3>3. CASE e + 1 > d
      BY <3>2, <3>3
    <3>4. CASE ~ e + 1 > d
      BY <3>2, <3>4
    <3> QED BY <3>3, <3>4
  <2>3. \A e \in Nat : e \in K
    <3> HIDE DEF K
    <3> QED BY <2>1, <2>2, AllNat
  <2> QED BY <2>3
<1>9. \A e \in 0..d : up[e] = d
  <2> DEFINE K == {n \in Nat : n <= d => up[d - n] = d}
  <2>1. 0 \in K
    <3>1. d - 0 = d /\ ~ d + 1 <= d
      OBVIOUS
    <3> QED BY <1>7, <3>1
  <2>2. \A n \in Nat : n \in K => n + 1 \in K
    <3> SUFFICES ASSUME NEW n \in Nat, n \in K, n + 1 <= d PROVE up[d - (n + 1)] = d
      OBVIOUS
    <3>1. PICK e \in Nat : e = d - (n + 1)
      OBVIOUS
    <3>2. e + 1 = d - n /\ e + 1 <= d /\ n <= d
      BY <3>1
    <3>3. up[e + 1] = d
      BY <3>2
    <3>4. up[e] = up[e + 1]
      BY <1>7, <3>2
    <3> QED BY <3>1, <3>3, <3>4
  <2>3. \A n \in Nat : n \in K
    <3> HIDE DEF K
    <3> QED BY <2>1, <2>2, AllNat
  <2> SUFFICES ASSUME NEW e \in 0..d PROVE up[e] = d
    OBVIOUS
  <2>4. PICK n \in Nat : n = d - e
    OBVIOUS
  <2>5. n <= d /\ d - n = e
    BY <2>4
  <2> QED BY <2>3, <2>5
<1> QED
  BY <1>1, <1>2, <1>8, <1>9

\* The points of a level's decade and position.
LEMMA LevelParts ==
    ASSUME NEW d \in Nat, NEW m \in 0..9
    PROVE  /\ 10 * d + m \in Nat
           /\ MinimumXp(10 * d + m) = DecadeXp(d) + 100 * (d + 1) * m
<1>1. (10 * d + m) \div 10 = d /\ (10 * d + m) % 10 = m
  OBVIOUS
<1> QED
  BY <1>1 DEF MinimumXp, DecadeXp

\* Each level takes a hundred points for every decade begun.
LEMMA LevelStep ==
    ASSUME NEW l \in Nat
    PROVE  /\ MinimumXp(l) \in Nat
           /\ MinimumXp(l) < MinimumXp(l + 1)
<1>1. PICK d \in Nat : \E m \in 0..9 : l = 10 * d + m
  <2>1. l \div 10 \in Nat
    OBVIOUS
  <2>2. l % 10 \in 0..9
    OBVIOUS
  <2>3. l = 10 * (l \div 10) + (l % 10)
    OBVIOUS
  <2> QED BY <2>1, <2>2, <2>3
<1>2. PICK m \in 0..9 : l = 10 * d + m
  BY <1>1
<1>3. PICK p \in Nat : p = 100 * (d + 1) /\ p > 0
  OBVIOUS
<1>4. DecadeXp(d) \in Nat /\ DecadeXp(d + 1) = DecadeXp(d) + 10 * p
  BY <1>3, DecadeStep
<1>5. MinimumXp(l) = DecadeXp(d) + p * m
  BY <1>2, <1>3, LevelParts
<1>6. p * m \in Nat
  BY <1>3
<1>7. CASE m < 9
  <2>1. m + 1 \in 0..9 /\ l + 1 = 10 * d + (m + 1)
    BY <1>2, <1>7
  <2>2. MinimumXp(10 * d + (m + 1)) = DecadeXp(d) + 100 * (d + 1) * (m + 1)
    BY <2>1, LevelParts
  <2>3. MinimumXp(l + 1) = DecadeXp(d) + p * (m + 1)
    BY <1>3, <2>1, <2>2
  <2>4. p * (m + 1) = p * m + p
    BY <1>3
  <2> QED BY <1>3, <1>4, <1>5, <1>6, <2>3, <2>4
<1>8. CASE m = 9
  <2>1. l + 1 = 10 * (d + 1) + 0 /\ d + 1 \in Nat /\ 0 \in 0..9
    BY <1>2, <1>8
  <2>2. MinimumXp(10 * (d + 1) + 0) = DecadeXp(d + 1) + 100 * ((d + 1) + 1) * 0
    BY <2>1, LevelParts
  <2>3. 100 * ((d + 1) + 1) * 0 = 0
    OBVIOUS
  <2>4. MinimumXp(l + 1) = DecadeXp(d + 1) + 0
    BY <2>1, <2>2, <2>3
  <2> QED BY <1>3, <1>4, <1>5, <1>8, <2>4
<1> QED
  BY <1>7, <1>8

\* A higher level begins with more points.
LEMMA LevelsGrow ==
    ASSUME NEW l \in Nat, NEW n \in Nat, l <= n
    PROVE  MinimumXp(l) <= MinimumXp(n)
<1> DEFINE K == {k \in Nat : MinimumXp(l) <= MinimumXp(l + k)}
<1>1. 0 \in K
  <2>1. l + 0 = l /\ MinimumXp(l) \in Nat
    BY LevelStep
  <2> QED BY <2>1
<1>2. \A k \in Nat : k \in K => k + 1 \in K
  <2> SUFFICES ASSUME NEW k \in Nat, k \in K PROVE k + 1 \in K
    OBVIOUS
  <2>1. PICK j \in Nat : j = l + k
    OBVIOUS
  <2>2. l + (k + 1) = j + 1 /\ j + 1 \in Nat
    BY <2>1
  <2>3. /\ MinimumXp(l) \in Nat /\ MinimumXp(j) \in Nat /\ MinimumXp(j + 1) \in Nat
        /\ MinimumXp(j) < MinimumXp(j + 1)
    BY <2>2, LevelStep
  <2>4. MinimumXp(l) <= MinimumXp(j + 1)
    BY <2>1, <2>3
  <2> QED BY <2>2, <2>4
<1>3. \A k \in Nat : k \in K
  <2> HIDE DEF K
  <2> QED BY <1>1, <1>2, AllNat
<1>4. PICK k \in Nat : n = l + k
  <2>1. n - l \in Nat /\ n = l + (n - l)
    OBVIOUS
  <2> QED BY <2>1
<1> QED
  BY <1>3, <1>4

\* The level's threshold has been reached and its successor's has not.
LEMMA LevelBounds ==
    ASSUME NEW xp \in Nat
    PROVE  /\ LevelForXp(xp) \in Nat
           /\ MinimumXp(LevelForXp(xp)) <= xp
           /\ xp < MinimumXp(LevelForXp(xp) + 1)
<1>1. PICK d \in Nat : /\ DecadeXp(d) <= xp /\ xp < DecadeXp(d + 1)
                       /\ \A e \in Nat : DecadeXp(e) <= xp <=> e <= d
  BY DecadeExists
<1>2. Decades(xp) = d
  BY <1>1, DecadesExact
<1>3. PICK p \in Nat : p = 100 * (d + 1) /\ p > 0
  OBVIOUS
<1>4. DecadeXp(d) \in Nat /\ DecadeXp(d + 1) = DecadeXp(d) + 10 * p
  BY <1>3, DecadeStep
<1>5. PICK x \in Nat : x = xp - DecadeXp(d) /\ x < 10 * p
  BY <1>1, <1>4
<1>6. PICK m : m = x \div p
  OBVIOUS
<1>7. m \in Nat /\ p * m <= x /\ x < p * (m + 1)
  <2>1. x \div p \in Nat /\ p * (x \div p) <= x
    BY <1>3
  <2>2. x < p * (x \div p) + p
    BY <1>3
  <2>3. p * (m + 1) = p * m + p
    BY <1>3, <1>6, <2>1
  <2> QED BY <1>6, <2>1, <2>2, <2>3
<1>8. m \in 0..9
  <2> SUFFICES ASSUME m > 9 PROVE FALSE
    BY <1>7
  <2>1. PICK k \in Nat : m = 10 + k
    <3>1. m - 10 \in Nat /\ m = 10 + (m - 10)
      BY <1>7
    <3> QED BY <3>1
  <2>2. p * m = 10 * p + p * k /\ p * k \in Nat
    BY <1>3, <2>1
  <2> QED BY <1>3, <1>5, <1>7, <2>2
<1>9. LevelForXp(xp) = 10 * d + m
  BY <1>2, <1>3, <1>5, <1>6, <1>8 DEF LevelForXp
<1>10. MinimumXp(10 * d + m) = DecadeXp(d) + p * m
  BY <1>3, <1>8, LevelParts
<1>11. p * m \in Nat /\ p * (m + 1) = p * m + p
  BY <1>3, <1>7
<1>12. MinimumXp((10 * d + m) + 1) = DecadeXp(d) + p * (m + 1)
  <2>1. CASE m < 9
    <3>1. m + 1 \in 0..9 /\ (10 * d + m) + 1 = 10 * d + (m + 1)
      BY <1>8, <2>1
    <3>2. MinimumXp(10 * d + (m + 1)) = DecadeXp(d) + 100 * (d + 1) * (m + 1)
      BY <3>1, LevelParts
    <3> QED BY <1>3, <3>1, <3>2
  <2>2. CASE m = 9
    <3>1. (10 * d + m) + 1 = 10 * (d + 1) + 0 /\ d + 1 \in Nat /\ 0 \in 0..9
      BY <2>2
    <3>2. MinimumXp(10 * (d + 1) + 0) = DecadeXp(d + 1) + 100 * ((d + 1) + 1) * 0
      BY <3>1, LevelParts
    <3>3. 100 * ((d + 1) + 1) * 0 = 0 /\ p * (m + 1) = 10 * p
      BY <1>3, <2>2
    <3> QED BY <1>3, <1>4, <3>1, <3>2, <3>3
  <2> QED BY <1>8, <2>1, <2>2
<1>13. 10 * d + m \in Nat
  BY <1>8, LevelParts
<1> QED
  BY <1>4, <1>5, <1>7, <1>9, <1>10, <1>11, <1>12, <1>13

\* A level is reached exactly with its threshold.
LEMMA LevelReached ==
    ASSUME NEW xp \in Nat, NEW l \in Nat
    PROVE  LevelForXp(xp) >= l <=> MinimumXp(l) <= xp
<1>1. PICK n \in Nat : n = LevelForXp(xp)
  BY LevelBounds
<1>2. MinimumXp(n) <= xp /\ xp < MinimumXp(n + 1)
  BY <1>1, LevelBounds
<1>3. n + 1 \in Nat /\ MinimumXp(l) \in Nat /\ MinimumXp(n) \in Nat
  BY LevelStep
<1>4. MinimumXp(n + 1) \in Nat
  BY <1>3, LevelStep
<1>5. CASE n >= l
  <2>1. MinimumXp(l) <= MinimumXp(n)
    BY <1>5, LevelsGrow
  <2> QED BY <1>1, <1>2, <1>3, <1>5, <2>1
<1>6. CASE ~ n >= l
  <2>1. n + 1 <= l
    BY <1>6
  <2>2. MinimumXp(n + 1) <= MinimumXp(l)
    BY <1>3, <2>1, LevelsGrow
  <2> QED BY <1>1, <1>2, <1>3, <1>4, <1>6, <2>2
<1> QED
  BY <1>5, <1>6

\* What a projection says.
Projected == \E xp \in Nat : player = Projection(xp, 0)

\* The level of any projection is exact, whatever was crafted in whichever portions
\* (level_for_xp, xp_to_next_level, project_xp).
THEOREM LevelIsExact == XpSpec => []LevelExact
<1>1. XpInit => Projected
  BY DEF XpInit, Projected, BadgeXp
<1>2. Projected /\ [CraftBadges]_player => Projected'
  <2> SUFFICES ASSUME Projected, [CraftBadges]_player PROVE Projected'
    OBVIOUS
  <2>1. CASE CraftBadges
    <3>1. PICK xp \in Nat : player = Projection(xp, 0)
      BY DEF Projected
    <3>2. PICK crafts \in 1..5 : player' = Projection(player.xp, BadgeXp * crafts)
      BY <2>1 DEF CraftBadges
    <3>3. player.xp = xp
      BY <3>1 DEF Projection
    <3>4. PICK sum \in Nat : sum = xp + BadgeXp * crafts
      BY DEF BadgeXp
    <3>5. Projection(xp, BadgeXp * crafts) = Projection(sum, 0)
      <4>1. sum + 0 = sum
        OBVIOUS
      <4> QED BY <3>4, <4>1, Zenon DEF Projection
    <3> QED BY <3>2, <3>3, <3>5 DEF Projected
  <2>2. CASE UNCHANGED player
    BY <2>2 DEF Projected
  <2> QED BY <2>1, <2>2
<1>3. Projected => LevelExact
  <2> SUFFICES ASSUME NEW xp \in Nat, player = Projection(xp, 0) PROVE LevelExact
    BY DEF Projected
  <2>1. PICK n \in Nat : n = LevelForXp(xp)
    BY LevelBounds
  <2>2. xp + 0 = xp
    OBVIOUS
  <2>3. player.xp = xp /\ player.level = n /\ player.toNext = MinimumXp(n + 1) - xp
    BY <2>1, <2>2, Zenon DEF Projection, XpToNextLevel
  <2>4. MinimumXp(n) <= xp /\ xp < MinimumXp(n + 1)
    BY <2>1, LevelBounds
  <2>5. /\ MinimumXp(n) \in Nat /\ MinimumXp(n + 1) \in Nat /\ MinimumXp((n + 1) + 1) \in Nat
        /\ MinimumXp(n + 1) < MinimumXp((n + 1) + 1)
    <3>1. n + 1 \in Nat /\ (n + 1) + 1 \in Nat
      OBVIOUS
    <3> QED BY <3>1, LevelStep
  <2>6. PICK next \in Nat : next = MinimumXp(n + 1)
    BY <2>5
  <2>7. LevelForXp(next) = n + 1
    <3>1. PICK k \in Nat : k = LevelForXp(next)
      BY LevelBounds
    <3>2. k >= n + 1
      BY <2>6, <3>1, LevelReached
    <3>3. ~ k >= (n + 1) + 1
      <4>1. (n + 1) + 1 \in Nat
        OBVIOUS
      <4>2. k >= (n + 1) + 1 <=> MinimumXp((n + 1) + 1) <= next
        BY <3>1, <4>1, LevelReached
      <4> QED BY <2>5, <2>6, <4>2
    <3> QED BY <3>1, <3>2, <3>3
  <2>8. LevelForXp(next - 1) = n
    <3>1. PICK y \in Nat : y = next - 1 /\ MinimumXp(n) <= y
      BY <2>4, <2>5, <2>6
    <3>2. PICK k \in Nat : k = LevelForXp(y)
      BY LevelBounds
    <3>3. k >= n
      BY <3>1, <3>2, LevelReached
    <3>4. ~ k >= n + 1
      <4>1. k >= n + 1 <=> MinimumXp(n + 1) <= y
        BY <3>2, LevelReached
      <4> QED BY <2>6, <3>1, <4>1
    <3> QED BY <3>1, <3>2, <3>3, <3>4
  <2>9. xp + (next - xp) = next /\ xp + (next - xp) - 1 = next - 1
    BY <2>6
  <2>10. /\ LevelForXp(player.xp + player.toNext) = player.level + 1
         /\ LevelForXp(player.xp + player.toNext - 1) = player.level
    BY <2>3, <2>6, <2>7, <2>8, <2>9
  <2> QED BY <2>3, <2>4, <2>10 DEF LevelExact
<1> QED
  BY <1>1, <1>2, <1>3, PTL DEF XpSpec

-----------------------------------------------------------------------------
(***************************************************************************)
(* What a request offers.                                                  *)
(***************************************************************************)

\* What the validation of a request leaves.
LEMMA RequestIs ==
    ASSUME NEW r \in Requests
    PROVE  /\ r.level \in [Games -> 0..5] /\ r.set \in [Games -> SUBSET Cards]
           /\ r.owned \in [Cards -> Nat] /\ r.keep \in [Cards -> Nat]
           /\ r.ask \in [Cards -> Side] /\ r.bid \in [Cards -> Side]
           /\ r.size \in [Games -> (5..15) \union {None}]
           /\ r.xp \in Nat /\ r.budget \in Nat /\ r.target \in Nat \union {None}
           /\ r.mode \in {"target", "budget", "collector"}
           /\ r.mode = "target" => r.target \in Nat
           /\ r.selected \subseteq Games /\ r.listed \subseteq Games
           /\ r.compare \in Games \union {None}
           /\ DOMAIN r.goals \subseteq Games /\ IsFiniteSet(DOMAIN r.goals)
           /\ \A g \in DOMAIN r.goals : r.goals[g] \in 1..5
<1>1. r \in Request /\ (r.mode = "target" <=> r.target # None)
  BY RequestsAssumption
<1>2. r.goals \in UNION {[S -> 1..5] : S \in SUBSET Games}
  BY <1>1 DEF Request
<1>3. PICK S \in SUBSET Games : r.goals \in [S -> 1..5]
  BY <1>2
<1>4. DOMAIN r.goals = S /\ \A g \in S : r.goals[g] \in 1..5
  BY <1>3
<1>5. IsFiniteSet(S)
  BY CatalogAssumption, FS_Subset
<1>6. /\ r.level \in [Games -> 0..5] /\ r.set \in [Games -> SUBSET Cards]
      /\ r.owned \in [Cards -> Nat] /\ r.keep \in [Cards -> Nat]
      /\ r.ask \in [Cards -> Side] /\ r.bid \in [Cards -> Side]
      /\ r.size \in [Games -> (5..15) \union {None}]
      /\ r.xp \in Nat /\ r.budget \in Nat /\ r.target \in Nat \union {None}
      /\ r.mode \in {"target", "budget", "collector"}
      /\ r.selected \subseteq Games /\ r.listed \subseteq Games
      /\ r.compare \in Games \union {None}
  BY <1>1 DEF Request
<1> QED
  BY <1>1, <1>4, <1>5, <1>6

\* A row has finitely many cards, and at least one when its set is known.
LEMMA StockIs ==
    ASSUME NEW r \in Requests, NEW g \in Games
    PROVE  /\ StockOf(r, g) \subseteq Cards /\ IsFiniteSet(StockOf(r, g))
           /\ \A T \in SUBSET StockOf(r, g) : IsFiniteSet(T)
           /\ Composition(r, g) = "full" => StockOf(r, g) # {}
<1>1. CardsOf[g] \subseteq Cards
  BY DEF Cards
<1>2. StockOf(r, g) \subseteq Cards
  BY <1>1, RequestIs DEF StockOf, Held
<1>3. IsFiniteSet(StockOf(r, g))
  BY <1>2, CatalogAssumption, FS_Subset
<1>4. \A T \in SUBSET StockOf(r, g) : IsFiniteSet(T)
  BY <1>3, FS_Subset
<1>5. ASSUME Composition(r, g) = "full", StockOf(r, g) = {} PROVE FALSE
  <2>1. r.set[g] = {} /\ Held(r, g) = {}
    BY <1>5 DEF StockOf
  <2>2. r.size[g] # None /\ Cardinality(Held(r, g)) = r.size[g]
    BY <1>5, <2>1 DEF Composition
  <2>3. Cardinality(Held(r, g)) = 0
    BY <2>1, FS_EmptySet
  <2>4. r.size[g] \in 5..15
    BY <2>2, RequestIs
  <2> QED BY <2>2, <2>3, <2>4
<1> QED
  BY <1>2, <1>3, <1>4, <1>5

\* A reserve never holds back more than is owned (CardCatalog.Available).
LEMMA AvailableIs ==
    ASSUME NEW r \in Requests, NEW card \in Cards
    PROVE  /\ Available(r, card) \in Nat
           /\ r.owned[card] \in Nat /\ r.keep[card] \in Nat /\ r.keep[card] <= r.owned[card]
           /\ Available(r, card) = r.owned[card] - r.keep[card]
<1>1. r.owned[card] \in Nat /\ r.keep[card] \in Nat
  BY RequestIs
<1>2. r.keep[card] <= r.owned[card]
  BY RequestsAssumption
<1>3. PICK o \in Nat, k \in Nat : o = r.owned[card] /\ k = r.keep[card]
  BY <1>1
<1> QED
  BY <1>2, <1>3 DEF Available, AtLeast

\* An ask that counts has a positive price and a quantity.
LEMMA BuyableIs ==
    ASSUME NEW r \in Requests, NEW card \in Cards, Buyable(r, card)
    PROVE  /\ r.ask[card].price \in Nat /\ r.ask[card].price > 0
           /\ r.ask[card].quantity \in Nat /\ r.ask[card].quantity > 0
<1>1. PICK side : side = r.ask[card]
  OBVIOUS
<1>2. side \in Side
  BY <1>1, RequestIs
<1>3. State(r, side) = "valid"
  BY <1>1 DEF Buyable
<1>4. side # None /\ ~ side.quantity < 1 /\ side.price # 0
  BY <1>3 DEF State
<1>5. side \in Quote
  BY <1>2, <1>4 DEF Side
<1>6. side.price \in Nat /\ side.quantity \in Nat
  BY <1>5 DEF Quote
<1> QED
  BY <1>1, <1>4, <1>6

PriceOf(r, card) == IF Buyable(r, card) THEN r.ask[card].price ELSE 0

\* How many of a card a pass may use.
Supply(r, card) ==
    Available(r, card) + (IF Buyable(r, card) THEN r.ask[card].quantity ELSE 0)

\* More than what is available can be had of a card exactly when its ask counts.
LEMMA SupplyIs ==
    ASSUME NEW r \in Requests, NEW card \in Cards
    PROVE  /\ Supply(r, card) \in Nat /\ PriceOf(r, card) \in Nat
           /\ Available(r, card) <= Supply(r, card)
           /\ Available(r, card) < Supply(r, card) <=> Buyable(r, card)
BY AvailableIs, BuyableIs DEF Supply, PriceOf

\* A game that a pass may craft, and how often (_game_marginals).
Takes(r, name, g) ==
    /\ g \notin r.excluded /\ Composition(r, g) = "full" /\ r.level[g] < 5
    /\ g \in Stocks(r, name)

Fits(r, name, g, k) ==
    /\ k <= 5 - r.level[g]
    /\ r.mode = "collector" /\ ~ OfSale(name) => k <= PerGame(r, g)
    /\ \A card \in StockOf(r, g) : k <= Supply(r, card)

\* The badges that a collector still misses of a game.
LEMMA PerGameIs ==
    ASSUME NEW r \in Requests, NEW g \in DOMAIN r.goals
    PROVE  PerGame(r, g) \in Nat /\ PerGame(r, g) = AtLeast(r.goals[g] - r.level[g], 0)
<1>1. r.goals[g] \in 1..5 /\ r.level[g] \in 0..5
  BY RequestIs
<1> QED
  BY <1>1 DEF PerGame, AtLeast

\* A pass offers a game the most crafts that levels, cards and its rule allow.
LEMMA LengthIs ==
    ASSUME NEW r \in Requests, NEW name \in PassNames, NEW g \in Games
    PROVE  /\ Length(r, name, g) \in 0..5
           /\ ~ Takes(r, name, g) => Length(r, name, g) = 0
           /\ Takes(r, name, g) => Fits(r, name, g, Length(r, name, g))
           /\ \A k \in Nat : Takes(r, name, g) /\ Fits(r, name, g, k) => k <= Length(r, name, g)
<1>1. r.level[g] \in 0..5
  BY RequestIs
<1>2. CASE ~ Takes(r, name, g)
  <2>1. Length(r, name, g) = 0
    <3>1. ~ (r.level[g] >= 5) <=> r.level[g] < 5
      BY <1>1
    <3> QED BY <1>2, <3>1, Zenon DEF Length, Takes
  <2> QED BY <1>2, <2>1
<1>3. CASE Takes(r, name, g)
  <2> DEFINE own == {5 - r.level[g]}
             goal == IF r.mode = "collector" /\ ~ OfSale(name) THEN {PerGame(r, g)} ELSE {}
             cards == {Supply(r, card) : card \in StockOf(r, g)}
             S == own \union goal \union cards
  <2>1. Length(r, name, g) = Min(S)
    <3>1. ~ (r.level[g] >= 5)
      BY <1>1, <1>3 DEF Takes
    <3>2. StockOf(r, g) # {}
      BY <1>3, StockIs DEF Takes
    <3> QED BY <1>3, <3>1, <3>2, Zenon DEF Length, Takes, Supply
  <2>2. own \subseteq Nat /\ own # {}
    BY <1>1
  <2>3. goal \subseteq Nat
    <3> SUFFICES ASSUME r.mode = "collector", ~ OfSale(name) PROVE PerGame(r, g) \in Nat
      OBVIOUS
    <3>1. Stocks(r, name) = Eligible(r)
      BY DEF OfSale, Stocks, PassNames
    <3>2. g \in DOMAIN r.goals
      BY <1>3, <3>1 DEF Takes, Eligible
    <3> QED BY <3>2, PerGameIs
  <2>4. cards \subseteq Nat
    BY StockIs, SupplyIs
  <2>5. PICK n : n = Length(r, name, g)
    OBVIOUS
  <2>6. S \subseteq Nat /\ S # {} /\ n = Min(S)
    BY <2>1, <2>2, <2>3, <2>4, <2>5
  <2>7. n \in S /\ \A x \in S : n <= x
    <3> HIDE DEF S
    <3> QED BY <2>6, MinIs
  <2>8. n \in Nat /\ n <= 5 - r.level[g]
    BY <2>6, <2>7
  <2>9. Fits(r, name, g, n)
    BY <2>7 DEF Fits
  <2>10. ASSUME NEW k \in Nat, Fits(r, name, g, k) PROVE k <= n
    <3>1. \A x \in S : k <= x
      BY <2>10 DEF Fits
    <3> QED BY <2>7, <3>1
  <2>11. n \in 0..5
    BY <1>1, <2>8
  <2> QED BY <1>3, <2>5, <2>9, <2>10, <2>11
<1> QED
  BY <1>2, <1>3

-----------------------------------------------------------------------------
Prices(r) == [card \in Cards |-> PriceOf(r, card)]

\* What a game's first n crafts cost.
PaidFor(r, g, n) ==
    [card \in StockOf(r, g) |-> IF n > Available(r, card)
                                THEN (n - Available(r, card)) * r.ask[card].price ELSE 0]

GameSpend(r, g, n) == SumFunction(PaidFor(r, g, n))

\* A pass crafts only what can be bought; the j-th craft has a price.
LEMMA CostIs ==
    ASSUME NEW r \in Requests, NEW name \in PassNames, NEW g \in Games,
           NEW j \in Nat, j <= Length(r, name, g)
    PROVE  /\ BoughtFor(r, g, j) \subseteq StockOf(r, g) /\ IsFiniteSet(BoughtFor(r, g, j))
           /\ \A card \in StockOf(r, g) : j > Available(r, card) => Buyable(r, card)
           /\ CostOf(r, g, j) = SumFunctionOnSet(Prices(r), BoughtFor(r, g, j))
           /\ CostOf(r, g, j) \in Nat
<1>1. BoughtFor(r, g, j) \subseteq StockOf(r, g) /\ IsFiniteSet(BoughtFor(r, g, j))
  BY StockIs DEF BoughtFor
<1>2. ASSUME NEW card \in StockOf(r, g), j > Available(r, card) PROVE Buyable(r, card)
  <2>1. card \in Cards
    BY StockIs
  <2>2. PICK n \in Nat : n = Length(r, name, g)
    BY LengthIs
  <2>3. PICK a \in Nat : a = Available(r, card)
    BY <2>1, AvailableIs
  <2>4. n # 0
    BY <1>2, <2>2, <2>3
  <2>5. n <= Supply(r, card)
    BY <2>2, <2>4, LengthIs DEF Fits
  <2>6. Supply(r, card) \in Nat
    BY <2>1, SupplyIs
  <2>7. a < Supply(r, card)
    BY <1>2, <2>2, <2>3, <2>5, <2>6
  <2> QED BY <2>1, <2>3, <2>7, SupplyIs
<1>3. PICK B : B = BoughtFor(r, g, j)
  OBVIOUS
<1>4. PICK f : f = [card \in B |-> r.ask[card].price]
  OBVIOUS
<1>5. CostOf(r, g, j) = SumFunctionOnSet(f, B)
  BY <1>3, <1>4, Zenon DEF CostOf, SumFunction
<1>6. \A card \in B : f[card] = Prices(r)[card] /\ Prices(r)[card] \in Nat
  <2> SUFFICES ASSUME NEW card \in B
               PROVE  f[card] = Prices(r)[card] /\ Prices(r)[card] \in Nat
    OBVIOUS
  <2>1. card \in Cards /\ card \in StockOf(r, g)
    BY <1>1, <1>3, StockIs
  <2>2. Buyable(r, card)
    BY <1>2, <1>3 DEF BoughtFor
  <2>3. Prices(r)[card] = PriceOf(r, card) /\ PriceOf(r, card) = r.ask[card].price
    BY <2>1, <2>2 DEF Prices, PriceOf
  <2> QED BY <1>4, <2>1, <2>3, SupplyIs
<1>7. SumFunctionOnSet(f, B) = SumFunctionOnSet(Prices(r), B)
  BY <1>1, <1>3, <1>6, SumSame
<1>8. SumFunctionOnSet(Prices(r), B) \in Nat
  BY <1>1, <1>3, <1>6, SumNat
<1> QED
  BY <1>1, <1>2, <1>3, <1>5, <1>7, <1>8

\* A later craft of a game never costs less than an earlier one.
LEMMA CostGrows ==
    ASSUME NEW r \in Requests, NEW name \in PassNames, NEW g \in Games,
           NEW i \in Nat, NEW j \in Nat, i <= j, j <= Length(r, name, g)
    PROVE  CostOf(r, g, i) <= CostOf(r, g, j)
<1>1. i <= Length(r, name, g)
  BY LengthIs
<1>2. PICK B : B = BoughtFor(r, g, j)
  OBVIOUS
<1>3. BoughtFor(r, g, i) \in SUBSET B
  <2> SUFFICES ASSUME NEW card \in StockOf(r, g), i > Available(r, card)
               PROVE  j > Available(r, card)
    BY <1>2 DEF BoughtFor
  <2>1. Available(r, card) \in Nat
    BY StockIs, AvailableIs
  <2> QED BY <2>1
<1>4. \A card \in B : Prices(r)[card] \in Nat
  <2> SUFFICES ASSUME NEW card \in B PROVE Prices(r)[card] \in Nat
    OBVIOUS
  <2>1. card \in Cards
    BY <1>2, CostIs, StockIs
  <2> QED BY <2>1, SupplyIs DEF Prices
<1>5. IsFiniteSet(B)
  BY <1>2, CostIs
<1>6. SumFunctionOnSet(Prices(r), BoughtFor(r, g, i)) <= SumFunctionOnSet(Prices(r), B)
  BY <1>3, <1>4, <1>5, SumGrows
<1>7. CostOf(r, g, i) = SumFunctionOnSet(Prices(r), BoughtFor(r, g, i))
  BY <1>1, CostIs
<1>8. CostOf(r, g, j) = SumFunctionOnSet(Prices(r), B)
  BY <1>2, CostIs
<1> QED
  BY <1>6, <1>7, <1>8

\* The terms of what a game costs.
LEMMA PaidIs ==
    ASSUME NEW r \in Requests, NEW name \in PassNames, NEW g \in Games,
           NEW n \in Nat, n <= Length(r, name, g)
    PROVE  /\ GameSpend(r, g, n) = SumFunctionOnSet(PaidFor(r, g, n), StockOf(r, g))
           /\ \A card \in StockOf(r, g) : PaidFor(r, g, n)[card] \in Nat
           /\ GameSpend(r, g, n) \in Nat
<1>1. DOMAIN PaidFor(r, g, n) = StockOf(r, g)
  BY DEF PaidFor
<1>2. GameSpend(r, g, n) = SumFunctionOnSet(PaidFor(r, g, n), StockOf(r, g))
  BY <1>1, Zenon DEF GameSpend, SumFunction
<1>3. ASSUME NEW card \in StockOf(r, g) PROVE PaidFor(r, g, n)[card] \in Nat
  <2>1. card \in Cards
    BY StockIs
  <2>2. PICK a \in Nat : a = Available(r, card)
    BY <2>1, AvailableIs
  <2>3. PICK p : p = r.ask[card].price
    OBVIOUS
  <2>4. PaidFor(r, g, n)[card] = IF n > a THEN (n - a) * p ELSE 0
    BY <2>2, <2>3, Zenon DEF PaidFor
  <2>5. CASE n > a
    <3>1. p \in Nat
      BY <2>1, <2>2, <2>3, <2>5, CostIs, BuyableIs
    <3>2. n - a \in Nat
      BY <2>5
    <3>3. (n - a) * p \in Nat
      BY <3>1, <3>2
    <3> QED BY <2>4, <2>5, <3>3
  <2>6. CASE ~ n > a
    BY <2>4, <2>6
  <2> QED BY <2>5, <2>6
<1>4. SumFunctionOnSet(PaidFor(r, g, n), StockOf(r, g)) \in Nat
  BY <1>3, StockIs, SumNat
<1> QED
  BY <1>2, <1>3, <1>4

\* No crafts cost nothing.
LEMMA NoSpend ==
    ASSUME NEW r \in Requests, NEW g \in Games
    PROVE  GameSpend(r, g, 0) = 0
<1>1. PICK f : f = PaidFor(r, g, 0)
  OBVIOUS
<1>2. DOMAIN f = StockOf(r, g)
  BY <1>1 DEF PaidFor
<1>3. \A card \in StockOf(r, g) : f[card] = 0
  <2> SUFFICES ASSUME NEW card \in StockOf(r, g) PROVE f[card] = 0
    OBVIOUS
  <2>1. ~ 0 > Available(r, card)
    BY StockIs, AvailableIs
  <2> QED BY <1>1, <2>1 DEF PaidFor
<1>4. SumFunctionOnSet(f, StockOf(r, g)) = SumFunctionOnSet(f, {})
  BY <1>3, StockIs, SumSupport
<1> QED
  BY <1>1, <1>2, <1>4, SumEmpty DEF GameSpend, SumFunction

\* A further craft adds its cost.
LEMMA SpendStep ==
    ASSUME NEW r \in Requests, NEW name \in PassNames, NEW g \in Games,
           NEW n \in Nat, n < Length(r, name, g)
    PROVE  GameSpend(r, g, n + 1) = GameSpend(r, g, n) + CostOf(r, g, n + 1)
<1>1. n + 1 \in Nat /\ n + 1 <= Length(r, name, g) /\ n <= Length(r, name, g)
  BY LengthIs
<1>2. PICK S : S = StockOf(r, g)
  OBVIOUS
<1>3. PICK B : B = BoughtFor(r, g, n + 1)
  OBVIOUS
<1>4. B \in SUBSET S /\ IsFiniteSet(S) /\ IsFiniteSet(B) /\ S \subseteq Cards
  BY <1>1, <1>2, <1>3, CostIs, StockIs
<1>5. PICK f, h : f = PaidFor(r, g, n) /\ h = PaidFor(r, g, n + 1)
  OBVIOUS
<1>6. PICK c : c = [card \in S |-> IF card \in B THEN Prices(r)[card] ELSE 0]
  OBVIOUS
<1>7. ASSUME NEW card \in S
      PROVE  /\ f[card] \in Int /\ c[card] \in Int /\ h[card] = f[card] + c[card]
  <2>1. card \in Cards
    BY <1>4
  <2>2. PICK a \in Nat : a = Available(r, card)
    BY <2>1, AvailableIs
  <2>3. PICK p : p = r.ask[card].price
    OBVIOUS
  <2>4. f[card] = IF n > a THEN (n - a) * p ELSE 0
    BY <1>2, <1>5, <2>2, <2>3, Zenon DEF PaidFor
  <2>5. h[card] = IF n + 1 > a THEN ((n + 1) - a) * p ELSE 0
    BY <1>2, <1>5, <2>2, <2>3, Zenon DEF PaidFor
  <2>6. card \in B <=> n + 1 > a
    BY <1>2, <1>3, <2>2, Zenon DEF BoughtFor
  <2>7. CASE n + 1 > a
    <3>1. Buyable(r, card)
      BY <1>1, <1>2, <2>2, <2>7, CostIs
    <3>2. p \in Nat
      BY <2>1, <2>3, <3>1, BuyableIs
    <3>3. c[card] = p
      <4>1. Prices(r)[card] = p
        BY <2>1, <2>3, <3>1 DEF Prices, PriceOf
      <4>2. c[card] = Prices(r)[card]
        BY <1>6, <2>6, <2>7
      <4> QED BY <4>1, <4>2
    <3>4. PICK k \in Nat : k = n - a /\ (n + 1) - a = k + 1
      BY <2>7
    <3>5. (k + 1) * p = k * p + p /\ k * p \in Nat
      BY <3>2
    <3>6. f[card] = k * p
      <4>1. CASE n > a
        BY <2>4, <3>4, <4>1
      <4>2. CASE ~ n > a
        <5>1. k = 0 /\ k * p = 0
          BY <3>2, <3>4, <4>2
        <5> QED BY <2>4, <4>2, <5>1
      <4> QED BY <4>1, <4>2
    <3>7. h[card] = (k + 1) * p
      BY <2>5, <2>7, <3>4
    <3> QED BY <3>2, <3>3, <3>5, <3>6, <3>7
  <2>8. CASE ~ n + 1 > a
    <3>1. ~ n > a
      BY <2>8
    <3>2. c[card] = 0
      BY <1>6, <2>6, <2>8
    <3> QED BY <2>4, <2>5, <2>8, <3>1, <3>2
  <2> QED BY <2>7, <2>8
<1>8. SumFunctionOnSet(h, S) = SumFunctionOnSet(f, S) + SumFunctionOnSet(c, S)
  BY <1>4, <1>7, SumPlus
<1>9. SumFunctionOnSet(c, S) = SumFunctionOnSet(c, B)
  <2>1. \A card \in S \ B : c[card] = 0
    BY <1>6
  <2> QED BY <1>4, <1>7, <2>1, SumSupport
<1>10. SumFunctionOnSet(c, B) = SumFunctionOnSet(Prices(r), B)
  <2>1. \A card \in B : c[card] = Prices(r)[card]
    BY <1>4, <1>6
  <2> QED BY <1>4, <2>1, SumSame
<1>11. CostOf(r, g, n + 1) = SumFunctionOnSet(Prices(r), B)
  BY <1>1, <1>3, CostIs
<1>12. /\ GameSpend(r, g, n) = SumFunctionOnSet(f, S)
       /\ GameSpend(r, g, n + 1) = SumFunctionOnSet(h, S)
  BY <1>1, <1>2, <1>5, PaidIs
<1> QED
  BY <1>8, <1>9, <1>10, <1>11, <1>12

\* Further crafts cost at least the next one each.
LEMMA SpendClimbs ==
    ASSUME NEW r \in Requests, NEW name \in PassNames, NEW g \in Games,
           NEW n \in Nat, NEW t \in Nat, n < Length(r, name, g) => t <= CostOf(r, g, n + 1)
    PROVE  \A k \in Nat : n + k <= Length(r, name, g) =>
             GameSpend(r, g, n + k) >= GameSpend(r, g, n) + t * k
<1> DEFINE K == {k \in Nat : n + k <= Length(r, name, g) =>
                               GameSpend(r, g, n + k) >= GameSpend(r, g, n) + t * k}
<1>1. PICK last \in Nat : last = Length(r, name, g)
  BY LengthIs
<1>2. 0 \in K
  <2> SUFFICES ASSUME n <= last PROVE GameSpend(r, g, n + 0) >= GameSpend(r, g, n) + t * 0
    BY <1>1
  <2>1. n + 0 = n /\ t * 0 = 0 /\ GameSpend(r, g, n) \in Nat
    BY <1>1, PaidIs
  <2> QED BY <2>1
<1>3. \A k \in Nat : k \in K => k + 1 \in K
  <2> SUFFICES ASSUME NEW k \in Nat, k \in K, n + (k + 1) <= last
               PROVE  GameSpend(r, g, n + (k + 1)) >= GameSpend(r, g, n) + t * (k + 1)
    BY <1>1
  <2>1. PICK m \in Nat : m = n + k
    OBVIOUS
  <2>2. n + (k + 1) = m + 1 /\ m + 1 \in Nat /\ n + 1 \in Nat /\ n + 1 <= m + 1
        /\ m < last /\ n < last /\ m + 1 <= last
    BY <2>1
  <2>3. GameSpend(r, g, m + 1) = GameSpend(r, g, m) + CostOf(r, g, m + 1)
    BY <1>1, <2>2, SpendStep
  <2>4. CostOf(r, g, n + 1) <= CostOf(r, g, m + 1)
    BY <1>1, <2>2, CostGrows
  <2>5. PICK a, b, c, d : /\ a = CostOf(r, g, n + 1) /\ b = CostOf(r, g, m + 1)
                          /\ c = GameSpend(r, g, n) /\ d = GameSpend(r, g, m)
    OBVIOUS
  <2>6. a \in Nat /\ b \in Nat
    BY <1>1, <2>2, <2>5, CostIs
  <2>7. c \in Nat /\ d \in Nat
    <3>1. n <= Length(r, name, g) /\ m <= Length(r, name, g)
      BY <1>1, <2>2
    <3> QED BY <2>5, <3>1, PaidIs
  <2>8. t <= a
    BY <1>1, <2>2, <2>5
  <2>9. d >= c + t * k
    BY <1>1, <2>1, <2>2, <2>5
  <2>10. t * (k + 1) = t * k + t /\ t * k \in Nat
    OBVIOUS
  <2>11. d + b >= c + t * (k + 1)
    BY <2>4, <2>5, <2>6, <2>7, <2>8, <2>9, <2>10
  <2> QED BY <2>2, <2>3, <2>5, <2>11
<1>4. \A k \in Nat : k \in K
  <2> HIDE DEF K
  <2> QED BY <1>2, <1>3, AllNat
<1> QED
  BY <1>4

\* Crafts less save at most the last one's cost each.
LEMMA SpendFalls ==
    ASSUME NEW r \in Requests, NEW name \in PassNames, NEW g \in Games,
           NEW n \in Nat, n <= Length(r, name, g),
           NEW t \in Nat, n > 0 => CostOf(r, g, n) <= t
    PROVE  \A k \in Nat : k <= n => GameSpend(r, g, n) <= GameSpend(r, g, n - k) + t * k
<1> DEFINE K == {k \in Nat : k <= n => GameSpend(r, g, n) <= GameSpend(r, g, n - k) + t * k}
<1>1. PICK last \in Nat : last = Length(r, name, g)
  BY LengthIs
<1>2. 0 \in K
  <2>1. n - 0 = n /\ t * 0 = 0 /\ GameSpend(r, g, n) \in Nat
    BY PaidIs
  <2> QED BY <2>1
<1>3. \A k \in Nat : k \in K => k + 1 \in K
  <2> SUFFICES ASSUME NEW k \in Nat, k \in K, k + 1 <= n
               PROVE  GameSpend(r, g, n) <= GameSpend(r, g, n - (k + 1)) + t * (k + 1)
    OBVIOUS
  <2>1. PICK m \in Nat : m = n - (k + 1)
    OBVIOUS
  <2>2. n - k = m + 1 /\ m + 1 \in Nat /\ m + 1 <= n /\ m < last /\ m + 1 <= last /\ k <= n
    BY <1>1, <2>1
  <2>3. GameSpend(r, g, m + 1) = GameSpend(r, g, m) + CostOf(r, g, m + 1)
    BY <1>1, <2>2, SpendStep
  <2>4. CostOf(r, g, m + 1) <= CostOf(r, g, n)
    BY <2>2, CostGrows
  <2>5. PICK a, b, c, d : /\ a = CostOf(r, g, n) /\ b = CostOf(r, g, m + 1)
                          /\ c = GameSpend(r, g, n) /\ d = GameSpend(r, g, m)
    OBVIOUS
  <2>6. a \in Nat /\ b \in Nat
    BY <1>1, <2>2, <2>5, CostIs
  <2>7. c \in Nat /\ d \in Nat
    <3>1. m <= Length(r, name, g)
      BY <1>1, <2>2
    <3> QED BY <2>5, <3>1, PaidIs
  <2>8. a <= t
    BY <2>2, <2>5
  <2>9. c <= d + b + t * k
    BY <2>2, <2>3, <2>5
  <2>10. t * (k + 1) = t * k + t /\ t * k \in Nat
    OBVIOUS
  <2>11. c <= d + t * (k + 1)
    BY <2>4, <2>5, <2>6, <2>7, <2>8, <2>9, <2>10
  <2> QED BY <2>1, <2>5, <2>11
<1>4. \A k \in Nat : k \in K
  <2> HIDE DEF K
  <2> QED BY <1>2, <1>3, AllNat
<1> QED
  BY <1>4

-----------------------------------------------------------------------------
(***************************************************************************)
(* Choices of crafts.                                                      *)
(***************************************************************************)

\* The crafts that the games of a pass have.
Selections(r, name) == {e \in [Games -> Nat] : \A g \in Games : e[g] <= Length(r, name, g)}

Spends(r, e) == [g \in Games |-> GameSpend(r, g, e[g])]

\* The totals of a choice of crafts are sums over its games.
LEMMA ChoiceIs ==
    ASSUME NEW r \in Requests, NEW name \in PassNames, NEW e \in Selections(r, name)
    PROVE  /\ Sum(e) = SumFunctionOnSet(e, Games) /\ Sum(e) \in Nat
           /\ StepSpend(r, e) = SumFunctionOnSet(Spends(r, e), Games) /\ StepSpend(r, e) \in Nat
           /\ \A g \in Games : /\ Spends(r, e)[g] = GameSpend(r, g, e[g])
                               /\ GameSpend(r, g, e[g]) \in Nat
                               /\ GameSpend(r, g, e[g]) <= StepSpend(r, e)
                               /\ e[g] <= Sum(e)
<1>1. e \in [Games -> Nat] /\ IsFiniteSet(Games)
  BY CatalogAssumption DEF Selections
<1>2. Sum(e) = SumFunctionOnSet(e, Games)
  BY <1>1 DEF Sum, SumFunction
<1>3. Sum(e) \in Nat /\ \A g \in Games : e[g] <= Sum(e)
  BY <1>1, <1>2, SumNat, SumMember
<1>4. PICK f : f = Spends(r, e)
  OBVIOUS
<1>5. DOMAIN f = Games
  BY <1>4 DEF Spends
<1>6. StepSpend(r, e) = SumFunctionOnSet(f, Games)
  <2>1. StepSpend(r, e) = SumFunction(f)
    BY <1>4, Zenon DEF StepSpend, Spends, GameSpend, PaidFor
  <2> QED BY <1>5, <2>1 DEF SumFunction
<1>7. \A g \in Games : f[g] = GameSpend(r, g, e[g])
  BY <1>4 DEF Spends
<1>8. \A g \in Games : f[g] \in Nat
  <2> SUFFICES ASSUME NEW g \in Games PROVE GameSpend(r, g, e[g]) \in Nat
    BY <1>7
  <2>1. e[g] \in Nat /\ e[g] <= Length(r, name, g)
    BY <1>1 DEF Selections
  <2> QED BY <2>1, PaidIs
<1>9. SumFunctionOnSet(f, Games) \in Nat /\ \A g \in Games : f[g] <= SumFunctionOnSet(f, Games)
  BY <1>1, <1>8, SumNat, SumMember
<1> QED
  BY <1>2, <1>3, <1>4, <1>6, <1>7, <1>8, <1>9

\* No crafts are a choice.
LEMMA ChoiceNone ==
    ASSUME NEW r \in Requests, NEW name \in PassNames
    PROVE  /\ [g \in Games |-> 0] \in Selections(r, name)
           /\ Sum([g \in Games |-> 0]) = 0 /\ StepSpend(r, [g \in Games |-> 0]) = 0
<1>1. PICK e : e = [g \in Games |-> 0]
  OBVIOUS
<1>2. e \in Selections(r, name)
  <2>1. \A g \in Games : Length(r, name, g) \in 0..5
    BY LengthIs
  <2> QED BY <1>1, <2>1 DEF Selections
<1>3. IsFiniteSet(Games)
  BY CatalogAssumption
<1>4. Sum(e) = 0
  <2>1. ~ SumFunctionOnSet(e, Games) > 0
    BY <1>1, <1>3, SumPositive
  <2> QED BY <1>2, <2>1, ChoiceIs
<1>5. StepSpend(r, e) = 0
  <2>1. PICK f : f = Spends(r, e)
    OBVIOUS
  <2>2. \A g \in Games : f[g] = 0
    BY <1>1, <1>2, <2>1, ChoiceIs, NoSpend
  <2>3. ~ SumFunctionOnSet(f, Games) > 0
    BY <1>3, <2>2, SumPositive
  <2> QED BY <1>2, <2>1, <2>3, ChoiceIs
<1> QED
  BY <1>1, <1>2, <1>4, <1>5

\* One craft more of one game.
LEMMA ChoiceRaised ==
    ASSUME NEW r \in Requests, NEW name \in PassNames, NEW e \in Selections(r, name),
           NEW g \in Games, e[g] < Length(r, name, g)
    PROVE  LET f == [e EXCEPT ![g] = e[g] + 1]
           IN  /\ f \in Selections(r, name)
               /\ Sum(f) = Sum(e) + 1
               /\ StepSpend(r, f) = StepSpend(r, e) + CostOf(r, g, e[g] + 1)
<1>1. PICK f : f = [e EXCEPT ![g] = e[g] + 1]
  OBVIOUS
<1>2. e \in [Games -> Nat] /\ IsFiniteSet(Games) /\ \A h \in Games : e[h] <= Length(r, name, h)
  BY CatalogAssumption DEF Selections
<1>3. \A h \in Games : Length(r, name, h) \in 0..5
  BY LengthIs
<1>4. f[g] = e[g] + 1 /\ f \in [Games -> Nat] /\ \A h \in Games \ {g} : f[h] = e[h]
  BY <1>1, <1>2
<1>5. f \in Selections(r, name)
  BY <1>2, <1>3, <1>4 DEF Selections
<1>6. Sum(f) = Sum(e) + 1
  <2>1. SumFunctionOnSet(f, Games) = SumFunctionOnSet(e, Games) + f[g] - e[g]
    BY <1>2, <1>4, SumPut
  <2>2. SumFunctionOnSet(e, Games) \in Nat /\ e[g] \in Nat
    BY <1>2, ChoiceIs
  <2> QED BY <1>4, <1>5, <2>1, <2>2, ChoiceIs
<1>7. StepSpend(r, f) = StepSpend(r, e) + CostOf(r, g, e[g] + 1)
  <2>1. PICK a, b : a = Spends(r, e) /\ b = Spends(r, f)
    OBVIOUS
  <2>2. \A h \in Games : a[h] \in Int /\ b[h] \in Int
    BY <1>5, <2>1, ChoiceIs
  <2>3. \A h \in Games \ {g} : a[h] = b[h]
    BY <1>4, <1>5, <2>1, ChoiceIs
  <2>4. SumFunctionOnSet(b, Games) = SumFunctionOnSet(a, Games) + b[g] - a[g]
    BY <1>2, <2>2, <2>3, SumPut
  <2>5. PICK n \in Nat : n = e[g]
    BY <1>2
  <2>6. b[g] = a[g] + CostOf(r, g, n + 1)
    <3>1. GameSpend(r, g, n + 1) = GameSpend(r, g, n) + CostOf(r, g, n + 1)
      BY <2>5, SpendStep
    <3>2. a[g] = GameSpend(r, g, n)
      BY <2>1, <2>5, ChoiceIs
    <3>3. b[g] = GameSpend(r, g, n + 1)
      BY <1>4, <1>5, <2>1, <2>5, ChoiceIs
    <3> QED BY <3>1, <3>2, <3>3
  <2>7. CostOf(r, g, n + 1) \in Nat
    <3>1. n + 1 \in Nat /\ n + 1 <= Length(r, name, g)
      BY <1>3, <2>5
    <3> QED BY <3>1, CostIs
  <2>8. /\ StepSpend(r, e) = SumFunctionOnSet(a, Games) /\ StepSpend(r, e) \in Nat
        /\ StepSpend(r, f) = SumFunctionOnSet(b, Games)
    BY <1>5, <2>1, ChoiceIs
  <2>9. a[g] \in Int /\ b[g] \in Int
    BY <2>2
  <2> QED BY <2>4, <2>5, <2>6, <2>7, <2>8, <2>9
<1> QED
  BY <1>1, <1>5, <1>6, <1>7

\* When no craft taken is dearer than t and no next craft cheaper, any other choice
\* costs at least t more for each craft it has more, and saves at most t for each it
\* has less.
LEMMA Exchange ==
    ASSUME NEW r \in Requests, NEW name \in PassNames,
           NEW e \in Selections(r, name), NEW f \in Selections(r, name), NEW t \in Nat,
           \A g \in Games : /\ e[g] > 0 => CostOf(r, g, e[g]) <= t
                            /\ e[g] < Length(r, name, g) => t <= CostOf(r, g, e[g] + 1)
    PROVE  StepSpend(r, f) - StepSpend(r, e) >= t * (Sum(f) - Sum(e))
<1>1. PICK a, b : a = Spends(r, f) /\ b = Spends(r, e)
  OBVIOUS
<1>2. ASSUME NEW g \in Games
      PROVE  /\ a[g] \in Int /\ b[g] \in Int /\ f[g] \in Int /\ e[g] \in Int
             /\ a[g] - b[g] >= t * (f[g] - e[g])
  <2>1. PICK n \in Nat, m \in Nat : n = e[g] /\ m = f[g]
    BY DEF Selections
  <2>2. PICK last \in Nat : last = Length(r, name, g)
    BY LengthIs
  <2>3. n <= last /\ m <= last
    BY <2>1, <2>2 DEF Selections
  <2>4. PICK x \in Nat, y \in Nat : /\ x = GameSpend(r, g, m) /\ y = GameSpend(r, g, n)
                                    /\ a[g] = x /\ b[g] = y
    BY <1>1, <2>1, ChoiceIs
  <2>5. CASE n <= m
    <3>1. PICK k \in Nat : k = m - n /\ n + k = m
      BY <2>5
    <3>2. n < Length(r, name, g) => t <= CostOf(r, g, n + 1)
      BY <2>1
    <3>3. GameSpend(r, g, n + k) >= GameSpend(r, g, n) + t * k
      BY <2>2, <2>3, <3>1, <3>2, SpendClimbs
    <3>4. t * k \in Nat
      BY <3>1
    <3>5. x - y >= t * k
      BY <2>4, <3>1, <3>3, <3>4
    <3> QED BY <2>1, <2>4, <3>1, <3>5
  <2>6. CASE ~ n <= m
    <3>1. PICK k \in Nat : k = n - m /\ n - k = m /\ k <= n
      BY <2>6
    <3>2. n > 0 => CostOf(r, g, n) <= t
      BY <2>1
    <3>3. GameSpend(r, g, n) <= GameSpend(r, g, n - k) + t * k
      BY <2>2, <2>3, <3>1, <3>2, SpendFalls
    <3>4. t * k \in Nat /\ t * (m - n) = -(t * k)
      BY <3>1
    <3>5. x - y >= t * (m - n)
      BY <2>4, <3>1, <3>3, <3>4
    <3> QED BY <2>1, <2>4, <3>5
  <2> QED BY <2>5, <2>6
<1>3. SumFunctionOnSet(a, Games) - SumFunctionOnSet(b, Games)
        >= t * (SumFunctionOnSet(f, Games) - SumFunctionOnSet(e, Games))
  <2>1. IsFiniteSet(Games) /\ t \in Int
    BY CatalogAssumption
  <2> QED BY <1>2, <2>1, SumDominates
<1> QED
  BY <1>1, <1>3, ChoiceIs

\* No craft taken is dearer than one that was not.
Even(r, name, e) ==
    \A g, h \in Games : e[g] > 0 /\ e[h] < Length(r, name, h) =>
        CostOf(r, g, e[g]) <= CostOf(r, h, e[h] + 1)

\* The costs of the crafts of a choice are numbers, and part of what it spends.
LEMMA ChoiceCosts ==
    ASSUME NEW r \in Requests, NEW name \in PassNames, NEW e \in Selections(r, name), NEW g \in Games
    PROVE  /\ e[g] \in Nat /\ CostOf(r, g, e[g]) \in Nat
           /\ e[g] < Length(r, name, g) => CostOf(r, g, e[g] + 1) \in Nat
           /\ e[g] > 0 => CostOf(r, g, e[g]) <= GameSpend(r, g, e[g])
<1>1. PICK n \in Nat : n = e[g]
  BY DEF Selections
<1>2. PICK last \in Nat : last = Length(r, name, g)
  BY LengthIs
<1>3. n <= last
  BY <1>1, <1>2 DEF Selections
<1>4. CostOf(r, g, n) \in Nat
  BY <1>2, <1>3, CostIs
<1>5. ASSUME n < last PROVE CostOf(r, g, n + 1) \in Nat
  <2>1. n + 1 \in Nat /\ n + 1 <= last
    BY <1>5
  <2> QED BY <1>2, <2>1, CostIs
<1>6. ASSUME n > 0 PROVE CostOf(r, g, n) <= GameSpend(r, g, n)
  <2>1. PICK m \in Nat : n = m + 1 /\ m < last /\ m <= last
    <3>1. n - 1 \in Nat /\ n = (n - 1) + 1
      BY <1>6
    <3> QED BY <1>3, <3>1
  <2>2. GameSpend(r, g, m + 1) = GameSpend(r, g, m) + CostOf(r, g, m + 1)
    BY <1>2, <2>1, SpendStep
  <2>3. GameSpend(r, g, m) \in Nat
    BY <1>2, <2>1, PaidIs
  <2> QED BY <1>4, <2>1, <2>2, <2>3
<1> QED
  BY <1>1, <1>2, <1>4, <1>5, <1>6

\* So there is a price between the two.
LEMMA PriceBetween ==
    ASSUME NEW r \in Requests, NEW name \in PassNames, NEW e \in Selections(r, name),
           Even(r, name, e)
    PROVE  \E t \in Nat :
             /\ \A g \in Games : /\ e[g] > 0 => CostOf(r, g, e[g]) <= t
                                 /\ e[g] < Length(r, name, g) => t <= CostOf(r, g, e[g] + 1)
             /\ \/ \E h \in Games : e[h] < Length(r, name, h) /\ t = CostOf(r, h, e[h] + 1)
                \/ \A h \in Games : e[h] = Length(r, name, h)
<1> DEFINE T == {CostOf(r, h, e[h] + 1) : h \in {k \in Games : e[k] < Length(r, name, k)}}
<1>1. CASE T # {}
  <2>1. T \subseteq Nat
    BY ChoiceCosts
  <2>2. PICK t \in T : \A x \in T : t <= x
    BY <1>1, <2>1, LeastNat
  <2>3. t \in Nat
    BY <2>1
  <2>4. PICK h \in Games : e[h] < Length(r, name, h) /\ t = CostOf(r, h, e[h] + 1)
    BY <2>2
  <2>5. \A g \in Games : e[g] < Length(r, name, g) => t <= CostOf(r, g, e[g] + 1)
    BY <2>2
  <2>6. \A g \in Games : e[g] > 0 => CostOf(r, g, e[g]) <= t
    BY <2>4 DEF Even
  <2> QED BY <2>3, <2>4, <2>5, <2>6
<1>2. CASE T = {}
  <2>1. PICK t \in Nat : t = StepSpend(r, e)
    BY ChoiceIs
  <2>2. \A g \in Games : e[g] = Length(r, name, g) /\ ~ e[g] < Length(r, name, g)
    <3> SUFFICES ASSUME NEW g \in Games
                 PROVE  e[g] = Length(r, name, g) /\ ~ e[g] < Length(r, name, g)
      OBVIOUS
    <3>1. ~ e[g] < Length(r, name, g)
      BY <1>2
    <3>2. e[g] \in Nat /\ Length(r, name, g) \in 0..5 /\ e[g] <= Length(r, name, g)
      BY LengthIs DEF Selections
    <3> QED BY <3>1, <3>2
  <2>3. \A g \in Games : e[g] > 0 => CostOf(r, g, e[g]) <= t
    <3> SUFFICES ASSUME NEW g \in Games, e[g] > 0 PROVE CostOf(r, g, e[g]) <= t
      OBVIOUS
    <3>1. CostOf(r, g, e[g]) \in Nat /\ CostOf(r, g, e[g]) <= GameSpend(r, g, e[g])
      BY ChoiceCosts
    <3>2. GameSpend(r, g, e[g]) \in Nat /\ GameSpend(r, g, e[g]) <= t
      BY <2>1, ChoiceIs
    <3> QED BY <3>1, <3>2
  <2> QED BY <2>2, <2>3
<1> QED
  BY <1>1, <1>2

-----------------------------------------------------------------------------
(***************************************************************************)
(* The course and the result of a pass.                                    *)
(***************************************************************************)

CheapNames == {"cheapest", "replacement", "baseline"}

\* What is open is on the heap, or its next craft is more than the budget has left.
Shut(r, name, e, s, open) ==
    \A g \in Games : e[g] < Length(r, name, g) /\ [game |-> g, craft |-> e[g] + 1] \notin open =>
        s + CostOf(r, g, e[g] + 1) > Budget(r, name)

NextCrafts(r, name, e) ==
    {[game |-> g, craft |-> e[g] + 1] : g \in {h \in Games : e[h] < Length(r, name, h)}}

\* What a pass has taken and charged.
Within(r, name, e, s) ==
    /\ OfSale(name) => SaleReady(r)
    /\ e \in Selections(r, name)
    /\ s = StepSpend(r, e) /\ s <= Budget(r, name)
    /\ Needed(r, name) # None => Sum(e) <= Needed(r, name)
    /\ name \in CheapNames => Even(r, name, e)

\* A pass under way, with its heap.
Course(r, name, e, s, open) ==
    /\ Within(r, name, e, s)
    /\ open \subseteq NextCrafts(r, name, e)
    /\ Shut(r, name, e, s, open)

\* A pass that has ended: its crafts are all that is needed, or no game has a next
\* craft the budget allows.
Result(r, name, e, s) ==
    /\ Within(r, name, e, s)
    /\ Shut(r, name, e, s, {}) \/ (Needed(r, name) # None /\ ~ Sum(e) < Needed(r, name))

\* The receipts of a set that may be sold are natural numbers.
LEMMA ProceedsIs ==
    ASSUME NEW r \in Requests, SaleReady(r)
    PROVE  r.compare \in Games /\ Proceeds(r) \in Nat
<1>1. PICK g \in Games : g = r.compare
  BY RequestIs DEF SaleReady
<1>2. PICK f : f = [card \in StockOf(r, g) |-> SellerReceipt(r.bid[card].price, FeeContract)]
  OBVIOUS
<1>3. ASSUME NEW card \in StockOf(r, g) PROVE f[card] \in Nat
  <2>1. PICK t : t = r.bid[card].price
    OBVIOUS
  <2>2. SellerReceipt(t, FeeContract) # None
    BY <1>1, <1>3, <2>1 DEF SaleReady
  <2>3. t \in 0..MaxMinorUnits /\ \E x \in 0..t : RawTotal(x, FeeContract) = t
    BY <2>2 DEF SellerReceipt
  <2>4. SellerReceipt(t, FeeContract) \in 0..t
    BY <2>3, Zenon DEF SellerReceipt
  <2>5. t \in Nat
    BY <2>3, FeesAssumption
  <2> QED BY <1>2, <2>1, <2>4, <2>5
<1>4. DOMAIN f = StockOf(r, g)
  BY <1>2
<1>5. Proceeds(r) = SumFunctionOnSet(f, StockOf(r, g))
  <2>1. Proceeds(r) = SumFunction(f)
    BY <1>1, <1>2, Zenon DEF Proceeds
  <2> QED BY <1>4, <2>1 DEF SumFunction
<1> QED
  BY <1>1, <1>3, <1>5, StockIs, SumNat

\* The crafts for a target level are enough, and one less is not (rounding up).
LEMMA TargetIs ==
    ASSUME NEW r \in Requests, r.mode = "target"
    PROVE  /\ NeededForTarget(r) \in Nat
           /\ \A n \in Nat : n >= NeededForTarget(r) <=> MinimumXp(r.target) <= r.xp + BadgeXp * n
<1>1. r.target \in Nat /\ r.xp \in Nat
  BY RequestIs
<1>2. PICK m \in Nat : m = MinimumXp(r.target)
  BY <1>1, LevelStep
<1>3. PICK x \in Nat : x = r.xp
  BY <1>1
<1>4. PICK q \in Int : q = (-(m - x)) \div 100
  OBVIOUS
<1>5. NeededForTarget(r) = AtLeast(-q, 0)
  BY <1>2, <1>3, <1>4, Zenon DEF NeededForTarget, BadgeXp
<1>6. 100 * q <= x - m /\ x - m < 100 * q + 100
  BY <1>4
<1>7. PICK k \in Nat : k = AtLeast(-q, 0)
  BY DEF AtLeast
<1>8. \A n \in Nat : n >= k <=> m <= x + 100 * n
  <2> TAKE n \in Nat
  <2>1. n >= k <=> n >= -q
    BY <1>7 DEF AtLeast
  <2>2. n >= -q <=> m <= x + 100 * n
    BY <1>6
  <2> QED BY <2>1, <2>2
<1> QED
  BY <1>2, <1>3, <1>5, <1>7, <1>8 DEF BadgeXp

\* What a collector still needs, over all goals.
Goaled(r) == [g \in DOMAIN r.goals |-> PerGame(r, g)]

\* The badges that a collector misses, summed over the goals.
LEMMA GoaledIs ==
    ASSUME NEW r \in Requests
    PROVE  /\ SumFunction(Goaled(r)) = SumFunctionOnSet(Goaled(r), DOMAIN r.goals)
           /\ SumFunction(Goaled(r)) \in Nat
           /\ \A g \in DOMAIN r.goals : Goaled(r)[g] = PerGame(r, g) /\ PerGame(r, g) \in Nat
<1>1. DOMAIN Goaled(r) = DOMAIN r.goals
  BY DEF Goaled
<1>2. \A g \in DOMAIN r.goals : Goaled(r)[g] = PerGame(r, g) /\ PerGame(r, g) \in Nat
  BY PerGameIs DEF Goaled
<1>3. SumFunctionOnSet(Goaled(r), DOMAIN r.goals) \in Nat
  <2>1. IsFiniteSet(DOMAIN r.goals)
    BY RequestIs
  <2> QED BY <1>2, <2>1, SumNat
<1> QED
  BY <1>1, <1>2, <1>3 DEF SumFunction

\* How many crafts a pass stops at, by the mode of the request.
LEMMA NeededIs ==
    ASSUME NEW r \in Requests, NEW name \in PassNames
    PROVE  /\ Needed(r, name) \in Nat \union {None}
           /\ CraftsNeeded(r) \in Nat \union {None}
           /\ r.mode = "budget" => CraftsNeeded(r) = None
           /\ r.mode = "target" => CraftsNeeded(r) = NeededForTarget(r)
           /\ r.mode = "collector" => CraftsNeeded(r) = SumFunction(Goaled(r))
<1>1. r.mode \in {"target", "budget", "collector"}
  BY RequestIs
<1>2. CASE r.mode = "budget"
  BY <1>2 DEF Needed, CraftsNeeded
<1>3. CASE r.mode = "target"
  BY <1>3, TargetIs DEF Needed, CraftsNeeded
<1>4. CASE r.mode = "collector"
  <2>1. CraftsNeeded(r) = SumFunction(Goaled(r))
    BY <1>4 DEF CraftsNeeded, Goaled
  <2> QED BY <1>4, <2>1, GoaledIs DEF Needed
<1> QED
  BY <1>1, <1>2, <1>3, <1>4

\* What a pass may spend is a number, for a replacement when the sale is ready.
LEMMA BudgetIs ==
    ASSUME NEW r \in Requests, NEW name \in PassNames, OfSale(name) => SaleReady(r)
    PROVE  Budget(r, name) \in Nat
<1>1. CASE name = "replacement"
  BY <1>1, ProceedsIs DEF Budget, OfSale
<1>2. CASE name = "baseline"
  BY <1>2 DEF Budget
<1>3. CASE name \notin {"replacement", "baseline"}
  BY <1>3, RequestIs DEF Budget
<1> QED
  BY <1>1, <1>2, <1>3

\* What may be chosen instead is a choice.
LEMMA AllowedIs ==
    ASSUME NEW r \in Requests, NEW name \in PassNames, NEW f \in Allowed(r, name)
    PROVE  /\ f \in Selections(r, name)
           /\ Needed(r, name) # None => Sum(f) <= Needed(r, name)
           /\ StepSpend(r, f) <= Budget(r, name)
<1>1. PICK most : most = [g \in Games |-> Length(r, name, g)]
  OBVIOUS
<1>2. f \in [Games -> 0..5] /\ \A g \in Games : f[g] <= most[g]
  BY <1>1, Zenon DEF Allowed
<1>3. f \in [Games -> Nat]
  BY <1>2
<1>4. f \in Selections(r, name)
  BY <1>1, <1>2, <1>3 DEF Selections
<1>5. /\ Needed(r, name) # None => Sum(f) <= Needed(r, name)
      /\ StepSpend(r, f) <= Budget(r, name)
  BY Zenon DEF Allowed
<1> QED
  BY <1>4, <1>5

\* The other way round: the plan itself is allowed.
LEMMA PassAllowed ==
    ASSUME NEW r \in Requests, NEW name \in PassNames, NEW e, NEW s,
           Within(r, name, e, s)
    PROVE  e \in Allowed(r, name)
<1>1. PICK most : most = [g \in Games |-> Length(r, name, g)]
  OBVIOUS
<1>2. e \in [Games -> Nat] /\ \A g \in Games : e[g] <= Length(r, name, g)
  BY DEF Within, Selections
<1>3. \A g \in Games : e[g] \in 0..5
  BY <1>2, LengthIs
<1>4. e \in [Games -> 0..5] /\ \A g \in Games : e[g] <= most[g]
  BY <1>1, <1>2, <1>3
<1>5. /\ Needed(r, name) # None => Sum(e) <= Needed(r, name)
      /\ StepSpend(r, e) <= Budget(r, name)
  BY Zenon DEF Within
<1> QED
  BY <1>1, <1>4, <1>5, Zenon DEF Allowed

\* A finished pass by cost is exact.
LEMMA PassExact ==
    ASSUME NEW r \in Requests, NEW name \in CheapNames, NEW e, NEW s,
           Result(r, name, e, s), NEW f \in Allowed(r, name)
    PROVE  \/ Sum(f) < Sum(e)
           \/ Sum(f) = Sum(e) /\ StepSpend(r, f) >= s
<1>1. name \in PassNames
  BY DEF CheapNames, PassNames
<1>2. e \in Selections(r, name) /\ s = StepSpend(r, e) /\ Even(r, name, e)
  BY DEF Result, Within
<1>3. f \in Selections(r, name) /\ StepSpend(r, f) <= Budget(r, name)
  BY <1>1, AllowedIs
<1>4. PICK t \in Nat :
             /\ \A g \in Games : /\ e[g] > 0 => CostOf(r, g, e[g]) <= t
                                 /\ e[g] < Length(r, name, g) => t <= CostOf(r, g, e[g] + 1)
             /\ \/ \E h \in Games : e[h] < Length(r, name, h) /\ t = CostOf(r, h, e[h] + 1)
                \/ \A h \in Games : e[h] = Length(r, name, h)
  BY <1>1, <1>2, PriceBetween
<1>5. StepSpend(r, f) - StepSpend(r, e) >= t * (Sum(f) - Sum(e))
  BY <1>1, <1>2, <1>3, <1>4, Exchange
<1>6. PICK a \in Nat, b \in Nat, x \in Nat : a = Sum(e) /\ b = Sum(f) /\ x = StepSpend(r, f)
  BY <1>1, <1>2, <1>3, ChoiceIs
<1>7. s \in Nat
  BY <1>1, <1>2, ChoiceIs
<1>8. x - s >= t * (b - a)
  BY <1>2, <1>5, <1>6
<1>9. ~ b > a
  <2> SUFFICES ASSUME b > a PROVE FALSE
    OBVIOUS
  <2>1. Shut(r, name, e, s, {})
    <3> SUFFICES ASSUME Needed(r, name) # None, ~ Sum(e) < Needed(r, name) PROVE FALSE
      BY DEF Result
    <3>1. PICK n \in Nat : n = Needed(r, name)
      BY <1>1, NeededIs
    <3>2. b <= n
      BY <1>1, <1>6, <3>1, AllowedIs
    <3> QED BY <1>6, <3>1, <3>2
  <2>2. CASE \E h \in Games : e[h] < Length(r, name, h) /\ t = CostOf(r, h, e[h] + 1)
    <3>1. s + t > Budget(r, name)
      BY <2>1, <2>2 DEF Shut
    <3>2. PICK k \in Nat : b - a = k + 1
      <4>1. b - a - 1 \in Nat /\ b - a = (b - a - 1) + 1
        OBVIOUS
      <4> QED BY <4>1
    <3>3. t * (k + 1) = t * k + t /\ t * k \in Nat
      BY <3>2
    <3>4. Budget(r, name) \in Nat
      BY <1>1, BudgetIs DEF Result, Within
    <3>5. x >= s + t
      BY <1>7, <1>8, <3>2, <3>3
    <3> QED BY <1>3, <1>6, <1>7, <3>1, <3>4, <3>5
  <2>3. CASE \A h \in Games : e[h] = Length(r, name, h)
    <3>1. \A h \in Games : f[h] \in Int /\ e[h] \in Int /\ f[h] <= e[h]
      BY <1>2, <1>3, <2>3 DEF Selections
    <3>2. SumFunctionOnSet(f, Games) <= SumFunctionOnSet(e, Games)
      BY <3>1, CatalogAssumption, SumLess
    <3>3. a = SumFunctionOnSet(e, Games) /\ b = SumFunctionOnSet(f, Games)
      BY <1>1, <1>2, <1>3, <1>6, ChoiceIs
    <3> QED BY <3>2, <3>3
  <2> QED BY <1>4, <2>2, <2>3
<1>10. CASE b < a
  BY <1>6, <1>10
<1>11. CASE b = a
  <2>1. t * (b - a) = 0
    BY <1>11
  <2> QED BY <1>6, <1>7, <1>8, <1>11, <2>1
<1> QED
  BY <1>6, <1>9, <1>10, <1>11

\* What a pass has taken stays in the envelope.
LEMMA PassSound ==
    ASSUME NEW r \in Requests, NEW name \in PassNames, NEW e, NEW s,
           Within(r, name, e, s)
    PROVE  Sound(r, name, e, s)
<1>1. /\ s = StepSpend(r, e) /\ s <= Budget(r, name)
      /\ Needed(r, name) # None => Sum(e) <= Needed(r, name)
  BY Zenon DEF Within
<1>2. ASSUME NEW g \in Games, e[g] > 0
      PROVE  /\ g \in InScope(r) \ r.excluded
             /\ r.level[g] + e[g] <= IF r.mode = "collector" /\ ~ OfSale(name) THEN r.goals[g]
                                     ELSE 5
             /\ \A card \in StockOf(r, g) :
                    e[g] > r.owned[card] - r.keep[card] =>
                        /\ Buyable(r, card)
                        /\ e[g] <= r.owned[card] - r.keep[card] + r.ask[card].quantity
  <2>1. PICK n \in Nat : n = e[g]
    BY DEF Within, Selections
  <2>2. PICK last \in Nat : last = Length(r, name, g)
    BY LengthIs
  <2>3. n <= last /\ n > 0 /\ last > 0
    <3>1. n <= last
      BY <2>1, <2>2 DEF Within, Selections
    <3> QED BY <1>2, <2>1, <2>2, <3>1
  <2>4. Takes(r, name, g) /\ Fits(r, name, g, last)
    BY <2>2, <2>3, LengthIs
  <2>5. g \in InScope(r) \ r.excluded
    <3>1. Stocks(r, name) \subseteq InScope(r)
      BY DEF Stocks, Eligible, PassNames
    <3> QED BY <2>4, <3>1 DEF Takes
  <2>6. r.level[g] + n <= IF r.mode = "collector" /\ ~ OfSale(name) THEN r.goals[g] ELSE 5
    <3>1. PICK l \in 0..5 : l = r.level[g]
      BY RequestIs
    <3>2. CASE r.mode = "collector" /\ ~ OfSale(name)
      <4>1. Stocks(r, name) = Eligible(r)
        BY <3>2 DEF OfSale, Stocks, PassNames
      <4>2. g \in DOMAIN r.goals
        BY <2>4, <3>2, <4>1 DEF Takes, Eligible
      <4>3. PICK goal \in 1..5 : goal = r.goals[g]
        BY <4>2, RequestIs
      <4>4. last <= AtLeast(goal - l, 0)
        BY <2>4, <3>1, <3>2, <4>3 DEF Fits, PerGame
      <4>5. l + n <= goal
        BY <2>3, <4>4 DEF AtLeast
      <4> QED BY <3>1, <3>2, <4>3, <4>5
    <3>3. CASE ~ (r.mode = "collector" /\ ~ OfSale(name))
      <4>1. last <= 5 - l
        BY <2>4, <3>1 DEF Fits
      <4>2. l + n <= 5
        BY <2>3, <4>1
      <4> QED BY <3>1, <3>3, <4>2
    <3> QED BY <3>2, <3>3
  <2>7. ASSUME NEW card \in StockOf(r, g), n > r.owned[card] - r.keep[card]
        PROVE  /\ Buyable(r, card)
               /\ n <= r.owned[card] - r.keep[card] + r.ask[card].quantity
    <3>1. card \in Cards
      BY StockIs
    <3>2. PICK a \in Nat : a = Available(r, card) /\ a = r.owned[card] - r.keep[card]
      BY <3>1, AvailableIs
    <3>3. last <= Supply(r, card) /\ Supply(r, card) \in Nat
      BY <2>4, <3>1, SupplyIs DEF Fits
    <3>4. a < Supply(r, card)
      BY <2>3, <2>7, <3>2, <3>3
    <3>5. Buyable(r, card)
      BY <3>1, <3>2, <3>4, SupplyIs
    <3>6. Supply(r, card) = a + r.ask[card].quantity /\ r.ask[card].quantity \in Nat
      BY <3>1, <3>2, <3>5, BuyableIs DEF Supply
    <3> QED BY <2>3, <3>2, <3>3, <3>5, <3>6
  <2> QED BY <2>1, <2>5, <2>6, <2>7
<1> QED
  BY <1>1, <1>2 DEF Sound

-----------------------------------------------------------------------------
(***************************************************************************)
(* The invariant of the passes.                                            *)
(***************************************************************************)

\* The passes before one.
Earlier ==
    [name \in PassNames |->
        CASE name = "cheapest" -> {}
          [] name = "fewest_purchases" -> {"cheapest"}
          [] name = "preserve_cards" -> {"cheapest", "fewest_purchases"}
          [] name = "replacement" -> {"cheapest", "fewest_purchases", "preserve_cards"}
          [] name = "baseline" ->
               {"cheapest", "fewest_purchases", "preserve_cards", "replacement"}]

Got(r, p, name) == Result(r, name, p[name].executed, p[name].spend)

\* The pass that runs is on its course, and every pass before it, or before one whose
\* result is kept, has its result.
PlanInv ==
    /\ request \in Requests /\ phase \in PassNames \union {"done"}
    /\ DOMAIN passes = PassNames /\ (phase = "done" => heap = {})
    /\ phase # "done" =>
         /\ Course(request, phase, executed, spend, heap)
         /\ \A m \in Earlier[phase] : Got(request, passes, m)
    /\ \A name \in PassNames : passes[name] # None =>
         \A m \in Earlier[name] \union {name} : Got(request, passes, m)

\* The order of sort keys of two and of three numbers.
LEMMA BeforeTwo ==
    ASSUME NEW a1 \in Nat, NEW a2 \in Nat, NEW b1 \in Nat, NEW b2 \in Nat
    PROVE  Before(<<a1, a2>>, <<b1, b2>>) <=> a1 < b1 \/ (a1 = b1 /\ a2 < b2)
<1>1. PICK a, b : a = <<a1, a2>> /\ b = <<b1, b2>>
  OBVIOUS
<1>2. DOMAIN a = {1, 2} /\ a[1] = a1 /\ a[2] = a2 /\ b[1] = b1 /\ b[2] = b2
  BY <1>1
<1>3. (\A j \in 1..1 - 1 : a[j] = b[j]) /\ ((\A j \in 1..2 - 1 : a[j] = b[j]) <=> a1 = b1)
  BY <1>2
<1>4. Before(a, b) <=> a1 < b1 \/ (a1 = b1 /\ a2 < b2)
  BY <1>2, <1>3 DEF Before
<1> QED
  BY <1>1, <1>4

\* The same of three numbers.
LEMMA BeforeThree ==
    ASSUME NEW a1 \in Nat, NEW a2 \in Nat, NEW a3 \in Nat,
           NEW b1 \in Nat, NEW b2 \in Nat, NEW b3 \in Nat
    PROVE  Before(<<a1, a2, a3>>, <<b1, b2, b3>>) <=>
             \/ a1 < b1
             \/ a1 = b1 /\ a2 < b2
             \/ a1 = b1 /\ a2 = b2 /\ a3 < b3
<1>1. PICK a, b : a = <<a1, a2, a3>> /\ b = <<b1, b2, b3>>
  OBVIOUS
<1>2. /\ DOMAIN a = {1, 2, 3} /\ a[1] = a1 /\ a[2] = a2 /\ a[3] = a3
      /\ b[1] = b1 /\ b[2] = b2 /\ b[3] = b3
  BY <1>1
<1>3. /\ (\A j \in 1..1 - 1 : a[j] = b[j])
      /\ ((\A j \in 1..2 - 1 : a[j] = b[j]) <=> a1 = b1)
      /\ ((\A j \in 1..3 - 1 : a[j] = b[j]) <=> a1 = b1 /\ a2 = b2)
  <2>1. 1..1 - 1 = {} /\ 1..2 - 1 = {1} /\ 1..3 - 1 = {1, 2}
    OBVIOUS
  <2> QED BY <1>2, <2>1
<1>4. Before(a, b) <=> \/ a1 < b1
                       \/ a1 = b1 /\ a2 < b2
                       \/ a1 = b1 /\ a2 = b2 /\ a3 < b3
  BY <1>2, <1>3 DEF Before
<1> QED
  BY <1>1, <1>4

Ahead(k1, k2, k3, x, y) ==
    \/ k1[x] < k1[y]
    \/ k1[x] = k1[y] /\ k2[x] < k2[y]
    \/ k1[x] = k1[y] /\ k2[x] = k2[y] /\ k3[x] < k3[y]

\* Of elements with three numbers, of which the third tells them apart, one is first.
LEMMA FirstExists ==
    ASSUME NEW H, H # {}, NEW k1 \in [H -> Nat], NEW k2 \in [H -> Nat], NEW k3 \in [H -> Nat],
           \A x, y \in H : k3[x] = k3[y] => x = y
    PROVE  \E x \in H : \A y \in H \ {x} : Ahead(k1, k2, k3, x, y)
<1>1. ASSUME NEW S \in SUBSET H, S # {}, NEW k \in [H -> Nat]
      PROVE  \E x \in S : \A y \in S : k[x] <= k[y]
  <2>1. PICK K : K = {k[x] : x \in S}
    OBVIOUS
  <2>2. K \subseteq Nat /\ K # {}
    BY <1>1, <2>1
  <2>3. PICK m \in K : \A n \in K : m <= n
    BY <2>2, LeastNat
  <2>4. PICK x \in S : m = k[x]
    BY <2>1, <2>3
  <2>5. \A y \in S : k[y] \in K
    BY <2>1
  <2> QED BY <2>3, <2>4, <2>5
<1>2. PICK a \in H : \A y \in H : k1[a] <= k1[y]
  BY <1>1
<1>3. PICK I : I = {x \in H : k1[x] = k1[a]}
  OBVIOUS
<1>4. I \in SUBSET H /\ a \in I
  BY <1>3
<1>5. PICK b \in I : \A y \in I : k2[b] <= k2[y]
  BY <1>1, <1>4
<1>6. PICK J : J = {x \in I : k2[x] = k2[b]}
  OBVIOUS
<1>7. J \in SUBSET H /\ b \in J
  BY <1>4, <1>6
<1>8. PICK c \in J : \A y \in J : k3[c] <= k3[y]
  BY <1>1, <1>7
<1>9. ASSUME NEW y \in H \ {c}
      PROVE  Ahead(k1, k2, k3, c, y)
  <2>1. c \in H /\ k1[c] = k1[a] /\ k2[c] = k2[b]
    BY <1>3, <1>6
  <2>2. PICK n1 \in Nat, n2 \in Nat, n3 \in Nat : n1 = k1[y] /\ n2 = k2[y] /\ n3 = k3[y]
    OBVIOUS
  <2>3. PICK m1 \in Nat, m2 \in Nat, m3 \in Nat : m1 = k1[c] /\ m2 = k2[c] /\ m3 = k3[c]
    BY <2>1
  <2>4. m1 <= n1
    BY <1>2, <2>1, <2>2, <2>3
  <2>5. m1 = n1 => m2 <= n2
    BY <1>3, <1>5, <2>1, <2>2, <2>3
  <2>6. m1 = n1 /\ m2 = n2 => m3 <= n3
    BY <1>3, <1>6, <1>8, <2>1, <2>2, <2>3
  <2>7. m3 # n3
    BY <2>1, <2>2, <2>3
  <2>8. m1 < n1 \/ (m1 = n1 /\ m2 < n2) \/ (m1 = n1 /\ m2 = n2 /\ m3 < n3)
    BY <2>4, <2>5, <2>6, <2>7
  <2> QED BY <2>2, <2>3, <2>8 DEF Ahead
<1> QED
  <2>1. c \in H
    BY <1>3, <1>6
  <2> QED BY <1>9, <2>1

\* The next crafts are told apart by their games.
LEMMA NextIs ==
    ASSUME NEW r \in Requests, NEW name \in PassNames, NEW e \in Selections(r, name),
           NEW x \in NextCrafts(r, name, e)
    PROVE  /\ x.game \in Games /\ x.game \in Nat /\ x = [game |-> x.game, craft |-> x.craft]
           /\ e[x.game] < Length(r, name, x.game) /\ x.craft = e[x.game] + 1
           /\ CostOf(r, x.game, x.craft) \in Nat
           /\ Cardinality(BoughtFor(r, x.game, x.craft)) \in Nat
           /\ UsedBy(r, x.game, x.craft) \in Nat
<1>1. PICK g \in Games : e[g] < Length(r, name, g) /\ x = [game |-> g, craft |-> e[g] + 1]
  BY DEF NextCrafts
<1>2. x.game = g /\ x.craft = e[g] + 1
  BY <1>1
<1>3. g \in Nat
  BY CatalogAssumption
<1>4. CostOf(r, g, e[g] + 1) \in Nat
  BY <1>1, ChoiceCosts
<1>5. PICK B : B = BoughtFor(r, g, e[g] + 1)
  OBVIOUS
<1>6. B \in SUBSET StockOf(r, g) /\ StockOf(r, g) \ B \in SUBSET StockOf(r, g)
  BY <1>5 DEF BoughtFor
<1>7. IsFiniteSet(B) /\ IsFiniteSet(StockOf(r, g) \ B)
  BY <1>6, StockIs
<1>8. Cardinality(B) \in Nat /\ Cardinality(StockOf(r, g) \ B) \in Nat
  BY <1>7, FS_CardinalityType
<1>9. UsedBy(r, g, e[g] + 1) \in Nat
  BY <1>5, <1>8 DEF UsedBy
<1> QED
  BY <1>1, <1>2, <1>3, <1>4, <1>5, <1>8, <1>9

\* What a heap pops is on it, and is the cheapest of it when cost comes first.
LEMMA PoppedIs ==
    ASSUME request \in Requests, phase \in PassNames, executed \in Selections(request, phase),
           heap \subseteq NextCrafts(request, phase, executed), heap # {}
    PROVE  /\ Popped \in heap
           /\ phase \in CheapNames =>
                \A y \in heap : CostOf(request, Popped.game, Popped.craft)
                                  <= CostOf(request, y.game, y.craft)
<1> DEFINE cost(x) == CostOf(request, x.game, x.craft)
           bought(x) == Cardinality(BoughtFor(request, x.game, x.craft))
           used(x) == UsedBy(request, x.game, x.craft)
           first(x) == IF phase = "fewest_purchases" THEN bought(x)
                       ELSE IF phase = "preserve_cards" THEN used(x) ELSE 0
           key(x) == Priority(request, phase, x)
           Smaller(x, y) == \/ first(x) < first(y)
                            \/ first(x) = first(y) /\ cost(x) < cost(y)
                            \/ first(x) = first(y) /\ cost(x) = cost(y) /\ x.game < y.game
<1>1. ASSUME NEW x \in heap
      PROVE  /\ cost(x) \in Nat /\ bought(x) \in Nat /\ used(x) \in Nat /\ first(x) \in Nat
             /\ x.game \in Nat
  BY NextIs
<1>2. ASSUME NEW x \in heap, NEW y \in heap, x.game = y.game PROVE x = y
  <2>1. x = [game |-> x.game, craft |-> x.craft] /\ y = [game |-> y.game, craft |-> y.craft]
    BY NextIs
  <2>2. x.craft = executed[x.game] + 1 /\ y.craft = executed[y.game] + 1
    BY NextIs
  <2> QED BY <1>2, <2>1, <2>2
<1> HIDE DEF cost, bought, used
<1>3. \E x \in heap : \A y \in heap \ {x} : Smaller(x, y)
  <2>1. PICK k1, k2, k3 : /\ k1 = [x \in heap |-> first(x)] /\ k2 = [x \in heap |-> cost(x)]
                          /\ k3 = [x \in heap |-> x.game]
    OBVIOUS
  <2>2. k1 \in [heap -> Nat] /\ k2 \in [heap -> Nat] /\ k3 \in [heap -> Nat]
    BY <1>1, <2>1
  <2>3. \A x \in heap : k1[x] = first(x) /\ k2[x] = cost(x) /\ k3[x] = x.game
    BY <2>1
  <2>4. \A x, y \in heap : k3[x] = k3[y] => x = y
    BY <1>2, <2>3
  <2>5. \E x \in heap : \A y \in heap \ {x} : Ahead(k1, k2, k3, x, y)
    <3>1. PICK H : H = heap
      OBVIOUS
    <3>2. /\ H # {} /\ k1 \in [H -> Nat] /\ k2 \in [H -> Nat] /\ k3 \in [H -> Nat]
          /\ \A x, y \in H : k3[x] = k3[y] => x = y
      BY <2>2, <2>4, <3>1
    <3>3. \E x \in H : \A y \in H \ {x} : Ahead(k1, k2, k3, x, y)
      BY <3>2, FirstExists
    <3> QED BY <3>1, <3>3
  <2> HIDE DEF first
  <2>6. ASSUME NEW x \in heap, NEW y \in heap, Ahead(k1, k2, k3, x, y) PROVE Smaller(x, y)
    BY <2>3, <2>6 DEF Ahead
  <2> QED BY <2>5, <2>6
<1>4. ASSUME NEW x \in heap, NEW y \in heap
      PROVE  Before(key(x), key(y)) <=> Smaller(x, y)
  <2>1. PICK g \in Nat, h \in Nat, c \in Nat, d \in Nat :
             g = x.game /\ h = y.game /\ c = cost(x) /\ d = cost(y)
    BY <1>1
  <2>2. CASE phase = "fewest_purchases"
    <3>1. PICK m \in Nat, n \in Nat : m = bought(x) /\ n = bought(y)
      BY <1>1
    <3>2. key(x) = <<m, c, g>> /\ key(y) = <<n, d, h>>
      BY <2>1, <2>2, <3>1 DEF Priority, cost, bought
    <3>3. first(x) = m /\ first(y) = n
      BY <2>2, <3>1
    <3>4. Before(<<m, c, g>>, <<n, d, h>>) <=> m < n \/ (m = n /\ c < d) \/ (m = n /\ c = d /\ g < h)
      BY BeforeThree
    <3> QED BY <2>1, <3>2, <3>3, <3>4
  <2>3. CASE phase = "preserve_cards"
    <3>1. PICK m \in Nat, n \in Nat : m = used(x) /\ n = used(y)
      BY <1>1
    <3>2. key(x) = <<m, c, g>> /\ key(y) = <<n, d, h>>
      BY <2>1, <2>3, <3>1 DEF Priority, cost, used
    <3>3. first(x) = m /\ first(y) = n
      BY <2>3, <3>1
    <3>4. Before(<<m, c, g>>, <<n, d, h>>) <=> m < n \/ (m = n /\ c < d) \/ (m = n /\ c = d /\ g < h)
      BY BeforeThree
    <3> QED BY <2>1, <3>2, <3>3, <3>4
  <2>4. CASE phase \notin {"fewest_purchases", "preserve_cards"}
    <3>1. key(x) = <<c, g>> /\ key(y) = <<d, h>>
      BY <2>1, <2>4 DEF Priority, cost
    <3>2. first(x) = 0 /\ first(y) = 0
      BY <2>4
    <3>3. Before(<<c, g>>, <<d, h>>) <=> c < d \/ (c = d /\ g < h)
      BY BeforeTwo
    <3> QED BY <2>1, <3>1, <3>2, <3>3
  <2> QED BY <2>2, <2>3, <2>4
<1> HIDE DEF Smaller
<1>5. \E x \in heap : \A y \in heap \ {x} : Before(key(x), key(y))
  BY <1>3, <1>4
<1>6. Popped \in heap /\ \A y \in heap \ {Popped} : Before(key(Popped), key(y))
  <2>1. Popped = CHOOSE x \in heap : \A y \in heap \ {x} : Before(key(x), key(y))
    BY Zenon DEF Popped
  <2> HIDE DEF key
  <2> QED BY <1>5, <2>1, Zenon
<1>7. PICK x \in heap : x = Popped
  BY <1>6
<1>8. ASSUME phase \in CheapNames, NEW y \in heap PROVE cost(x) <= cost(y)
  <2>1. CASE x = y
    BY <1>1, <2>1
  <2>2. CASE x # y
    <3>1. Smaller(x, y)
      BY <1>4, <1>6, <1>7, <2>2
    <3>2. first(x) = 0 /\ first(y) = 0
      BY <1>8 DEF CheapNames
    <3>3. cost(x) < cost(y) \/ cost(x) = cost(y)
      BY <3>1, <3>2 DEF Smaller
    <3> QED BY <1>1, <3>3
  <2> QED BY <2>1, <2>2
<1> QED
  BY <1>7, <1>8 DEF cost

-----------------------------------------------------------------------------
(***************************************************************************)
(* Every step of a pass keeps it.                                          *)
(***************************************************************************)

\* Before its first craft a pass is on its course.
LEMMA CourseBegins ==
    ASSUME NEW r \in Requests, NEW name \in PassNames, OfSale(name) => SaleReady(r)
    PROVE  Course(r, name, [g \in Games |-> 0], 0, FirstCrafts(r, name))
<1>1. PICK e : e = [g \in Games |-> 0]
  OBVIOUS
<1>2. e \in Selections(r, name) /\ Sum(e) = 0 /\ StepSpend(r, e) = 0
  BY <1>1, ChoiceNone
<1>3. \A g \in Games : e[g] = 0 /\ e[g] + 1 = 1 /\ Length(r, name, g) \in 0..5
  BY <1>1, LengthIs
<1>4. Budget(r, name) \in Nat /\ Needed(r, name) \in Nat \union {None}
  BY BudgetIs, NeededIs
<1>5. FirstCrafts(r, name) = NextCrafts(r, name, e)
  BY <1>3 DEF FirstCrafts, NextCrafts
<1>6. Shut(r, name, e, 0, FirstCrafts(r, name))
  BY <1>5 DEF Shut, NextCrafts
<1>7. Even(r, name, e)
  BY <1>3 DEF Even
<1>8. Within(r, name, e, 0)
  <2>1. 0 <= Budget(r, name) /\ (Needed(r, name) # None => 0 <= Needed(r, name))
    BY <1>4
  <2> QED BY <1>2, <1>7, <2>1 DEF Within
<1> QED
  BY <1>1, <1>5, <1>6, <1>8 DEF Course

\* A craft leaves its pass on the course.
LEMMA CraftCourse ==
    ASSUME request \in Requests, phase \in PassNames,
           Course(request, phase, executed, spend, heap), Craft
    PROVE  Course(request, phase, executed', spend', heap')
<1>a. PICK r \in Requests : r = request
  OBVIOUS
<1>b. PICK name \in PassNames : name = phase
  OBVIOUS
<1>1. PICK e, s, open :
        r = request /\ name = phase /\ e = executed /\ s = spend /\ open = heap
  BY <1>a, <1>b
<1>2. /\ OfSale(name) => SaleReady(r)
      /\ e \in Selections(r, name) /\ open \subseteq NextCrafts(r, name, e)
      /\ s = StepSpend(r, e) /\ s <= Budget(r, name)
      /\ Shut(r, name, e, s, open) /\ (name \in CheapNames => Even(r, name, e))
  BY <1>1 DEF Course, Within
<1>3. open # {} /\ (Needed(r, name) # None => Sum(e) < Needed(r, name))
  BY <1>1 DEF Craft, Open
<1>4. PICK x \in open : x = Popped /\ (name \in CheapNames =>
                          \A y \in open : CostOf(r, x.game, x.craft) <= CostOf(r, y.game, y.craft))
  <2>1. Popped \in heap /\ (phase \in CheapNames =>
            \A y \in heap : CostOf(request, Popped.game, Popped.craft)
                              <= CostOf(request, y.game, y.craft))
    BY <1>1, <1>2, <1>3, PoppedIs
  <2> QED BY <1>1, <2>1
<1>5. PICK g \in Games : g = x.game /\ x.craft = e[g] + 1 /\ e[g] < Length(r, name, g)
                          /\ x = [game |-> g, craft |-> e[g] + 1]
  BY <1>2, NextIs
<1>6. PICK n \in Nat : n = e[g]
  BY <1>2 DEF Selections
<1>7. PICK c \in Nat : c = CostOf(r, g, n + 1)
  BY <1>2, <1>5, <1>6, ChoiceCosts
<1>8. PICK f : f = [e EXCEPT ![g] = e[g] + 1]
  OBVIOUS
<1>9. PICK rest : rest = IF n + 1 < Length(r, name, g) THEN {[game |-> g, craft |-> (n + 1) + 1]} ELSE {}
  OBVIOUS
<1>10. executed' = f /\ spend' = s + c /\ s + c <= Budget(r, name)
       /\ heap' = (open \ {x}) \union rest
  <2>1. [x EXCEPT !.craft = @ + 1] = [game |-> g, craft |-> (n + 1) + 1]
    BY <1>5, <1>6
  <2>2. x.craft = n + 1 /\ x.game = g /\ CostOf(r, x.game, x.craft) = c
    BY <1>5, <1>6, <1>7
  <2>3. /\ executed' = [e EXCEPT ![x.game] = x.craft]
        /\ spend' = s + CostOf(r, x.game, x.craft)
        /\ s + CostOf(r, x.game, x.craft) <= Budget(r, name)
        /\ heap' = (open \ {x}) \union (IF x.craft < Length(r, name, x.game)
                                        THEN {[x EXCEPT !.craft = @ + 1]} ELSE {})
    BY <1>1, <1>4, Zenon DEF Craft
  <2>4. executed' = f
    BY <1>6, <1>8, <2>2, <2>3
  <2>5. heap' = (open \ {x}) \union rest
    BY <1>9, <2>1, <2>2, <2>3
  <2> QED BY <2>2, <2>3, <2>4, <2>5
<1>11. f \in Selections(r, name) /\ Sum(f) = Sum(e) + 1 /\ StepSpend(r, f) = s + c
  BY <1>2, <1>5, <1>6, <1>7, <1>8, ChoiceRaised
<1>12. f[g] = n + 1 /\ \A h \in Games \ {g} : f[h] = e[h]
  BY <1>2, <1>6, <1>8 DEF Selections
<1>13. \A h \in Games \ {g} : [game |-> h, craft |-> e[h] + 1] \in open
                                => [game |-> h, craft |-> e[h] + 1] \in heap'
  <2>1. \A h \in Games \ {g} : [game |-> h, craft |-> e[h] + 1] # x
    <3> SUFFICES ASSUME NEW h \in Games \ {g}, [game |-> h, craft |-> e[h] + 1] = x PROVE FALSE
      OBVIOUS
    <3>1. x.game = h
      OBVIOUS
    <3> QED BY <1>5, <3>1
  <2> QED BY <1>10, <2>1
<1>14. heap' \subseteq NextCrafts(r, name, f)
  <2> SUFFICES ASSUME NEW y \in heap' PROVE y \in NextCrafts(r, name, f)
    OBVIOUS
  <2>1. CASE y \in open \ {x}
    <3>1. PICK h \in Games : e[h] < Length(r, name, h) /\ y = [game |-> h, craft |-> e[h] + 1]
      BY <1>2, <2>1 DEF NextCrafts
    <3>2. h # g
      BY <1>5, <2>1, <3>1
    <3>3. f[h] < Length(r, name, h) /\ y = [game |-> h, craft |-> f[h] + 1]
      BY <1>12, <3>1, <3>2
    <3> QED BY <3>3 DEF NextCrafts
  <2>2. CASE y \in rest
    <3>1. n + 1 < Length(r, name, g) /\ y = [game |-> g, craft |-> (n + 1) + 1]
      BY <1>9, <2>2
    <3>2. f[g] < Length(r, name, g) /\ y = [game |-> g, craft |-> f[g] + 1]
      BY <1>12, <3>1
    <3> QED BY <3>2 DEF NextCrafts
  <2> QED BY <1>10, <2>1, <2>2
<1>15. s \in Nat /\ Budget(r, name) \in Nat
  BY <1>2, ChoiceIs, BudgetIs
<1>16. Shut(r, name, f, s + c, heap')
  <2> SUFFICES ASSUME NEW h \in Games, f[h] < Length(r, name, h),
                      [game |-> h, craft |-> f[h] + 1] \notin heap'
               PROVE  (s + c) + CostOf(r, h, f[h] + 1) > Budget(r, name)
    BY DEF Shut
  <2>1. h # g
    <3> SUFFICES ASSUME h = g PROVE FALSE
      OBVIOUS
    <3>1. n + 1 < Length(r, name, g) /\ [game |-> g, craft |-> (n + 1) + 1] \notin heap'
      BY <1>12
    <3> QED BY <1>9, <1>10, <3>1
  <2>2. f[h] = e[h] /\ e[h] < Length(r, name, h)
    BY <1>12, <2>1
  <2>3. [game |-> h, craft |-> e[h] + 1] \notin open
    BY <1>13, <2>1, <2>2
  <2>4. PICK d \in Nat : d = CostOf(r, h, e[h] + 1)
    BY <1>2, <2>2, ChoiceCosts
  <2>5. s + d > Budget(r, name)
    BY <1>2, <2>2, <2>3, <2>4 DEF Shut
  <2>6. (s + c) + d > Budget(r, name)
    BY <1>15, <2>5
  <2> QED BY <2>2, <2>4, <2>6
<1>17. ASSUME name \in CheapNames PROVE Even(r, name, f)
  <2>1. \A h \in Games : f[h] < Length(r, name, h) => c <= CostOf(r, h, f[h] + 1)
    <3> SUFFICES ASSUME NEW h \in Games, f[h] < Length(r, name, h)
                 PROVE  c <= CostOf(r, h, f[h] + 1)
      OBVIOUS
    <3>1. CASE h = g
      <4>1. PICK last \in Nat : last = Length(r, name, g)
        BY LengthIs
      <4>2. n + 1 \in Nat /\ (n + 1) + 1 \in Nat /\ n + 1 <= (n + 1) + 1 /\ (n + 1) + 1 <= last
        BY <1>12, <3>1, <4>1
      <4>3. CostOf(r, g, n + 1) <= CostOf(r, g, (n + 1) + 1)
        BY <4>1, <4>2, CostGrows
      <4> QED BY <1>7, <1>12, <3>1, <4>3
    <3>2. CASE h # g
      <4>1. f[h] = e[h] /\ e[h] < Length(r, name, h)
        BY <1>12, <3>2
      <4>2. PICK d \in Nat : d = CostOf(r, h, e[h] + 1)
        BY <1>2, <4>1, ChoiceCosts
      <4>3. CASE [game |-> h, craft |-> e[h] + 1] \in open
        <5>1. CostOf(r, x.game, x.craft) <= d
          <6>1. PICK y \in open : y = [game |-> h, craft |-> e[h] + 1]
            BY <4>3
          <6>2. y.game = h /\ y.craft = e[h] + 1
            BY <6>1
          <6> QED BY <1>4, <1>17, <4>2, <6>2
        <5> QED BY <1>5, <1>6, <1>7, <4>1, <4>2, <5>1
      <4>4. CASE [game |-> h, craft |-> e[h] + 1] \notin open
        <5>1. s + d > Budget(r, name)
          BY <1>2, <4>1, <4>2, <4>4 DEF Shut
        <5>2. c <= d
          BY <1>10, <1>15, <5>1
        <5> QED BY <4>1, <4>2, <5>2
      <4> QED BY <4>3, <4>4
    <3> QED BY <3>1, <3>2
  <2>2. ASSUME NEW a \in Games, f[a] > 0, NEW h \in Games, f[h] < Length(r, name, h)
        PROVE  CostOf(r, a, f[a]) <= CostOf(r, h, f[h] + 1)
    <3>1. CASE a = g
      BY <1>7, <1>12, <2>1, <2>2, <3>1
    <3>2. CASE a # g
      <4>1. f[a] = e[a]
        BY <1>12, <3>2
      <4>2. CASE h # g
        <5>1. f[h] = e[h]
          BY <1>12, <4>2
        <5> QED BY <1>2, <1>17, <2>2, <4>1, <5>1 DEF Even
      <4>3. CASE h = g
        <5>1. CostOf(r, a, e[a]) <= CostOf(r, g, n + 1)
          BY <1>2, <1>5, <1>6, <1>17, <2>2, <4>1 DEF Even
        <5>2. c <= CostOf(r, h, f[h] + 1)
          BY <2>1, <2>2
        <5>3. CostOf(r, a, f[a]) \in Nat /\ CostOf(r, h, f[h] + 1) \in Nat
          BY <1>11, <2>2, ChoiceCosts
        <5> QED BY <1>7, <4>1, <5>1, <5>2, <5>3
      <4> QED BY <4>2, <4>3
    <3> QED BY <3>1, <3>2
  <2> QED BY <2>2 DEF Even
<1>18. Needed(r, name) # None => Sum(f) <= Needed(r, name)
  <2>1. Needed(r, name) \in Nat \union {None} /\ Sum(e) \in Nat
    BY <1>2, NeededIs, ChoiceIs
  <2> QED BY <1>3, <1>11, <2>1
<1>19. Within(r, name, f, s + c)
  BY <1>2, <1>10, <1>11, <1>17, <1>18 DEF Within
<1> QED
  BY <1>1, <1>10, <1>14, <1>16, <1>19 DEF Course

\* A craft that is dropped is one the budget does not allow.
LEMMA DropCourse ==
    ASSUME request \in Requests, phase \in PassNames,
           Course(request, phase, executed, spend, heap), Drop
    PROVE  Course(request, phase, executed', spend', heap')
<1>1. /\ executed \in Selections(request, phase)
      /\ heap \subseteq NextCrafts(request, phase, executed) /\ heap # {}
      /\ Shut(request, phase, executed, spend, heap)
  BY DEF Course, Within, Drop, Open
<1>2. PICK x \in heap : x = Popped
  BY <1>1, PoppedIs
<1>3. /\ executed' = executed /\ spend' = spend /\ heap' = heap \ {x}
      /\ spend + CostOf(request, x.game, x.craft) > Budget(request, phase)
  BY <1>2, Zenon DEF Drop
<1>4. x.craft = executed[x.game] + 1
  BY <1>1, NextIs
<1>5. Shut(request, phase, executed, spend, heap')
  <2> SUFFICES ASSUME NEW h \in Games, executed[h] < Length(request, phase, h),
                      [game |-> h, craft |-> executed[h] + 1] \notin heap'
               PROVE  spend + CostOf(request, h, executed[h] + 1) > Budget(request, phase)
    BY DEF Shut
  <2>1. CASE [game |-> h, craft |-> executed[h] + 1] = x
    <3>1. x.game = h /\ x.craft = executed[h] + 1
      BY <2>1
    <3> QED BY <1>3, <3>1
  <2>2. CASE [game |-> h, craft |-> executed[h] + 1] # x
    <3>1. [game |-> h, craft |-> executed[h] + 1] \notin heap
      BY <1>3, <2>2
    <3> QED BY <1>1, <3>1 DEF Shut
  <2> QED BY <2>1, <2>2
<1> QED
  BY <1>1, <1>3, <1>5 DEF Course

\* A pass ends with its result.
LEMMA PassEnds ==
    ASSUME request \in Requests, phase \in PassNames,
           Course(request, phase, executed, spend, heap), ~ Open
    PROVE  Result(request, phase, executed, spend)
<1>1. CASE heap = {}
  BY <1>1 DEF Course, Result
<1>2. CASE ~ (Needed(request, phase) # None => Sum(executed) < Needed(request, phase))
  BY <1>2 DEF Course, Result
<1> QED
  BY <1>1, <1>2 DEF Open

\* A request starts on the course of its first pass, or has no pass.
LEMMA PlanInvInit == PlanInit => PlanInv
<1> SUFFICES ASSUME PlanInit PROVE PlanInv
  OBVIOUS
<1>1. /\ request \in Requests /\ phase \in {"cheapest", "done"}
      /\ executed = [g \in Games |-> 0] /\ spend = 0
      /\ heap = IF phase = "done" THEN {} ELSE FirstCrafts(request, phase)
      /\ passes = [name \in PassNames |-> None]
  BY DEF PlanInit
<1>2. ASSUME phase # "done" PROVE Course(request, phase, executed, spend, heap)
  <2>1. phase \in PassNames /\ ~ OfSale(phase)
    BY <1>1, <1>2 DEF PassNames, OfSale
  <2> QED BY <1>1, <1>2, <2>1, CourseBegins
<1>3. phase # "done" => Earlier[phase] = {}
  BY <1>1 DEF Earlier, PassNames
<1>4. DOMAIN passes = PassNames /\ \A name \in PassNames : passes[name] = None
  BY <1>1
<1> QED
  BY <1>1, <1>2, <1>3, <1>4 DEF PlanInv, PassNames

\* The passes run in one order.
LEMMA EarlierIs ==
    /\ \A name \in PassNames : Earlier[name] \subseteq PassNames
    /\ Earlier["fewest_purchases"] = Earlier["cheapest"] \union {"cheapest"}
    /\ Earlier["preserve_cards"] = Earlier["fewest_purchases"] \union {"fewest_purchases"}
    /\ Earlier["replacement"] = Earlier["preserve_cards"] \union {"preserve_cards"}
    /\ Earlier["baseline"] = Earlier["replacement"] \union {"replacement"}
BY DEF Earlier, PassNames

\* A craft, a drop and the end of a pass all keep the invariant.
LEMMA PlanInvNext == PlanInv /\ [PlanNext]_planVars => PlanInv'
<1> SUFFICES ASSUME PlanInv, [PlanNext]_planVars PROVE PlanInv'
  OBVIOUS
<1>1. /\ request \in Requests /\ phase \in PassNames \union {"done"} /\ DOMAIN passes = PassNames
      /\ phase = "done" => heap = {}
      /\ phase # "done" => /\ Course(request, phase, executed, spend, heap)
                           /\ \A m \in Earlier[phase] : Got(request, passes, m)
      /\ \A name \in PassNames : passes[name] # None =>
           \A m \in Earlier[name] \union {name} : Got(request, passes, m)
  BY DEF PlanInv
<1>2. ASSUME phase \in PassNames, request' = request, phase' = phase, passes' = passes,
             Course(request, phase, executed', spend', heap')
      PROVE  PlanInv'
  <2>1. phase # "done"
    BY <1>2 DEF PassNames
  <2>2. Course(request, phase, executed, spend, heap)' /\ phase' # "done"
    <3>1. Course(request', phase', executed', spend', heap')
      BY <1>2
    <3> QED BY <1>2, <2>1, <3>1
  <2>3. \A m : Got(request, passes, m)' = Got(request, passes, m)
    BY <1>2 DEF Got
  <2> QED BY <1>1, <1>2, <2>1, <2>2, <2>3 DEF PlanInv
<1>3. CASE Craft
  <2>1. request' = request /\ phase' = phase /\ passes' = passes /\ heap # {}
    BY <1>3 DEF Craft, Open
  <2>2. phase \in PassNames /\ Course(request, phase, executed, spend, heap)
    BY <1>1, <2>1 DEF PassNames
  <2> QED BY <1>1, <1>2, <1>3, <2>1, <2>2, CraftCourse
<1>4. CASE Drop
  <2>1. request' = request /\ phase' = phase /\ passes' = passes /\ heap # {}
    BY <1>4 DEF Drop, Open
  <2>2. phase \in PassNames /\ Course(request, phase, executed, spend, heap)
    BY <1>1, <2>1 DEF PassNames
  <2> QED BY <1>1, <1>2, <1>4, <2>1, <2>2, DropCourse
<1>5. CASE Close
  <2>1. /\ phase \in PassNames /\ phase # "done" /\ ~ Open /\ request' = request
        /\ Course(request, phase, executed, spend, heap)
    BY <1>1, <1>5 DEF Close
  <2>2. PICK rec : rec = [executed |-> executed, spend |-> spend, blocked |-> blocked]
    OBVIOUS
  <2>3. passes' = [passes EXCEPT ![phase] = rec]
    BY <1>5, <2>2, Zenon DEF Close
  <2>4. /\ DOMAIN passes' = PassNames /\ passes'[phase] = rec
        /\ \A m \in PassNames \ {phase} : passes'[m] = passes[m]
    BY <1>1, <2>1, <2>3
  <2>5. Got(request, passes', phase)
    <3>1. Result(request, phase, executed, spend)
      BY <1>1, <2>1, PassEnds
    <3>2. passes'[phase].executed = executed /\ passes'[phase].spend = spend
      BY <2>2, <2>4
    <3> QED BY <3>1, <3>2 DEF Got
  <2>6. \A m \in PassNames : Got(request, passes, m) => Got(request, passes', m)
    <3> SUFFICES ASSUME NEW m \in PassNames, Got(request, passes, m) PROVE Got(request, passes', m)
      OBVIOUS
    <3>1. CASE m = phase
      BY <2>5, <3>1
    <3>2. CASE m # phase
      <4>1. passes'[m] = passes[m]
        BY <2>4, <3>2
      <4> QED BY <4>1, Zenon DEF Got
    <3> QED BY <3>1, <3>2
  <2>7. \A m \in Earlier[phase] \union {phase} : Got(request, passes', m)
    BY <1>1, <2>1, <2>5, <2>6, EarlierIs
  <2>8. \A name \in PassNames : passes'[name] # None =>
          \A m \in Earlier[name] \union {name} : Got(request, passes', m)
    <3> SUFFICES ASSUME NEW name \in PassNames, passes'[name] # None,
                        NEW m \in Earlier[name] \union {name}
                 PROVE  Got(request, passes', m)
      OBVIOUS
    <3>1. CASE name = phase
      BY <2>7, <3>1
    <3>2. CASE name # phase
      <4>1. passes[name] # None
        BY <2>4, <3>2
      <4>2. m \in PassNames
        BY EarlierIs
      <4> QED BY <1>1, <2>6, <4>1, <4>2
    <3> QED BY <3>1, <3>2
  <2>9. PICK next : next = NextPhase(request, phase, passes')
    OBVIOUS
  <2>10. /\ phase' = next /\ executed' = [g \in Games |-> 0] /\ spend' = 0
         /\ heap' = IF next = "done" THEN {} ELSE FirstCrafts(request, next)
    BY <1>5, <2>9, Zenon DEF Close, Begun
  <2>11. /\ next \in PassNames \union {"done"}
         /\ next # "done" => /\ Earlier[next] = Earlier[phase] \union {phase}
                             /\ OfSale(next) => SaleReady(request)
    <3>1. CASE phase = "cheapest"
      BY <2>9, <3>1, EarlierIs DEF NextPhase, PassNames, OfSale
    <3>2. CASE phase = "fewest_purchases"
      BY <2>9, <3>2, EarlierIs DEF NextPhase, PassNames, OfSale
    <3>3. CASE phase = "preserve_cards"
      <4>1. next = "done" \/ (next = "replacement" /\ SaleReady(request))
        <5>1. next = IF NothingToShow(request, passes') \/ ~ SaleReady(request)
                     THEN "done" ELSE "replacement"
          BY <2>9, <3>3 DEF NextPhase
        <5> QED BY <5>1
      <4> QED BY <3>3, <4>1, EarlierIs DEF PassNames
    <3>4. CASE phase = "replacement"
      <4>1. next = "baseline"
        BY <2>9, <3>4 DEF NextPhase
      <4>2. SaleReady(request)
        BY <2>1, <3>4 DEF Course, Within, OfSale
      <4> QED BY <3>4, <4>1, <4>2, EarlierIs DEF PassNames
    <3>5. CASE phase = "baseline"
      <4>1. next = "done"
        BY <2>9, <3>5 DEF NextPhase
      <4> QED BY <4>1
    <3> QED BY <2>1, <3>1, <3>2, <3>3, <3>4, <3>5 DEF PassNames
  <2>12. ASSUME next # "done"
         PROVE  /\ Course(request', phase', executed', spend', heap')
                /\ \A m \in Earlier[phase'] : Got(request', passes', m)
    <3>1. next \in PassNames /\ (OfSale(next) => SaleReady(request))
      BY <2>11, <2>12
    <3>2. Course(request, next, [g \in Games |-> 0], 0, FirstCrafts(request, next))
      BY <1>1, <3>1, CourseBegins
    <3>3. Course(request', phase', executed', spend', heap')
      BY <2>1, <2>10, <2>12, <3>2
    <3>4. \A m \in Earlier[phase'] : Got(request', passes', m)
      BY <2>1, <2>7, <2>10, <2>11, <2>12
    <3> QED BY <3>3, <3>4
  <2>13. phase' = "done" => heap' = {}
    BY <2>10
  <2>14. request' \in Requests /\ phase' \in PassNames \union {"done"}
    BY <1>1, <2>1, <2>10, <2>11
  <2>15. \A name \in PassNames : passes'[name] # None =>
           \A m \in Earlier[name] \union {name} : Got(request', passes', m)
    BY <2>1, <2>8
  <2> QED BY <2>4, <2>10, <2>12, <2>13, <2>14, <2>15 DEF PlanInv
<1>6. CASE UNCHANGED planVars
  BY <1>1, <1>6 DEF planVars, PlanInv, Got
<1> QED
  BY <1>3, <1>4, <1>5, <1>6 DEF PlanNext

\* The inductive invariant of the passes.
THEOREM PassesAgree == PlanSpec => []PlanInv
BY PlanInvInit, PlanInvNext, PTL DEF PlanSpec

-----------------------------------------------------------------------------
(***************************************************************************)
(* What the plans promise.                                                 *)
(***************************************************************************)

\* At every step of a pass and in every plan the crafts stay in the envelope of the
\* request: the purchases cost what was charged and no more than the budget, reserved
\* copies stay, no ask is bought deeper than it is (_build_policy_plan).
THEOREM EnvelopeIsKept == PlanSpec => []EnvelopeKept
<1>1. PlanInv => EnvelopeKept
  <2> SUFFICES ASSUME PlanInv PROVE EnvelopeKept
    OBVIOUS
  <2>1. phase # "done" => Sound(request, phase, executed, spend)
    <3> SUFFICES ASSUME phase # "done" PROVE Sound(request, phase, executed, spend)
      OBVIOUS
    <3>1. request \in Requests /\ phase \in PassNames /\ Within(request, phase, executed, spend)
      BY DEF PlanInv, Course
    <3> QED BY <3>1, PassSound
  <2>2. ASSUME NEW name \in PassNames, passes[name] # None
        PROVE  Sound(request, name, passes[name].executed, passes[name].spend)
    <3>1. request \in Requests /\ Within(request, name, passes[name].executed, passes[name].spend)
      BY <2>2 DEF PlanInv, Got, Result
    <3> QED BY <3>1, PassSound
  <2> QED BY <2>1, <2>2 DEF EnvelopeKept
<1> QED
  BY <1>1, PassesAgree, PTL

\* No choice of crafts within the limits of a pass by cost has more of them, and none
\* as many for less (_run_policy with the cheapest policy).
THEOREM CheapestIsExact == PlanSpec => []CheapestExact
<1>1. PlanInv => CheapestExact
  <2> SUFFICES ASSUME PlanInv, NEW name \in CheapNames, passes[name] # None,
                      NEW e \in Allowed(request, name)
               PROVE  \/ Sum(e) < Sum(passes[name].executed)
                      \/ /\ Sum(e) = Sum(passes[name].executed)
                         /\ StepSpend(request, e) >= passes[name].spend
    BY Zenon DEF CheapestExact, CheapNames
  <2>1. name \in PassNames
    BY DEF CheapNames, PassNames
  <2>2. request \in Requests /\ Result(request, name, passes[name].executed, passes[name].spend)
    BY <2>1 DEF PlanInv, Got
  <2> QED BY <2>2, PassExact
<1> QED
  BY <1>1, PassesAgree, PTL

-----------------------------------------------------------------------------
\* What a row of the dashboard calls craftable.
LEMMA CraftableIs ==
    ASSUME NEW r \in Requests, NEW g \in Games, Composition(r, g) = "full", r.level[g] < 5
    PROVE  /\ CraftableCount(r, g) \in Nat /\ CraftableCount(r, g) <= 5 - r.level[g]
           /\ \A card \in StockOf(r, g) : CraftableCount(r, g) <= Available(r, card)
           /\ \A k \in Nat : /\ k <= 5 - r.level[g]
                             /\ \A card \in StockOf(r, g) : k <= Available(r, card)
                             => k <= CraftableCount(r, g)
<1>1. r.level[g] \in 0..5
  BY RequestIs
<1>2. PICK S : S = {5 - r.level[g]} \union {Available(r, card) : card \in StockOf(r, g)}
  OBVIOUS
<1>3. PICK n : n = CraftableCount(r, g)
  OBVIOUS
<1>4. n = Min(S)
  <2>1. ~ r.level[g] >= 5
    BY <1>1
  <2> QED BY <1>2, <1>3, <2>1, Zenon DEF CraftableCount
<1>5. S \subseteq Nat /\ S # {}
  <2>1. \A card \in StockOf(r, g) : Available(r, card) \in Nat
    BY StockIs, AvailableIs
  <2> QED BY <1>1, <1>2, <2>1
<1>6. n \in S /\ \A x \in S : n <= x
  BY <1>4, <1>5, MinIs
<1>7. ASSUME NEW k \in Nat, k <= 5 - r.level[g],
             \A card \in StockOf(r, g) : k <= Available(r, card)
      PROVE  k <= n
  <2>1. \A x \in S : k <= x
    BY <1>2, <1>7
  <2> QED BY <1>6, <2>1
<1>8. n \in Nat
  BY <1>5, <1>6
<1>9. n <= 5 - r.level[g] /\ \A card \in StockOf(r, g) : n <= Available(r, card)
  BY <1>2, <1>6
<1> QED
  BY <1>3, <1>7, <1>8, <1>9

\* When a row of the dashboard is called craftable; excluded games have no such status.
LEMMA StatusIs ==
    ASSUME NEW r \in Requests, NEW g \in Games
    PROVE  /\ Status(r, g) = "craftable" <=>
                /\ r.level[g] < 5 /\ g \notin r.excluded
                /\ Composition(r, g) = "full" /\ CraftableCount(r, g) > 0
           /\ Status(r, g) \in {"craftable", "incomplete", "reserved"} => g \notin r.excluded
<1>1. r.level[g] \in 0..5
  BY RequestIs
<1>2. Composition(r, g) \in {"full", "unknown", "size_only"}
  BY DEF Composition
<1>3. Composition(r, g) # "full" => CraftableCount(r, g) = 0
  BY DEF CraftableCount
<1> QED
  BY <1>1, <1>2, <1>3 DEF Status

\* The games in scope are games of the catalogue.
LEMMA ScopeIs ==
    ASSUME NEW r \in Requests
    PROVE  InScope(r) \subseteq Games
BY RequestIs DEF InScope, Knowledge

\* A pass without a limit of crafts takes all that cost nothing.
LEMMA FreeTaken ==
    ASSUME NEW r \in Requests, NEW name \in PassNames, NEW e, NEW s, Result(r, name, e, s),
           Needed(r, name) = None, r.mode # "collector" \/ OfSale(name),
           NEW g \in Games, g \in Stocks(r, name), Status(r, g) = "craftable"
    PROVE  CraftableCount(r, g) <= e[g]
<1>1. /\ r.level[g] < 5 /\ g \notin r.excluded /\ Composition(r, g) = "full"
  BY StatusIs
<1>2. PICK k \in Nat : k = CraftableCount(r, g)
  BY <1>1, CraftableIs
<1>3. k <= 5 - r.level[g] /\ \A card \in StockOf(r, g) : k <= Available(r, card)
  BY <1>1, <1>2, CraftableIs
<1>4. Takes(r, name, g)
  BY <1>1 DEF Takes
<1>5. Fits(r, name, g, k)
  <2>1. ASSUME NEW card \in StockOf(r, g) PROVE k <= Supply(r, card)
    <3>1. card \in Cards
      BY StockIs
    <3>2. /\ Available(r, card) <= Supply(r, card) /\ Supply(r, card) \in Nat
          /\ Available(r, card) \in Nat
      BY <3>1, SupplyIs, AvailableIs
    <3> QED BY <1>3, <3>2
  <2> QED BY <1>3, <2>1 DEF Fits
<1>6. PICK last \in Nat : last = Length(r, name, g) /\ k <= last
  BY <1>4, <1>5, LengthIs
<1>7. /\ e \in Selections(r, name) /\ s = StepSpend(r, e) /\ s <= Budget(r, name)
      /\ OfSale(name) => SaleReady(r)
      /\ Shut(r, name, e, s, {})
  BY DEF Result, Within
<1>8. PICK n \in Nat : n = e[g]
  BY <1>7 DEF Selections
<1>9. ASSUME n < k PROVE FALSE
  <2>1. n < last /\ n + 1 \in Nat /\ n + 1 <= last /\ n + 1 <= k
    BY <1>6, <1>9
  <2>2. BoughtFor(r, g, n + 1) = {}
    <3> SUFFICES ASSUME NEW card \in StockOf(r, g), n + 1 > Available(r, card) PROVE FALSE
      BY DEF BoughtFor
    <3>1. Available(r, card) \in Nat /\ k <= Available(r, card)
      BY <1>3, StockIs, AvailableIs
    <3> QED BY <2>1, <3>1
  <2>3. CostOf(r, g, n + 1) = 0
    <3>1. CostOf(r, g, n + 1) = SumFunctionOnSet(Prices(r), BoughtFor(r, g, n + 1))
      BY <1>6, <2>1, CostIs
    <3> QED BY <2>2, <3>1, SumEmpty
  <2>4. s + CostOf(r, g, n + 1) > Budget(r, name)
    BY <1>6, <1>7, <1>8, <2>1 DEF Shut
  <2>5. s \in Nat /\ Budget(r, name) \in Nat
    BY <1>7, ChoiceIs, BudgetIs
  <2> QED BY <1>7, <2>3, <2>4, <2>5
<1> QED
  BY <1>2, <1>8, <1>9

\* A row's price is known only when every card that it lacks can be bought, and then it
\* is the cost of the game's first craft.
LEMMA FirstCost ==
    ASSUME NEW r \in Requests, NEW g \in Games
    PROVE  /\ \A card \in StockOf(r, g) : Available(r, card) = 0 => card \in BoughtFor(r, g, 1)
           /\ CompletionCost(r, g) =
                  IF /\ Composition(r, g) = "full" /\ r.level[g] < 5
                     /\ \A card \in BoughtFor(r, g, 1) : Buyable(r, card)
                  THEN CostOf(r, g, 1) ELSE None
<1>1. PICK missing : missing = {card \in StockOf(r, g) : Available(r, card) = 0}
  OBVIOUS
<1>2. BoughtFor(r, g, 1) = missing
  <2>1. \A card \in StockOf(r, g) : 1 > Available(r, card) <=> Available(r, card) = 0
    BY StockIs, AvailableIs
  <2> QED BY <1>1, <2>1 DEF BoughtFor
<1>3. CostOf(r, g, 1) = SumFunction([card \in missing |-> r.ask[card].price])
  BY <1>2, Zenon DEF CostOf
<1>4. ~ (r.level[g] >= 5) <=> r.level[g] < 5
  <2>1. r.level[g] \in 0..5
    BY RequestIs
  <2> QED BY <2>1
<1>5. PICK cost : cost = SumFunction([card \in missing |-> r.ask[card].price])
  OBVIOUS
<1>6. CompletionCost(r, g) = IF \/ Composition(r, g) # "full"
                                \/ r.level[g] >= 5
                                \/ \E card \in missing : ~ Buyable(r, card)
                             THEN None ELSE cost
  BY <1>1, <1>5, Zenon DEF CompletionCost
<1> QED
  BY <1>1, <1>2, <1>3, <1>4, <1>5, <1>6

\* A row has a next badge exactly when its game is neither maxed nor excluded and its
\* set is not in doubt.
LEMMA OfferingIs ==
    ASSUME NEW r \in Requests, NEW g \in Games
    PROVE  /\ Composition(r, g) = "full" /\ r.level[g] < 5 /\ g \notin r.excluded => Offering(r, g)
           /\ Offering(r, g) => g \notin r.excluded
<1>1. r.level[g] \in 0..5
  BY RequestIs
<1> QED
  BY <1>1 DEF Offering, Status

\* Under a budget alone each row of the dashboard agrees with the cheapest plan: its
\* craftable badges are in the plan, a next badge that it prices is missing there only
\* when the rest of the budget does not pay for it and cheaper crafts were taken, and
\* what the plan crafts the row offers, at its price.
THEOREM DashboardIsTrue == PlanSpec => []DashboardAgrees
<1>1. PlanInv => DashboardAgrees
  <2> DEFINE plan == passes["cheapest"]
             price(g) == CompletionCost(request, g)
             agrees(g) ==
                 /\ Status(request, g) = "craftable" => plan.executed[g] >= CraftableCount(request, g)
                 /\ Offering(request, g) /\ price(g) # None /\ plan.executed[g] = 0 =>
                        /\ plan.spend + price(g) > request.budget
                        /\ \A h \in Games : plan.executed[h] > 0 =>
                               CostOf(request, h, plan.executed[h]) <= price(g)
                 /\ plan.executed[g] > 0 => Offering(request, g) /\ price(g) = CostOf(request, g, 1)
  <2> SUFFICES ASSUME PlanInv, Finished, request.mode = "budget", NEW g \in InScope(request)
               PROVE  agrees(g)
    BY DEF DashboardAgrees
  <2> PICK e, s, cost : e = plan.executed /\ s = plan.spend /\ cost = price(g)
    OBVIOUS
  <2>1. PICK r \in Requests : r = request
    BY DEF PlanInv
  <2>2. Result(r, "cheapest", e, s)
    <3>1. "cheapest" \in Earlier["preserve_cards"] /\ "preserve_cards" \in PassNames
      BY DEF Earlier, PassNames
    <3> QED BY <2>1, <3>1 DEF PlanInv, Finished, Got
  <2>3. g \in Games /\ "cheapest" \in PassNames /\ ~ OfSale("cheapest") /\ r.mode = "budget"
    BY <2>1, ScopeIs DEF PassNames, OfSale
  <2>4. Needed(r, "cheapest") = None
    BY <2>3, NeededIs DEF Needed
  <2>5. g \in Stocks(r, "cheapest")
    BY <2>1, <2>3 DEF Stocks, Eligible
  <2>6. /\ e \in Selections(r, "cheapest") /\ s = StepSpend(r, e)
        /\ Shut(r, "cheapest", e, s, {}) /\ Even(r, "cheapest", e)
    BY <2>2, <2>4 DEF Result, Within, CheapNames
  <2>7. PICK n \in Nat : n = e[g]
    BY <2>3, <2>6 DEF Selections
  <2>8. PICK last \in Nat : last = Length(r, "cheapest", g) /\ n <= last
    <3>1. Length(r, "cheapest", g) \in 0..5
      BY <2>3, LengthIs
    <3> QED BY <2>3, <2>6, <2>7, <3>1 DEF Selections
  <2>9. cost = IF /\ Composition(r, g) = "full" /\ r.level[g] < 5
                  /\ \A card \in BoughtFor(r, g, 1) : Buyable(r, card)
               THEN CostOf(r, g, 1) ELSE None
    BY <2>1, <2>3, FirstCost
  <2>10. ASSUME Status(r, g) = "craftable" PROVE e[g] >= CraftableCount(r, g)
    <3>1. CraftableCount(r, g) <= n
      BY <2>2, <2>3, <2>4, <2>5, <2>7, <2>10, FreeTaken
    <3>2. CraftableCount(r, g) \in Nat
      BY <2>3, <2>10, StatusIs, CraftableIs
    <3> QED BY <2>7, <3>1, <3>2
  <2>11. ASSUME Offering(r, g), cost # None, e[g] = 0
         PROVE  /\ s + cost > r.budget
                /\ \A h \in Games : e[h] > 0 => CostOf(r, h, e[h]) <= cost
    <3>1. /\ Composition(r, g) = "full" /\ r.level[g] < 5 /\ g \notin r.excluded
          /\ \A card \in BoughtFor(r, g, 1) : Buyable(r, card)
          /\ cost = CostOf(r, g, 1)
      BY <2>3, <2>9, <2>11, OfferingIs
    <3>2. Takes(r, "cheapest", g)
      BY <2>5, <3>1 DEF Takes
    <3>3. Fits(r, "cheapest", g, 1)
      <4>1. ASSUME NEW card \in StockOf(r, g) PROVE 1 <= Supply(r, card)
        <5>1. card \in Cards
          BY <2>3, StockIs
        <5>2. PICK a \in Nat, b \in Nat : a = Available(r, card) /\ b = Supply(r, card)
                                          /\ a <= b /\ (a < b <=> Buyable(r, card))
          BY <5>1, AvailableIs, SupplyIs
        <5>3. a = 0 => a < b
          <6>1. a = 0 => card \in BoughtFor(r, g, 1)
            BY <2>3, <5>2, FirstCost
          <6> QED BY <3>1, <5>2, <6>1
        <5> QED BY <5>2, <5>3
      <4>2. r.level[g] \in 0..5
        BY <2>3, RequestIs
      <4> QED BY <2>3, <3>1, <4>1, <4>2 DEF Fits
    <3>4. 1 <= last
      BY <2>3, <2>8, <3>2, <3>3, LengthIs
    <3>5. e[g] < Length(r, "cheapest", g) /\ e[g] + 1 = 1
      BY <2>8, <2>11, <3>4
    <3>6. s + cost > Budget(r, "cheapest")
      BY <2>3, <2>6, <3>1, <3>5 DEF Shut
    <3>7. Budget(r, "cheapest") = r.budget
      BY DEF Budget
    <3>8. \A h \in Games : e[h] > 0 => CostOf(r, h, e[h]) <= cost
      BY <2>3, <2>6, <3>1, <3>5 DEF Even
    <3> QED BY <3>6, <3>7, <3>8
  <2>12. ASSUME e[g] > 0 PROVE Offering(r, g) /\ cost = CostOf(r, g, 1)
    <3>1. 1 <= n /\ 1 <= last
      BY <2>7, <2>8, <2>12
    <3>2. Takes(r, "cheapest", g)
      BY <2>3, <2>8, <3>1, LengthIs
    <3>3. Composition(r, g) = "full" /\ r.level[g] < 5 /\ g \notin r.excluded
      BY <3>2 DEF Takes
    <3>4. \A card \in BoughtFor(r, g, 1) : Buyable(r, card)
      BY <2>3, <2>8, <3>1, CostIs DEF BoughtFor
    <3> QED BY <2>3, <2>9, <3>3, <3>4, OfferingIs
  <2> QED BY <2>1, <2>10, <2>11, <2>12
<1> QED
  BY <1>1, PassesAgree, PTL

-----------------------------------------------------------------------------
(***************************************************************************)
(* The alternative and the goal.                                           *)
(***************************************************************************)

\* The baseline crafts exactly what costs nothing.
LEMMA BaselineFree ==
    ASSUME NEW r \in Requests, NEW e, NEW s, Result(r, "baseline", e, s), NEW g \in Games
    PROVE  e[g] = IF g \in InScope(r) /\ Status(r, g) = "craftable" THEN CraftableCount(r, g) ELSE 0
<1>1. /\ "baseline" \in PassNames /\ OfSale("baseline") /\ Needed(r, "baseline") = None
      /\ Budget(r, "baseline") = 0 /\ Stocks(r, "baseline") = InScope(r)
  BY DEF PassNames, OfSale, Needed, Budget, Stocks
<1>2. e \in Selections(r, "baseline") /\ s = StepSpend(r, e) /\ s <= 0
  BY <1>1 DEF Result, Within
<1>3. PICK n \in Nat : n = e[g]
  BY <1>2 DEF Selections
<1>4. PICK last \in Nat : last = Length(r, "baseline", g) /\ n <= last
  <2>1. Length(r, "baseline", g) \in 0..5
    BY <1>1, LengthIs
  <2> QED BY <1>2, <1>3, <2>1 DEF Selections
<1>5. ASSUME n > 0
      PROVE  /\ g \in InScope(r) /\ Status(r, g) = "craftable"
             /\ n <= CraftableCount(r, g)
  <2>1. Takes(r, "baseline", g) /\ Fits(r, "baseline", g, last)
    <3>1. last # 0
      BY <1>4, <1>5
    <3> QED BY <1>1, <1>4, <3>1, LengthIs
  <2>2. CostOf(r, g, n) = 0
    <3>1. CostOf(r, g, n) \in Nat /\ CostOf(r, g, n) <= GameSpend(r, g, n)
      BY <1>1, <1>2, <1>3, <1>5, ChoiceCosts
    <3>2. GameSpend(r, g, n) \in Nat /\ GameSpend(r, g, n) <= s
      BY <1>1, <1>2, <1>3, ChoiceIs
    <3>3. s \in Nat
      BY <1>1, <1>2, ChoiceIs
    <3> QED BY <1>2, <3>1, <3>2, <3>3
  <2>3. \A card \in StockOf(r, g) : n <= Available(r, card)
    <3> SUFFICES ASSUME NEW card \in StockOf(r, g), n > Available(r, card) PROVE FALSE
      <4>1. \A card \in StockOf(r, g) : Available(r, card) \in Nat
        BY StockIs, AvailableIs
      <4> QED BY <4>1
    <3>1. card \in Cards /\ Buyable(r, card)
      BY <1>1, <1>4, StockIs, CostIs
    <3>2. PICK B : B = BoughtFor(r, g, n)
      OBVIOUS
    <3>3. card \in B /\ B \subseteq Cards /\ IsFiniteSet(B)
      BY <1>1, <1>4, <3>2, StockIs, CostIs DEF BoughtFor
    <3>4. \A c \in B : Prices(r)[c] \in Nat
      BY <3>3, SupplyIs DEF Prices
    <3>5. Prices(r)[card] > 0
      BY <3>1, BuyableIs DEF Prices, PriceOf
    <3>6. SumFunctionOnSet(Prices(r), B) > 0
      BY <3>3, <3>4, <3>5, SumPositive
    <3>7. CostOf(r, g, n) = SumFunctionOnSet(Prices(r), B)
      BY <1>1, <1>4, <3>2, CostIs
    <3> QED BY <2>2, <3>6, <3>7
  <2>4. n <= 5 - r.level[g] /\ r.level[g] \in 0..5 /\ r.level[g] < 5
    BY <1>4, <2>1, RequestIs DEF Fits, Takes
  <2>5. CraftableCount(r, g) \in Nat /\ n <= CraftableCount(r, g)
    BY <2>1, <2>3, <2>4, CraftableIs DEF Takes
  <2>6. Status(r, g) = "craftable"
    BY <1>5, <2>1, <2>5, StatusIs DEF Takes
  <2> QED BY <1>1, <2>1, <2>5, <2>6 DEF Takes
<1>6. ASSUME g \in InScope(r), Status(r, g) = "craftable"
      PROVE  CraftableCount(r, g) <= n /\ CraftableCount(r, g) \in Nat
  <2>1. CraftableCount(r, g) <= n
    BY <1>1, <1>3, <1>6, FreeTaken
  <2> QED BY <1>6, <2>1, StatusIs, CraftableIs
<1>7. CASE n > 0
  BY <1>3, <1>5, <1>6, <1>7
<1>8. CASE n = 0
  BY <1>3, <1>6, <1>8
<1> QED
  BY <1>7, <1>8

\* The replacement may choose what the baseline may, outside the sold game, for the
\* receipts.
LEMMA KeptIs ==
    ASSUME NEW r \in Requests, SaleReady(r)
    PROVE  Allowed(r, "replacement") =
             {e \in [Games -> 0..5] :
                 /\ e[r.compare] = 0
                 /\ \A g \in Games : e[g] <= Length(r, "baseline", g)
                 /\ StepSpend(r, e) <= Proceeds(r)}
<1>1. PICK most : most = [g \in Games |-> Length(r, "replacement", g)]
  OBVIOUS
<1>2. /\ "replacement" \in PassNames /\ "baseline" \in PassNames
      /\ Needed(r, "replacement") = None /\ Budget(r, "replacement") = Proceeds(r)
  BY DEF PassNames, Needed, Budget, OfSale
<1>3. r.compare \in Games
  BY ProceedsIs
<1>4. \A g \in Games \ {r.compare} : most[g] = Length(r, "baseline", g)
  <2> SUFFICES ASSUME NEW g \in Games, g # r.compare
               PROVE  Length(r, "replacement", g) = Length(r, "baseline", g)
    BY <1>1
  <2>1. g \in Stocks(r, "replacement") <=> g \in Stocks(r, "baseline")
    BY DEF Stocks
  <2>2. OfSale("replacement") /\ OfSale("baseline")
    BY DEF OfSale
  <2> QED BY <2>1, <2>2, Zenon DEF Length
<1>5. most[r.compare] = 0
  <2>1. ~ Takes(r, "replacement", r.compare)
    BY DEF Takes, Stocks
  <2> QED BY <1>1, <1>2, <1>3, <2>1, LengthIs
<1>6. Length(r, "baseline", r.compare) \in 0..5
  BY <1>2, <1>3, LengthIs
<1>7. \A e \in [Games -> 0..5] :
        (\A g \in Games : e[g] <= most[g]) <=>
            e[r.compare] = 0 /\ \A g \in Games : e[g] <= Length(r, "baseline", g)
  <2> TAKE e \in [Games -> 0..5]
  <2>1. e[r.compare] \in 0..5
    BY <1>3
  <2>2. e[r.compare] <= most[r.compare] <=> e[r.compare] = 0
    BY <1>5, <2>1
  <2>3. e[r.compare] = 0 => e[r.compare] <= Length(r, "baseline", r.compare)
    BY <1>6
  <2> QED BY <1>3, <1>4, <2>2, <2>3
<1>8. Allowed(r, "replacement") =
        {e \in [Games -> 0..5] : /\ \A g \in Games : e[g] <= most[g]
                                 /\ StepSpend(r, e) <= Proceeds(r)}
  BY <1>1, <1>2, Zenon DEF Allowed
<1> QED
  BY <1>7, <1>8, Zenon

\* The sale alternative sells a set it may sell and keeps every reserve; its
\* additional points are those of the best plan outside the sold game for the
\* receipts, less all that could be crafted for nothing (_build_opportunity).
THEOREM AlternativeIsTrue == PlanSpec => []AlternativeTruth
<1>1. PlanInv => AlternativeTruth
  <2> DEFINE kept(r) == {e \in [Games -> 0..5] :
                            /\ e[r.compare] = 0
                            /\ \A g \in Games : e[g] <= Length(r, "baseline", g)
                            /\ StepSpend(r, e) <= Proceeds(r)}
             free(r) == [g \in Games |-> IF g \in InScope(r) /\ Status(r, g) = "craftable"
                                         THEN CraftableCount(r, g) ELSE 0]
  <2> SUFFICES ASSUME PlanInv, passes["baseline"] # None, NEW r, r = request
               PROVE  /\ \A card \in r.set[r.compare] :
                           card \notin r.neverSell /\ r.owned[card] - 1 >= r.keep[card]
                      /\ Sum(passes["replacement"].executed) - Sum(passes["baseline"].executed)
                           = Max({Sum(e) : e \in kept(r)}) - Sum(free(r))
    BY Zenon DEF AlternativeTruth
  <2> HIDE DEF kept, free
  <2>1. r \in Requests
    BY DEF PlanInv
  <2>2. PICK e, s, b, t : /\ e = passes["replacement"].executed /\ b = passes["baseline"].executed
                          /\ Result(r, "replacement", e, s) /\ Result(r, "baseline", b, t)
    <3>1. /\ "baseline" \in PassNames /\ "replacement" \in Earlier["baseline"]
      BY DEF Earlier, PassNames
    <3>2. Got(r, passes, "replacement") /\ Got(r, passes, "baseline")
      BY <3>1 DEF PlanInv
    <3> QED BY <3>2 DEF Got
  <2>3. SaleReady(r) /\ r.compare \in Games
    <3>1. SaleReady(r)
      BY <2>2 DEF Result, Within, OfSale
    <3> QED BY <2>1, <3>1, ProceedsIs
  <2>4. ASSUME NEW card \in r.set[r.compare]
        PROVE  card \notin r.neverSell /\ r.owned[card] - 1 >= r.keep[card]
    <3>1. card \in StockOf(r, r.compare)
      BY DEF StockOf
    <3>2. card \notin r.neverSell /\ Available(r, card) >= 1
      BY <2>3, <3>1 DEF SaleReady
    <3>3. card \in Cards
      BY <2>1, <2>3, <3>1, StockIs
    <3>4. /\ r.owned[card] \in Nat /\ r.keep[card] \in Nat
          /\ Available(r, card) = r.owned[card] - r.keep[card]
      BY <2>1, <3>3, AvailableIs
    <3> QED BY <3>2, <3>4
  <2>5. "replacement" \in CheapNames /\ "replacement" \in PassNames /\ "baseline" \in PassNames
    BY DEF CheapNames, PassNames
  <2>6. kept(r) = Allowed(r, "replacement")
    BY <2>1, <2>3, KeptIs, Zenon DEF kept
  <2>7. e \in kept(r)
    BY <2>1, <2>2, <2>5, <2>6, PassAllowed DEF Result
  <2>8. \A f \in kept(r) : Sum(f) \in Nat /\ Sum(f) <= Sum(e)
    <3> SUFFICES ASSUME NEW f \in kept(r) PROVE Sum(f) \in Nat /\ Sum(f) <= Sum(e)
      OBVIOUS
    <3>1. Sum(f) \in Nat /\ Sum(e) \in Nat
      BY <2>1, <2>5, <2>6, <2>7, AllowedIs, ChoiceIs
    <3>2. Sum(f) < Sum(e) \/ Sum(f) = Sum(e)
      BY <2>1, <2>2, <2>5, <2>6, PassExact
    <3> QED BY <3>1, <3>2
  <2>9. Max({Sum(f) : f \in kept(r)}) = Sum(e)
    <3>1. PICK S : S = {Sum(f) : f \in kept(r)}
      OBVIOUS
    <3>2. Sum(e) \in S /\ \A x \in S : x \in Nat /\ Sum(e) >= x
      BY <2>7, <2>8, <3>1
    <3>3. \A m \in S : (\A x \in S : m >= x) => m = Sum(e)
      BY <3>2
    <3>4. Max(S) = Sum(e)
      BY <3>2, <3>3, Zenon DEF Max
    <3> QED BY <3>1, <3>4
  <2>10. Sum(b) = Sum(free(r))
    <3>1. \A g \in Games : b[g] = free(r)[g]
      BY <2>1, <2>2, BaselineFree DEF free
    <3>2. b \in [Games -> Nat]
      BY <2>2 DEF Result, Within, Selections
    <3>3. b = free(r)
      BY <3>1, <3>2, Zenon DEF free
    <3> QED BY <3>3
  <2> QED BY <2>2, <2>4, <2>9, <2>10
<1> QED
  BY <1>1, PassesAgree, PTL

-----------------------------------------------------------------------------
\* When the points or the badges of a plan reach the goal.
LEMMA TargetReached ==
    ASSUME NEW r \in Requests, r.mode = "target", NEW e, Sum(e) \in Nat
    PROVE  AtGoal(r, e) <=> Sum(e) >= CraftsNeeded(r)
<1>1. r.target \in Nat /\ r.xp \in Nat
  BY RequestIs
<1>2. PICK n \in Nat, x \in Nat : n = Sum(e) /\ x = r.xp + BadgeXp * n
  BY <1>1 DEF BadgeXp
<1>3. AtGoal(r, e) <=> LevelForXp(x) >= r.target
  BY <1>2 DEF AtGoal
<1>4. LevelForXp(x) >= r.target <=> MinimumXp(r.target) <= x
  BY <1>1, LevelReached
<1>5. n >= NeededForTarget(r) <=> MinimumXp(r.target) <= x
  BY <1>2, TargetIs
<1>6. CraftsNeeded(r) = NeededForTarget(r)
  BY NeededIs DEF PassNames
<1> QED
  BY <1>2, <1>3, <1>4, <1>5, <1>6

\* A collector has reached all goals when no game misses a badge.
LEMMA GoalsReached ==
    ASSUME NEW r \in Requests, r.mode = "collector", NEW e \in [Games -> Nat]
    PROVE  AtGoal(r, e) <=> \A g \in DOMAIN r.goals : PerGame(r, g) <= e[g]
<1>1. ASSUME NEW g \in DOMAIN r.goals
      PROVE  r.level[g] + e[g] >= r.goals[g] <=> PerGame(r, g) <= e[g]
  <2>1. PICK l \in 0..5, goal \in 1..5, n \in Nat : l = r.level[g] /\ goal = r.goals[g] /\ n = e[g]
    BY RequestIs
  <2>2. l + n >= goal <=> AtLeast(goal - l, 0) <= n
    BY DEF AtLeast
  <2> QED BY <2>1, <2>2 DEF PerGame
<1>2. AtGoal(r, e) <=> \A g \in DOMAIN r.goals : r.level[g] + e[g] >= r.goals[g]
  BY DEF AtGoal
<1> QED
  BY <1>1, <1>2

\* No craft is missing exactly when no game misses a badge.
LEMMA MissingIs ==
    ASSUME NEW r \in Requests, NEW e \in [Games -> Nat]
    PROVE  MissingCrafts(r, e) = 0 <=> \A g \in DOMAIN r.goals : PerGame(r, g) <= e[g]
<1>1. PICK D : D = DOMAIN r.goals
  OBVIOUS
<1>2. PICK f : f = [g \in D |-> AtLeast(PerGame(r, g) - e[g], 0)]
  OBVIOUS
<1>3. MissingCrafts(r, e) = SumFunctionOnSet(f, D)
  <2>1. DOMAIN f = D
    BY <1>2
  <2>2. MissingCrafts(r, e) = SumFunction(f)
    BY <1>1, <1>2, Zenon DEF MissingCrafts
  <2> QED BY <2>1, <2>2 DEF SumFunction
<1>4. \A g \in D : f[g] \in Nat /\ (f[g] > 0 <=> ~ PerGame(r, g) <= e[g])
  <2> SUFFICES ASSUME NEW g \in D
               PROVE  f[g] \in Nat /\ (f[g] > 0 <=> ~ PerGame(r, g) <= e[g])
    OBVIOUS
  <2>1. PICK n \in Nat, m \in Nat : n = e[g] /\ m = PerGame(r, g)
    BY <1>1, RequestIs, PerGameIs
  <2>2. f[g] = AtLeast(m - n, 0)
    BY <1>2, <2>1
  <2> QED BY <2>1, <2>2 DEF AtLeast
<1>5. IsFiniteSet(D)
  BY <1>1, RequestIs
<1>6. SumFunctionOnSet(f, D) > 0 <=> \E g \in D : f[g] > 0
  BY <1>4, <1>5, SumPositive
<1>7. SumFunctionOnSet(f, D) \in Nat
  BY <1>4, <1>5, SumNat
<1> QED
  BY <1>1, <1>3, <1>4, <1>6, <1>7

\* A plan's status is ready exactly when it reaches a goal that is not yet met.
LEMMA ReadyIs ==
    ASSUME NEW r \in Requests, r.mode # "budget", NEW name \in PassNames,
           NEW e \in Selections(r, name)
    PROVE  PlanStatus(r, e) = "ready" <=> AtGoal(r, e) /\ ~ AtGoal(r, [g \in Games |-> 0])
<1>1. PICK none : none = [g \in Games |-> 0]
  OBVIOUS
<1>2. none \in [Games -> Nat] /\ e \in [Games -> Nat] /\ Sum(none) = 0 /\ Sum(e) \in Nat
  BY <1>1, ChoiceNone, ChoiceIs DEF Selections
<1>3. r.mode \in {"target", "collector"}
  BY RequestIs
<1>4. CASE r.mode = "target"
  <2>1. PICK n \in Nat : n = CraftsNeeded(r)
    BY <1>4, NeededIs, TargetIs
  <2>2. AtGoal(r, e) <=> Sum(e) >= n
    BY <1>2, <1>4, <2>1, TargetReached
  <2>3. AtGoal(r, none) <=> 0 >= n
    BY <1>2, <1>4, <2>1, TargetReached
  <2>4. PlanStatus(r, e) = "ready" <=> ~ n <= 0 /\ Sum(e) >= n
    BY <1>4, <2>1 DEF PlanStatus
  <2> QED BY <1>1, <2>1, <2>2, <2>3, <2>4
<1>5. CASE r.mode = "collector"
  <2>1. PICK n \in Nat : n = CraftsNeeded(r) /\ n = SumFunctionOnSet(Goaled(r), DOMAIN r.goals)
    BY <1>5, NeededIs, GoaledIs
  <2>2. AtGoal(r, e) <=> MissingCrafts(r, e) = 0
    BY <1>2, <1>5, GoalsReached, MissingIs
  <2>3. ~ AtGoal(r, none) <=> n > 0
    <3>1. IsFiniteSet(DOMAIN r.goals) /\ \A g \in DOMAIN r.goals : none[g] = 0
      BY <1>1, RequestIs
    <3>2. \A g \in DOMAIN r.goals : Goaled(r)[g] = PerGame(r, g) /\ PerGame(r, g) \in Nat
      BY GoaledIs
    <3>3. n > 0 <=> \E g \in DOMAIN r.goals : Goaled(r)[g] > 0
      BY <2>1, <3>1, <3>2, SumPositive
    <3>4. AtGoal(r, none) <=> \A g \in DOMAIN r.goals : PerGame(r, g) <= 0
      BY <1>2, <1>5, <3>1, GoalsReached
    <3> QED BY <3>2, <3>3, <3>4
  <2>4. PlanStatus(r, e) = "ready" <=> ~ n <= 0 /\ MissingCrafts(r, e) = 0
    BY <1>5, <2>1 DEF PlanStatus
  <2> QED BY <1>1, <2>1, <2>2, <2>3, <2>4
<1> QED
  BY <1>3, <1>4, <1>5

\* What any affordable choice reaches, the cheapest plan reaches.
LEMMA CheapestReaches ==
    ASSUME NEW r \in Requests, r.mode # "budget", NEW e, NEW s, Result(r, "cheapest", e, s),
           NEW f \in Allowed(r, "cheapest"), AtGoal(r, f)
    PROVE  AtGoal(r, e)
<1>1. "cheapest" \in PassNames /\ "cheapest" \in CheapNames /\ ~ OfSale("cheapest")
  BY DEF PassNames, CheapNames, OfSale
<1>2. e \in Selections(r, "cheapest") /\ f \in Selections(r, "cheapest")
  BY <1>1, AllowedIs DEF Result, Within
<1>3. e \in [Games -> Nat] /\ f \in [Games -> Nat] /\ Sum(e) \in Nat /\ Sum(f) \in Nat
  BY <1>1, <1>2, ChoiceIs DEF Selections
<1>4. Sum(f) <= Sum(e)
  <2>1. Sum(f) < Sum(e) \/ Sum(f) = Sum(e)
    BY <1>1, PassExact
  <2> QED BY <1>3, <2>1
<1>5. r.mode \in {"target", "collector"}
  BY RequestIs
<1>6. CASE r.mode = "target"
  <2>1. PICK n \in Nat : n = CraftsNeeded(r)
    BY <1>1, <1>6, NeededIs, TargetIs
  <2>2. Sum(f) >= n
    BY <1>3, <1>6, <2>1, TargetReached
  <2>3. Sum(e) >= n
    BY <1>3, <1>4, <2>1, <2>2
  <2> QED BY <1>3, <1>6, <2>1, <2>3, TargetReached
<1>7. CASE r.mode = "collector"
  <2>1. PICK D : D = DOMAIN r.goals
    OBVIOUS
  <2>2. D \in SUBSET Games /\ IsFiniteSet(D) /\ IsFiniteSet(Games)
    BY <2>1, RequestIs, CatalogAssumption
  <2>3. PICK p : p = [g \in D |-> PerGame(r, g)]
    OBVIOUS
  <2>4. \A g \in D : p[g] = PerGame(r, g) /\ p[g] \in Nat
    BY <2>1, <2>3, PerGameIs
  <2>5. \A g \in D : p[g] <= f[g]
    BY <1>3, <1>7, <2>1, <2>4, GoalsReached
  <2>6. \A g \in Games : IF g \in D THEN e[g] <= p[g] ELSE e[g] = 0
    <3> SUFFICES ASSUME NEW g \in Games PROVE IF g \in D THEN e[g] <= p[g] ELSE e[g] = 0
      OBVIOUS
    <3>1. PICK n \in Nat, last \in Nat : n = e[g] /\ last = Length(r, "cheapest", g) /\ n <= last
      <4>1. Length(r, "cheapest", g) \in 0..5 /\ e[g] <= Length(r, "cheapest", g)
        BY <1>1, <1>2, LengthIs DEF Selections
      <4> QED BY <1>3, <4>1
    <3>2. CASE g \in D
      <4>1. CASE last = 0
        BY <2>4, <3>1, <3>2, <4>1
      <4>2. CASE last # 0
        <5>1. last <= p[g]
          BY <1>1, <1>7, <2>4, <3>1, <3>2, <4>2, LengthIs DEF Fits
        <5> QED BY <2>4, <3>1, <3>2, <5>1
      <4> QED BY <4>1, <4>2
    <3>3. CASE g \notin D
      <4>1. ~ Takes(r, "cheapest", g)
        BY <1>7, <2>1, <3>3 DEF Takes, Stocks, Eligible
      <4>2. last = 0
        BY <1>1, <3>1, <4>1, LengthIs
      <4> QED BY <3>1, <3>3, <4>2
    <3> QED BY <3>2, <3>3
  <2>7. SumFunctionOnSet(e, Games) = SumFunctionOnSet(e, D)
    <3>1. \A g \in Games : e[g] \in Int
      BY <1>3
    <3>2. \A g \in Games \ D : e[g] = 0
      BY <2>6
    <3> QED BY <2>2, <3>1, <3>2, SumSupport
  <2>8. PICK d : d = [g \in D |-> p[g] - e[g]]
    OBVIOUS
  <2>9. \A g \in D : /\ d[g] \in Nat /\ e[g] \in Int /\ d[g] \in Int /\ p[g] = e[g] + d[g]
                     /\ (d[g] = 0 => p[g] = e[g])
    <3> SUFFICES ASSUME NEW g \in D
                 PROVE  /\ d[g] \in Nat /\ e[g] \in Int /\ d[g] \in Int /\ p[g] = e[g] + d[g]
                        /\ (d[g] = 0 => p[g] = e[g])
      OBVIOUS
    <3>1. e[g] \in Nat /\ p[g] \in Nat /\ e[g] <= p[g] /\ d[g] = p[g] - e[g]
      BY <1>3, <2>2, <2>4, <2>6, <2>8
    <3> QED BY <3>1
  <2>10. SumFunctionOnSet(p, D) = SumFunctionOnSet(e, D) + SumFunctionOnSet(d, D)
    BY <2>2, <2>9, SumPlus
  <2>11. SumFunctionOnSet(p, D) <= SumFunctionOnSet(f, D)
    <3>1. \A g \in D : p[g] \in Int /\ f[g] \in Int /\ p[g] <= f[g]
      BY <1>3, <2>2, <2>4, <2>5
    <3> QED BY <2>2, <3>1, SumLess
  <2>12. SumFunctionOnSet(f, D) <= SumFunctionOnSet(f, Games)
    BY <1>3, <2>2, SumGrows
  <2>13. Sum(e) = SumFunctionOnSet(e, Games) /\ Sum(f) = SumFunctionOnSet(f, Games)
    BY <1>1, <1>2, ChoiceIs
  <2>14. SumFunctionOnSet(d, D) \in Nat /\ SumFunctionOnSet(p, D) \in Nat
         /\ SumFunctionOnSet(f, D) \in Nat
    <3>1. \A g \in D : f[g] \in Nat
      BY <1>3, <2>2
    <3> QED BY <2>2, <2>4, <2>9, <3>1, SumNat
  <2>15. ~ SumFunctionOnSet(d, D) > 0
    BY <1>3, <1>4, <2>7, <2>10, <2>11, <2>12, <2>13, <2>14
  <2>16. \A g \in D : ~ d[g] > 0
    BY <2>2, <2>9, <2>15, SumPositive
  <2>17. \A g \in D : PerGame(r, g) <= e[g]
    BY <1>3, <2>2, <2>4, <2>9, <2>16
  <2> QED BY <1>3, <1>7, <2>1, <2>17, GoalsReached
<1> QED
  BY <1>5, <1>6, <1>7

\* A plan is ready exactly when its crafts reach a goal not yet met, and when the
\* cheapest plan is not, no affordable choice of crafts reaches the goal.
THEOREM GoalIsTrue == PlanSpec => []GoalTruth
<1>1. PlanInv => GoalTruth
  <2> SUFFICES ASSUME PlanInv, Finished, request.mode # "budget",
                      NEW none, none = [g \in Games |-> 0]
               PROVE  /\ \A i \in DOMAIN Policies :
                           PlanStatus(request, passes[Policies[i]].executed) = "ready" <=>
                             /\ AtGoal(request, passes[Policies[i]].executed)
                             /\ ~ AtGoal(request, none)
                      /\ PlanStatus(request, passes[Policies[1]].executed) # "ready"
                           /\ ~ AtGoal(request, none) =>
                             \A e \in Allowed(request, "cheapest") : ~ AtGoal(request, e)
    BY Zenon DEF GoalTruth
  <2>1. PICK r \in Requests : r = request
    BY DEF PlanInv
  <2>2. \A i \in DOMAIN Policies :
          /\ Policies[i] \in PassNames
          /\ Policies[i] \in Earlier["preserve_cards"] \union {"preserve_cards"}
    BY DEF Policies, PassNames, Earlier
  <2>3. \A i \in DOMAIN Policies : Got(r, passes, Policies[i])
    <3>1. "preserve_cards" \in PassNames
      BY DEF PassNames
    <3> QED BY <2>1, <2>2, <3>1 DEF PlanInv, Finished
  <2>4. ASSUME NEW i \in DOMAIN Policies
        PROVE  PlanStatus(r, passes[Policies[i]].executed) = "ready" <=>
                 AtGoal(r, passes[Policies[i]].executed) /\ ~ AtGoal(r, none)
    <3>1. passes[Policies[i]].executed \in Selections(r, Policies[i])
      BY <2>3 DEF Got, Result, Within
    <3> QED BY <2>1, <2>2, <3>1, ReadyIs
  <2>5. 1 \in DOMAIN Policies /\ Policies[1] = "cheapest"
    BY DEF Policies
  <2>6. PICK e, s : e = passes["cheapest"].executed /\ Result(r, "cheapest", e, s)
    BY <2>3, <2>5 DEF Got
  <2>7. ASSUME PlanStatus(r, e) # "ready", ~ AtGoal(r, none), NEW f \in Allowed(r, "cheapest"),
               AtGoal(r, f)
        PROVE  FALSE
    <3>1. AtGoal(r, e)
      BY <2>1, <2>6, <2>7, CheapestReaches
    <3>2. PlanStatus(r, e) = "ready"
      BY <2>4, <2>5, <2>6, <2>7, <3>1
    <3> QED BY <2>7, <3>2
  <2> QED BY <2>1, <2>4, <2>5, <2>6, <2>7
<1> QED
  BY <1>1, PassesAgree, PTL
-----------------------------------------------------------------------------
(***************************************************************************)
(* Sort keys.                                                              *)
(***************************************************************************)

\* The order of keys with n numbers.
LEMMA KeysOrder ==
    ASSUME NEW n \in Nat, NEW a \in [1..n -> Int], NEW b \in [1..n -> Int],
           NEW c \in [1..n -> Int]
    PROVE  /\ ~ Before(a, a)
           /\ Before(a, b) /\ Before(b, c) => Before(a, c)
           /\ a # b => Before(a, b) \/ Before(b, a)
<1>1. ~ Before(a, a)
  BY DEF Before
<1>2. ASSUME Before(a, b), Before(b, c) PROVE Before(a, c)
  <2>1. PICK i \in 1..n : a[i] < b[i] /\ \A j \in 1..i - 1 : a[j] = b[j]
    BY <1>2 DEF Before
  <2>2. PICK k \in 1..n : b[k] < c[k] /\ \A j \in 1..k - 1 : b[j] = c[j]
    BY <1>2 DEF Before
  <2>3. CASE i < k
    <3>1. i \in 1..k - 1
      BY <2>3
    <3>2. a[i] < c[i]
      BY <2>1, <2>2, <3>1
    <3>3. \A j \in 1..i - 1 : a[j] = c[j]
      BY <2>1, <2>2, <2>3
    <3> QED BY <3>2, <3>3 DEF Before
  <2>4. CASE k < i
    <3>1. k \in 1..i - 1
      BY <2>4
    <3>2. a[k] < c[k]
      BY <2>1, <2>2, <3>1
    <3>3. \A j \in 1..k - 1 : a[j] = c[j]
      BY <2>1, <2>2, <2>4
    <3> QED BY <3>2, <3>3 DEF Before
  <2>5. CASE i = k
    <3>1. a[i] \in Int /\ b[i] \in Int /\ c[i] \in Int
      OBVIOUS
    <3>2. a[i] < c[i]
      BY <2>1, <2>2, <2>5, <3>1
    <3>3. \A j \in 1..i - 1 : a[j] = c[j]
      BY <2>1, <2>2, <2>5
    <3> QED BY <3>2, <3>3 DEF Before
  <2> QED BY <2>3, <2>4, <2>5
<1>3. ASSUME a # b PROVE Before(a, b) \/ Before(b, a)
  <2>1. PICK T : T = {i \in 1..n : a[i] # b[i]}
    OBVIOUS
  <2>2. T \subseteq Nat /\ T # {}
    <3>1. a = [i \in 1..n |-> a[i]] /\ b = [i \in 1..n |-> b[i]]
      OBVIOUS
    <3>2. \E i \in 1..n : a[i] # b[i]
      BY <1>3, <3>1
    <3>3. PICK i \in 1..n : a[i] # b[i]
      BY <3>2
    <3>4. i \in T
      BY <2>1, <3>3
    <3>5. \A j \in T : j \in 1..n
      BY <2>1
    <3>6. \A j \in T : j \in Nat
      BY <3>5
    <3> QED BY <3>4, <3>6
  <2>3. PICK i \in T : \A j \in T : i <= j
    BY <2>2, LeastNat
  <2>4. i \in 1..n /\ a[i] # b[i]
    BY <2>1, <2>3
  <2>5. \A j \in 1..i - 1 : a[j] = b[j]
    BY <2>1, <2>3, <2>4
  <2>6. a[i] < b[i] \/ b[i] < a[i]
    <3>1. a[i] \in Int /\ b[i] \in Int
      BY <2>4
    <3> QED BY <2>4, <3>1
  <2> QED BY <2>4, <2>5, <2>6 DEF Before
<1> QED
  BY <1>1, <1>2, <1>3

\* What goes before has not the larger first number.
LEMMA FirstNumber ==
    ASSUME NEW n \in Nat, n > 0, NEW a \in [1..n -> Int], NEW b \in [1..n -> Int],
           Before(a, b)
    PROVE  a[1] <= b[1]
<1>1. PICK i \in 1..n : a[i] < b[i] /\ \A j \in 1..i - 1 : a[j] = b[j]
  BY DEF Before
<1>2. a[1] \in Int /\ b[1] \in Int
  OBVIOUS
<1>3. CASE i = 1
  BY <1>1, <1>2, <1>3
<1>4. CASE i # 1
  <2>1. 1 \in 1..i - 1
    BY <1>4
  <2> QED BY <1>1, <1>2, <2>1
<1> QED
  BY <1>3, <1>4

\* Keys that tell the elements of a set apart put them in a row.
LEMMA KeyOrders ==
    ASSUME NEW S, NEW n \in Nat, NEW K \in [S -> [1..n -> Int]],
           \A x, y \in S : K[x] = K[y] => x = y,
           NEW R, \A x, y \in S : <<x, y>> \in R <=> Before(K[x], K[y])
    PROVE  Orders(R, S)
<1>1. \A x \in S : K[x] \in [1..n -> Int]
  OBVIOUS
<1>2. \A x \in S : <<x, x>> \notin R
  BY <1>1, KeysOrder
<1>3. ASSUME NEW x \in S, NEW y \in S, NEW z \in S, <<x, y>> \in R, <<y, z>> \in R
      PROVE  <<x, z>> \in R
  <2>1. Before(K[x], K[y]) /\ Before(K[y], K[z])
    BY <1>3
  <2>2. Before(K[x], K[z])
    BY <1>1, <2>1, KeysOrder
  <2> QED BY <2>2
<1>4. ASSUME NEW x \in S, NEW y \in S, x # y PROVE <<x, y>> \in R \/ <<y, x>> \in R
  <2>1. K[x] # K[y]
    BY <1>4
  <2>2. Before(K[x], K[y]) \/ Before(K[y], K[x])
    BY <1>1, <2>1, KeysOrder
  <2> QED BY <2>2
<1> QED
  BY <1>2, <1>3, <1>4 DEF Orders

-----------------------------------------------------------------------------
(***************************************************************************)
(* Sources and destinations of the level-up optimizer.                     *)
(***************************************************************************)

\* The arguments of optimize_level_up.
LEMMA ProblemIs ==
    ASSUME NEW p \in Problems
    PROVE  /\ p.level \in [Games -> 0..5]
           /\ p.owned \in [Cards -> Nat] /\ p.sellable \in [Cards -> Nat]
           /\ p.bid \in [Cards -> Side] /\ p.ask \in [Cards -> Side]
           /\ p.inventoryAge \in Int /\ p.catalogAge \in Int /\ p.xp \in Nat
<1>1. p \in Problem
  BY BoundsAssumption
<1> QED
  BY <1>1 DEF Problem

\* A card is in the set of one game.
LEMMA CardIs ==
    ASSUME NEW card \in Cards
    PROVE  /\ card \in Nat /\ card # None
           /\ GameOf(card) \in Games /\ card \in CardsOf[GameOf(card)]
           /\ \A g \in Games : card \in CardsOf[g] => GameOf(card) = g
<1>1. PICK g \in Games : card \in CardsOf[g]
  BY DEF Cards
<1>2. CardsOf \in [Games -> SUBSET Nat]
  BY CatalogAssumption
<1>3. card \in Nat
  BY <1>1, <1>2
<1>4. GameOf(card) \in Games /\ card \in CardsOf[GameOf(card)]
  BY <1>1 DEF GameOf
<1>5. \A h \in Games : card \in CardsOf[h] => GameOf(card) = h
  BY <1>4, CatalogAssumption
<1>6. card # None
  BY <1>3, FeesAssumption
<1> QED
  BY <1>3, <1>4, <1>5, <1>6

\* The set of a game is not empty, and its cards are cards of that game only.
LEMMA SetIs ==
    ASSUME NEW g \in Games
    PROVE  /\ CardsOf[g] \subseteq Cards /\ IsFiniteSet(CardsOf[g]) /\ CardsOf[g] # {}
           /\ \A card \in CardsOf[g] : GameOf(card) = g
           /\ g \in Nat
<1>1. CardsOf[g] \subseteq Cards
  BY DEF Cards
<1>2. IsFiniteSet(CardsOf[g])
  BY <1>1, CatalogAssumption, FS_Subset
<1>3. CardsOf[g] # {}
  <2>1. Cardinality(CardsOf[g]) \in 5..15
    BY CatalogAssumption
  <2>2. ~ (0 \in 5..15)
    OBVIOUS
  <2>3. Cardinality(CardsOf[g]) # 0
    BY <2>1, <2>2
  <2> QED BY <2>3, FS_EmptySet
<1>4. \A card \in CardsOf[g] : GameOf(card) = g
  BY <1>1, CardIs
<1>5. g \in Nat
  BY CatalogAssumption
<1> QED
  BY <1>1, <1>2, <1>3, <1>4, <1>5

\* A side that can be used has a price and an age in the window.
LEMMA SideIs ==
    ASSUME NEW side \in Side, SideQuote(side) # None
    PROVE  /\ SideQuote(side) = side /\ side # None
           /\ side.price \in Nat /\ side.age \in 0..QuoteWindow /\ side.age \in Int
<1>1. side # None /\ side.age \in 0..QuoteWindow /\ SideQuote(side) = side
  BY DEF SideQuote
<1>2. side \in Quote
  BY <1>1 DEF Side
<1>3. side.price \in Nat /\ side.age \in Int
  BY <1>2 DEF Quote
<1> QED
  BY <1>1, <1>3

\* The bounds of a request are positive numbers.
LEMMA WindowIs ==
    QuoteWindow \in Nat /\ InventoryWindow \in Nat /\ MaxDestinations \in Nat
      /\ MaxAlternatives \in Nat /\ MaxDestinations > 0 /\ MaxAlternatives > 0
<1>1. /\ QuoteWindow \in Nat \ {0} /\ InventoryWindow \in Nat \ {0}
      /\ MaxDestinations \in Nat \ {0} /\ MaxAlternatives \in Nat \ {0}
  BY CatalogAssumption, BoundsAssumption
<1> QED
  BY <1>1

\* A receipt is a number of minor units.
LEMMA ReceiptType ==
    ASSUME NEW t, NEW c, SellerReceipt(t, c) # None
    PROVE  SellerReceipt(t, c) \in Nat
<1>1. t \in 0..MaxMinorUnits /\ \E r \in 0..t : RawTotal(r, c) = t
  BY DEF SellerReceipt
<1>2. SellerReceipt(t, c) = CHOOSE r \in 0..t : RawTotal(r, c) = t
  BY <1>1 DEF SellerReceipt
<1>3. SellerReceipt(t, c) \in 0..t
  BY <1>1, <1>2
<1>4. t \in Nat
  BY <1>1, FeesAssumption
<1> QED
  BY <1>3, <1>4

\* A source is a card with a usable bid and a receipt.
LEMMA SourceIs ==
    ASSUME NEW p \in Problems, NEW source \in Sources(p)
    PROVE  /\ source \in Cards /\ Receipt(p, source) \in Nat
           /\ p.bid[source].age \in 0..QuoteWindow /\ p.bid[source].age \in Int
           /\ GameOf(source) \in Games
<1>1. source \in Cards /\ Receipt(p, source) # None
  BY DEF Sources
<1>2. PICK bid : bid = SideQuote(p.bid[source])
  OBVIOUS
<1>3. bid # None /\ Receipt(p, source) = SellerReceipt(bid.price, FeeContract)
  BY <1>1, <1>2 DEF Receipt
<1>4. Receipt(p, source) \in Nat
  BY <1>1, <1>3, ReceiptType
<1>5. p.bid[source] \in Side
  BY <1>1, ProblemIs
<1>6. p.bid[source].age \in 0..QuoteWindow /\ p.bid[source].age \in Int
  BY <1>2, <1>3, <1>5, SideIs
<1> QED
  BY <1>1, <1>4, <1>6, CardIs

\* What is held before and after a sale.
LEMMA LeftIs ==
    ASSUME NEW p \in Problems, NEW source \in Cards, NEW card \in Cards
    PROVE  /\ Left(p, None)[card] = p.owned[card]
           /\ p.owned[card] \in Nat
           /\ card # source => Left(p, source)[card] = p.owned[card]
           /\ Left(p, source)[source] = IF p.owned[source] < 1 THEN 0 ELSE p.owned[source] - 1
           /\ Left(p, source)[card] \in Nat /\ Left(p, source)[card] <= p.owned[card]
<1>1. \A c \in Cards : p.owned[c] \in Nat
  BY ProblemIs
<1>2. card # None
  BY CardIs
<1>3. Left(p, None)[card] = p.owned[card]
  BY <1>2 DEF Left
<1>4. card # source => Left(p, source)[card] = p.owned[card]
  BY DEF Left
<1>5. Left(p, source)[source] = IF p.owned[source] < 1 THEN 0 ELSE p.owned[source] - 1
  <2>1. Left(p, source)[source] = AtLeast(p.owned[source] - 1, 0)
    BY DEF Left
  <2> QED BY <1>1, <2>1 DEF AtLeast
<1>6. Left(p, source)[card] \in Nat /\ Left(p, source)[card] <= p.owned[card]
  <2>1. CASE card = source
    BY <1>1, <1>5, <2>1
  <2>2. CASE card # source
    BY <1>1, <1>4, <2>2
  <2> QED BY <2>1, <2>2
<1> QED
  BY <1>1, <1>3, <1>4, <1>5, <1>6

\* The cards of a game that are missing after a sale.
Gone(p, source, g) == {card \in CardsOf[g] : Left(p, source)[card] = 0}

\* The games of which a badge can be completed, and how.
Offered(p, source, g) ==
    /\ p.level[g] < 5
    /\ Gone(p, source, g) # {}
    /\ \A card \in Gone(p, source, g) : SideQuote(p.ask[card]) # None

\* The badge as it is offered: the missing cards, their cost and their oldest quote.
OfferOf(p, source, g) ==
    [game |-> g, rows |-> Gone(p, source, g),
     cost |-> SumFunction([card \in Gone(p, source, g) |-> p.ask[card].price]),
     oldest |-> Max({p.ask[card].age : card \in Gone(p, source, g)})]

\* A source's destination in a game, whether or not the sale takes its last copy.
LEMMA DestinationIs ==
    ASSUME NEW p \in Problems, NEW source \in Sources(p), NEW g \in Games
    PROVE  Destination(p, g, IF g = GameOf(source) /\ p.owned[source] = 1 THEN source ELSE None)
             = IF Offered(p, source, g) THEN OfferOf(p, source, g) ELSE None
<1>1. source \in Cards
  BY SourceIs
<1>2. PICK sold : sold = IF g = GameOf(source) /\ p.owned[source] = 1 THEN source ELSE None
  OBVIOUS
<1>3. {card \in CardsOf[g] : Left(p, sold)[card] = 0} = Gone(p, source, g)
  <2>1. ASSUME NEW card \in CardsOf[g]
        PROVE  Left(p, sold)[card] = 0 <=> Left(p, source)[card] = 0
    <3>1. card \in Cards /\ GameOf(card) = g
      BY SetIs
    <3>2. CASE sold = source
      BY <3>2
    <3>3. CASE sold # source
      <4>1. sold = None /\ ~ (g = GameOf(source) /\ p.owned[source] = 1)
        BY <1>2, <3>3
      <4>2. Left(p, sold)[card] = p.owned[card] /\ p.owned[card] \in Nat
        BY <1>1, <3>1, <4>1, LeftIs
      <4>3. CASE card # source
        BY <1>1, <3>1, <4>2, <4>3, LeftIs
      <4>4. CASE card = source
        <5>1. p.owned[card] # 1
          BY <3>1, <4>1, <4>4
        <5>2. Left(p, source)[card] = IF p.owned[card] < 1 THEN 0 ELSE p.owned[card] - 1
          BY <1>1, <4>4, LeftIs
        <5> QED BY <4>2, <5>1, <5>2
      <4> QED BY <4>3, <4>4
    <3> QED BY <3>2, <3>3
  <2> QED BY <2>1 DEF Gone
<1>4. p.level[g] \in Int
  BY ProblemIs
<1>5. p.level[g] >= 5 <=> ~ (p.level[g] < 5)
  BY <1>4
<1>6. Destination(p, g, sold) = IF Offered(p, source, g) THEN OfferOf(p, source, g) ELSE None
  BY <1>3, <1>5, Zenon DEF Destination, Offered, OfferOf
<1> QED
  BY <1>2, <1>6

\* The prices of all cards, as a function to sum over.
Asks(p) == [card \in Cards |-> p.ask[card].price]

\* And the costs of all offers.
Costs == [d \in Offer |-> d.cost]

\* Missing cards are finitely many cards of the game.
LEMMA GoneIs ==
    ASSUME NEW p \in Problems, NEW source \in Sources(p), NEW g \in Games
    PROVE  /\ Gone(p, source, g) \subseteq CardsOf[g] /\ Gone(p, source, g) \subseteq Cards
           /\ IsFiniteSet(Gone(p, source, g)) /\ Cardinality(Gone(p, source, g)) \in Nat
<1>1. Gone(p, source, g) \subseteq CardsOf[g]
  BY DEF Gone
<1>2. IsFiniteSet(Gone(p, source, g))
  BY <1>1, SetIs, FS_Subset
<1> QED
  BY <1>1, <1>2, SetIs, FS_CardinalityType

\* Quotes that can be used have a sum of prices and an oldest one.
LEMMA QuotesAre ==
    ASSUME NEW p \in Problems, NEW S \in SUBSET Cards, NEW sides \in [Cards -> Side],
           \A card \in S : SideQuote(sides[card]) # None
    PROVE  /\ IsFiniteSet(S)
           /\ \A card \in S : /\ sides[card].price \in Nat
                              /\ sides[card].age \in 0..QuoteWindow
                              /\ sides[card].age \in Int
           /\ SumFunction([card \in S |-> sides[card].price]) \in Nat
           /\ SumFunction([card \in S |-> sides[card].price])
                = SumFunctionOnSet([card \in Cards |-> sides[card].price], S)
           /\ S # {} => /\ Max({sides[card].age : card \in S}) \in 0..QuoteWindow
                        /\ Max({sides[card].age : card \in S}) \in {sides[card].age : card \in S}
                        /\ \A card \in S : sides[card].age <= Max({sides[c].age : c \in S})
<1>1. IsFiniteSet(S)
  BY CatalogAssumption, FS_Subset
<1>2. \A card \in S : /\ sides[card].price \in Nat
                      /\ sides[card].age \in 0..QuoteWindow
                      /\ sides[card].age \in Int
  BY SideIs
<1>3. PICK f : f = [card \in S |-> sides[card].price]
  OBVIOUS
<1>4. PICK h : h = [card \in Cards |-> sides[card].price]
  OBVIOUS
<1>5. SumFunction(f) = SumFunctionOnSet(f, S)
  BY <1>3, Zenon DEF SumFunction
<1>6. \A card \in S : f[card] = h[card] /\ f[card] \in Nat
  BY <1>2, <1>3, <1>4
<1>7. SumFunctionOnSet(f, S) = SumFunctionOnSet(h, S) /\ SumFunctionOnSet(f, S) \in Nat
  BY <1>1, <1>6, SumSame, SumNat
<1>8. ASSUME S # {}
      PROVE  /\ Max({sides[card].age : card \in S}) \in 0..QuoteWindow
             /\ Max({sides[card].age : card \in S}) \in {sides[card].age : card \in S}
             /\ \A card \in S : sides[card].age <= Max({sides[c].age : c \in S})
  <2>1. PICK ages : ages = [card \in S |-> sides[card].age]
    OBVIOUS
  <2>2. PICK A : A = {ages[card] : card \in S}
    OBVIOUS
  <2>3. A = {sides[card].age : card \in S}
    BY <2>1, <2>2
  <2>4. IsFiniteSet(A)
    BY <1>1, <2>2, ImageIs
  <2>5. A \subseteq Int /\ A # {} /\ A \subseteq 0..QuoteWindow
    BY <1>2, <1>8, <2>3
  <2>6. Max(A) \in A /\ \A n \in A : n <= Max(A)
    BY <2>4, <2>5, MaxIs
  <2> QED BY <2>3, <2>5, <2>6
<1> QED
  BY <1>1, <1>2, <1>3, <1>4, <1>5, <1>7, <1>8

\* A destination that is offered.
LEMMA OfferIs ==
    ASSUME NEW p \in Problems, NEW source \in Sources(p), NEW g \in Games, Offered(p, source, g),
           NEW d, d = OfferOf(p, source, g)
    PROVE  /\ d \in Offer /\ d # None
           /\ d.game = g /\ d.rows = Gone(p, source, g)
           /\ d.cost = SumFunctionOnSet(Asks(p), d.rows) /\ d.cost \in Nat
           /\ d.oldest \in 0..QuoteWindow /\ d.oldest \in Int
           /\ \A card \in d.rows : /\ p.ask[card].age \in Int
                                   /\ p.ask[card].age <= d.oldest
                                   /\ Asks(p)[card] \in Nat
<1>1. PICK S \in SUBSET Cards : S = Gone(p, source, g)
  BY GoneIs
<1>2. p.ask \in [Cards -> Side]
  BY ProblemIs
<1>3. S # {} /\ \A card \in S : SideQuote(p.ask[card]) # None
  BY <1>1 DEF Offered
<1>4. PICK sum, old : /\ sum = SumFunction([card \in S |-> p.ask[card].price])
                      /\ old = Max({p.ask[card].age : card \in S})
  OBVIOUS
<1>5. /\ \A card \in S : p.ask[card].price \in Nat /\ p.ask[card].age \in Int
      /\ sum \in Nat /\ sum = SumFunctionOnSet(Asks(p), S)
      /\ old \in 0..QuoteWindow
      /\ \A card \in S : p.ask[card].age <= old
  BY <1>2, <1>3, <1>4, QuotesAre DEF Asks
<1>6. d = [game |-> g, rows |-> S, cost |-> sum, oldest |-> old]
  BY <1>1, <1>4 DEF OfferOf
<1>7. old \in Int
  BY <1>5, WindowIs
<1>8. d \in Offer
  BY <1>5, <1>6, <1>7 DEF Offer
<1>9. d # None
  BY <1>8, BoundsAssumption
<1>10. \A card \in S : Asks(p)[card] \in Nat
  BY <1>5 DEF Asks
<1> QED
  BY <1>1, <1>5, <1>6, <1>7, <1>8, <1>9, <1>10

\* The destinations of a source are one offer of each game that has one.
LEMMA DestinationsAre ==
    ASSUME NEW p \in Problems, NEW source \in Sources(p)
    PROVE  /\ \A g \in Games : Offered(p, source, g) => OfferOf(p, source, g) \in Destinations(p, source)
           /\ \A d \in Destinations(p, source) :
                /\ d.game \in Games /\ Offered(p, source, d.game) /\ d = OfferOf(p, source, d.game)
           /\ IsFiniteSet(Destinations(p, source))
<1> DEFINE Sold(g) == IF g = GameOf(source) /\ p.owned[source] = 1 THEN source ELSE None
<1>1. Destinations(p, source) = {Destination(p, g, Sold(g)) : g \in Games} \ {None}
  BY DEF Destinations
<1>2. PICK D : D = [g \in Games |-> IF Offered(p, source, g) THEN OfferOf(p, source, g) ELSE None]
  OBVIOUS
<1>3. \A g \in Games : Destination(p, g, Sold(g)) = D[g]
  BY <1>2, DestinationIs
<1>4. Destinations(p, source) = {D[g] : g \in Games} \ {None}
  <2> HIDE DEF Sold
  <2> QED BY <1>1, <1>3
<1>5. IsFiniteSet({D[g] : g \in Games})
  <2>1. IsFiniteSet(Games)
    BY CatalogAssumption
  <2> HIDE DEF Sold
  <2> QED BY <2>1, ImageIs
<1>6. IsFiniteSet(Destinations(p, source))
  BY <1>4, <1>5, FS_Subset
<1>7. ASSUME NEW g \in Games, Offered(p, source, g)
      PROVE  OfferOf(p, source, g) \in Destinations(p, source)
  <2>1. D[g] = OfferOf(p, source, g)
    BY <1>2, <1>7
  <2>2. D[g] # None
    BY <1>7, <2>1, OfferIs
  <2> QED BY <1>4, <2>1, <2>2
<1>8. ASSUME NEW d \in Destinations(p, source)
      PROVE  d.game \in Games /\ Offered(p, source, d.game) /\ d = OfferOf(p, source, d.game)
  <2>1. PICK g \in Games : d = D[g] /\ d # None
    BY <1>4
  <2>2. Offered(p, source, g) /\ d = OfferOf(p, source, g)
    BY <1>2, <2>1
  <2>3. d.game = g
    BY <2>2, OfferIs
  <2> QED BY <2>2, <2>3
<1> QED
  BY <1>6, <1>7, <1>8

\* The fields of one destination of a source.
LEMMA MemberIs ==
    ASSUME NEW p \in Problems, NEW source \in Sources(p), NEW d \in Destinations(p, source)
    PROVE  /\ d \in Offer /\ d.game \in Games /\ d.rows = Gone(p, source, d.game)
           /\ Offered(p, source, d.game) /\ d = OfferOf(p, source, d.game)
           /\ d.cost = SumFunctionOnSet(Asks(p), d.rows) /\ d.cost \in Nat /\ Costs[d] = d.cost
           /\ d.oldest \in 0..QuoteWindow /\ d.oldest \in Int
           /\ IsFiniteSet(d.rows) /\ Cardinality(d.rows) \in Nat
           /\ \A card \in d.rows : /\ p.ask[card].age \in Int /\ p.ask[card].age <= d.oldest
                                   /\ Asks(p)[card] \in Nat
<1>1. d.game \in Games /\ Offered(p, source, d.game) /\ d = OfferOf(p, source, d.game)
  BY DestinationsAre
<1>2. PICK g \in Games : g = d.game
  BY <1>1
<1>3. /\ d \in Offer /\ d.rows = Gone(p, source, g)
      /\ d.cost = SumFunctionOnSet(Asks(p), d.rows) /\ d.cost \in Nat
      /\ d.oldest \in 0..QuoteWindow /\ d.oldest \in Int
      /\ \A card \in d.rows : /\ p.ask[card].age \in Int /\ p.ask[card].age <= d.oldest
                              /\ Asks(p)[card] \in Nat
  BY <1>1, <1>2, OfferIs
<1>4. IsFiniteSet(d.rows) /\ Cardinality(d.rows) \in Nat
  BY <1>2, <1>3, GoneIs
<1>5. Costs[d] = d.cost
  BY <1>3 DEF Costs
<1> QED
  BY <1>1, <1>2, <1>3, <1>4, <1>5

-----------------------------------------------------------------------------
(***************************************************************************)
(* The orders of destinations, and the choice that the receipt pays for.   *)
(***************************************************************************)

\* The orders that the two keys put on destinations: by cost, age, size and game,
ByAge(D) == {e \in D \X D : Before(SortKey(e[1]), SortKey(e[2]))}

\* and by cost and game.
ByCost(D) == {e \in D \X D : Before(AlternativeKey(e[1]), AlternativeKey(e[2]))}

\* Tuples of integers are keys.
LEMMA KeyTwo ==
    ASSUME NEW a \in Int, NEW b \in Int
    PROVE  <<a, b>> \in [1..2 -> Int]
<1>1. 1..2 = {1, 2}
  OBVIOUS
<1> QED
  BY <1>1

\* Of four.
LEMMA KeyFour ==
    ASSUME NEW a \in Int, NEW b \in Int, NEW c \in Int, NEW d \in Int
    PROVE  <<a, b, c, d>> \in [1..4 -> Int]
<1>1. 1..4 = {1, 2, 3, 4}
  OBVIOUS
<1> QED
  BY <1>1

\* Of five.
LEMMA KeyFive ==
    ASSUME NEW a \in Int, NEW b \in Int, NEW c \in Int, NEW d \in Int, NEW e \in Int
    PROVE  <<a, b, c, d, e>> \in [1..5 -> Int]
<1>1. 1..5 = {1, 2, 3, 4, 5}
  OBVIOUS
<1> QED
  BY <1>1

\* Of seven.
LEMMA KeySeven ==
    ASSUME NEW a \in Int, NEW b \in Int, NEW c \in Int, NEW d \in Int, NEW e \in Int,
           NEW f \in Int, NEW g \in Int
    PROVE  <<a, b, c, d, e, f, g>> \in [1..7 -> Int]
<1>1. 1..7 = {1, 2, 3, 4, 5, 6, 7}
  OBVIOUS
<1> QED
  BY <1>1

\* Both orders put the destinations of a source in a row, the cheaper ones first.
LEMMA DestinationsOrdered ==
    ASSUME NEW p \in Problems, NEW source \in Sources(p), NEW D \in SUBSET Destinations(p, source)
    PROVE  /\ IsFiniteSet(D)
           /\ Orders(ByAge(D), D) /\ Orders(ByCost(D), D)
           /\ \A d, e \in D : <<d, e>> \in ByAge(D) => d.cost <= e.cost
           /\ \A d, e \in D : d.game = e.game => d = e
<1>1. IsFiniteSet(D)
  BY DestinationsAre, FS_Subset
<1>2. ASSUME NEW d \in D
      PROVE  /\ d.cost \in Int /\ d.oldest \in Int /\ Cardinality(d.rows) \in Int
             /\ d.game \in Int /\ d = OfferOf(p, source, d.game)
  <2>1. d \in Destinations(p, source)
    OBVIOUS
  <2>2. d.game \in Nat
    BY <2>1, MemberIs, SetIs
  <2> QED BY <2>1, <2>2, MemberIs
<1>3. ASSUME NEW d \in D, NEW e \in D, d.game = e.game PROVE d = e
  BY <1>2, <1>3
<1>4. PICK K : K = [d \in D |-> SortKey(d)]
  OBVIOUS
<1>5. PICK L : L = [d \in D |-> AlternativeKey(d)]
  OBVIOUS
<1>6. ASSUME NEW d \in D
      PROVE  /\ K[d] \in [1..4 -> Int] /\ K[d][4] = d.game /\ K[d][1] = d.cost
             /\ L[d] \in [1..2 -> Int] /\ L[d][2] = d.game
  <2>1. K[d] = <<d.cost, d.oldest, Cardinality(d.rows), d.game>>
    BY <1>4 DEF SortKey
  <2>2. L[d] = <<d.cost, d.game>>
    BY <1>5 DEF AlternativeKey
  <2> QED BY <1>2, <2>1, <2>2, KeyFour, KeyTwo
<1>7. K \in [D -> [1..4 -> Int]] /\ L \in [D -> [1..2 -> Int]]
  BY <1>4, <1>5, <1>6
<1>8. \A d, e \in D : (K[d] = K[e] => d = e) /\ (L[d] = L[e] => d = e)
  BY <1>3, <1>6
<1>9. /\ \A d, e \in D : <<d, e>> \in ByAge(D) <=> Before(K[d], K[e])
      /\ \A d, e \in D : <<d, e>> \in ByCost(D) <=> Before(L[d], L[e])
  BY <1>4, <1>5 DEF ByAge, ByCost
<1>10. Orders(ByAge(D), D) /\ Orders(ByCost(D), D)
  BY <1>7, <1>8, <1>9, KeyOrders
<1>11. ASSUME NEW d \in D, NEW e \in D, <<d, e>> \in ByAge(D) PROVE d.cost <= e.cost
  <2>1. Before(K[d], K[e])
    BY <1>9, <1>11
  <2>2. PICK a \in [1..4 -> Int], b \in [1..4 -> Int] : a = K[d] /\ b = K[e]
    BY <1>6
  <2>3. Before(a, b)
    BY <2>1, <2>2
  <2>4. 4 \in Nat /\ 4 > 0
    OBVIOUS
  <2>5. a[1] <= b[1]
    BY <2>3, <2>4, FirstNumber
  <2> QED BY <1>6, <2>2, <2>5
<1> QED
  BY <1>1, <1>3, <1>10, <1>11

\* The prefixes are the first of these orders.
LEMMA PrefixIs ==
    ASSUME NEW D, NEW n
    PROVE  /\ Prefix(n, D) = FirstOf(n, D, ByAge(D))
           /\ FallbackPrefix(n, D) = FirstOf(n, D, ByCost(D))
<1>1. \A d \in D : {e \in D : <<e, d>> \in ByAge(D)} = {e \in D : Before(SortKey(e), SortKey(d))}
  BY DEF ByAge
<1>2. \A d \in D : {e \in D : <<e, d>> \in ByCost(D)}
                     = {e \in D : Before(AlternativeKey(e), AlternativeKey(d))}
  BY DEF ByCost
<1> QED
  BY <1>1, <1>2 DEF Prefix, FallbackPrefix, First, FirstOf

\* A prefix has n destinations, or all, and no cheaper one is left out.
LEMMA PrefixFacts ==
    ASSUME NEW p \in Problems, NEW source \in Sources(p),
           NEW D \in SUBSET Destinations(p, source), NEW n \in Nat
    PROVE  /\ Prefix(n, D) \subseteq D /\ IsFiniteSet(Prefix(n, D))
           /\ Cardinality(D) \in Nat
           /\ Cardinality(Prefix(n, D)) = IF n < Cardinality(D) THEN n ELSE Cardinality(D)
           /\ \A x \in Prefix(n, D), y \in D \ Prefix(n, D) :
                <<x, y>> \in ByAge(D) /\ x.cost <= y.cost
<1>1. IsFiniteSet(D) /\ Orders(ByAge(D), D)
  BY DestinationsOrdered
<1>2. PICK P : P = Prefix(n, D) /\ P = FirstOf(n, D, ByAge(D))
  BY PrefixIs
<1>3. P \subseteq D
  BY <1>2 DEF FirstOf
<1>4. IsFiniteSet(P) /\ Cardinality(D) \in Nat
  BY <1>1, <1>3, FS_Subset, FS_CardinalityType
<1>5. Cardinality(P) = IF n < Cardinality(D) THEN n ELSE Cardinality(D)
  BY <1>1, <1>2, FirstSize
<1>6. ASSUME NEW x \in P, NEW y \in D \ P PROVE <<x, y>> \in ByAge(D) /\ x.cost <= y.cost
  <2>1. <<x, y>> \in ByAge(D) /\ x \in D
    BY <1>1, <1>2, FirstAhead
  <2> QED BY <2>1, DestinationsOrdered
<1> QED
  BY <1>2, <1>3, <1>4, <1>5, <1>6

\* What a set of destinations costs.
LEMMA CostOfIs ==
    ASSUME NEW p \in Problems, NEW source \in Sources(p), NEW S \in SUBSET Destinations(p, source)
    PROVE  /\ IsFiniteSet(S) /\ Cost(S) = SumFunctionOnSet(Costs, S) /\ Cost(S) \in Nat
           /\ \A T \in SUBSET S : Cost(T) \in Nat /\ Cost(T) <= Cost(S)
<1>1. IsFiniteSet(S)
  BY DestinationsOrdered
<1>2. \A d \in S : d.cost \in Nat /\ Costs[d] = d.cost
  BY MemberIs
<1>3. ASSUME NEW T \in SUBSET S PROVE Cost(T) = SumFunctionOnSet(Costs, T)
  <2>1. PICK f : f = [d \in T |-> d.cost]
    OBVIOUS
  <2>2. Cost(T) = SumFunctionOnSet(f, T)
    BY <2>1, Zenon DEF Cost, SumFunction
  <2>3. \A d \in T : f[d] = Costs[d]
    BY <1>2, <2>1
  <2>4. IsFiniteSet(T)
    BY <1>1, FS_Subset
  <2>5. SumFunctionOnSet(f, T) = SumFunctionOnSet(Costs, T)
    BY <2>3, <2>4, SumSame
  <2> QED BY <2>2, <2>5
<1>4. ASSUME NEW T \in SUBSET S PROVE Cost(T) \in Nat /\ Cost(T) <= Cost(S)
  <2>1. IsFiniteSet(T) /\ \A d \in S : Costs[d] \in Nat
    BY <1>1, <1>2, FS_Subset
  <2>2. SumFunctionOnSet(Costs, T) \in Nat
    BY <2>1, SumNat
  <2>3. SumFunctionOnSet(Costs, T) <= SumFunctionOnSet(Costs, S)
    BY <1>1, <2>1, SumGrows
  <2> QED BY <1>3, <2>2, <2>3
<1> QED
  BY <1>1, <1>3, <1>4

\* The destinations up to one of them.
UpTo(options, d) == {e \in options : ~ Before(SortKey(d), SortKey(e))}

\* The receipt pays for all that is selected, and for no shorter list only.
LEMMA SelectedIs ==
    ASSUME NEW p \in Problems, NEW source \in Sources(p),
           NEW O \in SUBSET Destinations(p, source), NEW r \in Nat
    PROVE  /\ Select(O, r) \subseteq O /\ IsFiniteSet(Select(O, r))
           /\ Cardinality(Select(O, r)) \in Nat /\ Cardinality(Select(O, r)) <= MaxDestinations
           /\ Cost(Select(O, r)) \in Nat /\ Cost(Select(O, r)) <= r
           /\ \A m \in Nat : m <= MaxDestinations /\ Cost(Prefix(m, O)) <= r
                               => Prefix(m, O) \subseteq Select(O, r)
<1> USE WindowIs
<1>1. PICK W : W = Select(O, r)
  OBVIOUS
<1>2. W = {d \in Prefix(MaxDestinations, O) : Cost(UpTo(O, d)) <= r}
  BY <1>1 DEF Select, UpTo
<1>3. IsFiniteSet(O) /\ Orders(ByAge(O), O)
  BY DestinationsOrdered
<1>4. /\ Prefix(MaxDestinations, O) \subseteq O /\ IsFiniteSet(Prefix(MaxDestinations, O))
      /\ Cardinality(Prefix(MaxDestinations, O)) <= MaxDestinations
  <2>1. PICK k \in Nat : k = Cardinality(O)
    BY PrefixFacts
  <2>2. Cardinality(Prefix(MaxDestinations, O)) = IF MaxDestinations < k THEN MaxDestinations ELSE k
    BY <2>1, PrefixFacts
  <2>3. Cardinality(Prefix(MaxDestinations, O)) <= MaxDestinations
    BY <2>1, <2>2
  <2> QED BY <2>3, PrefixFacts
<1>5. W \subseteq O /\ IsFiniteSet(W) /\ Cardinality(W) \in Nat /\ Cardinality(W) <= MaxDestinations
  <2>1. W \in SUBSET Prefix(MaxDestinations, O)
    BY <1>2
  <2>2. /\ IsFiniteSet(W) /\ Cardinality(W) \in Nat
        /\ Cardinality(W) <= Cardinality(Prefix(MaxDestinations, O))
        /\ Cardinality(Prefix(MaxDestinations, O)) \in Nat
    BY <1>4, <2>1, FS_Subset, FS_CardinalityType
  <2> QED BY <1>4, <2>1, <2>2
<1>6. \A d, e \in O : <<d, e>> \in ByAge(O) <=> Before(SortKey(d), SortKey(e))
  BY DEF ByAge
<1>7. Cost(W) \in Nat /\ Cost(W) <= r
  <2>1. Cost(W) \in Nat
    BY <1>5, CostOfIs
  <2>2. CASE W = {}
    <3>1. Cost(W) = SumFunctionOnSet(Costs, {})
      BY <1>5, <2>2, CostOfIs
    <3> QED BY <2>1, <3>1, SumEmpty
  <2>3. CASE W # {}
    <3>1. Orders(ByAge(O), W)
      BY <1>3, <1>5, OrdersSubset
    <3>2. PICK m \in W : \A x \in W \ {m} : <<x, m>> \in ByAge(O)
      BY <1>5, <2>3, <3>1, LastExists
    <3>3. \A x \in W : <<m, x>> \notin ByAge(O)
      BY <3>1, <3>2 DEF Orders
    <3>4. W \subseteq UpTo(O, m)
      BY <1>5, <1>6, <3>3 DEF UpTo
    <3>5. UpTo(O, m) \in SUBSET Destinations(p, source)
      BY DEF UpTo
    <3>6. Cost(W) <= Cost(UpTo(O, m)) /\ Cost(UpTo(O, m)) \in Nat
      BY <3>4, <3>5, CostOfIs
    <3>7. Cost(UpTo(O, m)) <= r
      BY <1>2
    <3> QED BY <2>1, <3>6, <3>7
  <2> QED BY <2>2, <2>3
<1>8. ASSUME NEW m \in Nat, m <= MaxDestinations, Cost(Prefix(m, O)) <= r, NEW d \in Prefix(m, O)
      PROVE  d \in W
  <2>1. PICK P : P = Prefix(m, O)
    OBVIOUS
  <2>2. P \in SUBSET Destinations(p, source) /\ d \in O
    BY <2>1, PrefixFacts
  <2>3. UpTo(O, d) \subseteq P
    <3>1. ASSUME NEW e \in O, e \notin P PROVE Before(SortKey(d), SortKey(e))
      <4>1. <<d, e>> \in ByAge(O)
        BY <2>1, <3>1, PrefixFacts
      <4> QED BY <1>6, <2>2, <4>1
    <3> QED BY <3>1 DEF UpTo
  <2>4. Cost(UpTo(O, d)) \in Nat /\ Cost(UpTo(O, d)) <= Cost(P) /\ Cost(P) \in Nat
    BY <2>2, <2>3, CostOfIs
  <2>5. Cost(UpTo(O, d)) <= r
    BY <1>8, <2>1, <2>4
  <2>6. d \in Prefix(MaxDestinations, O)
    <3>1. d \in FirstOf(m, O, ByAge(O))
      BY PrefixIs
    <3>2. Cardinality({e \in O : <<e, d>> \in ByAge(O)}) < m
      BY <3>1 DEF FirstOf
    <3>3. IsFiniteSet({e \in O : <<e, d>> \in ByAge(O)})
      BY <1>3, FS_Subset
    <3>4. Cardinality({e \in O : <<e, d>> \in ByAge(O)}) \in Nat
      BY <3>3, FS_CardinalityType
    <3>5. Cardinality({e \in O : <<e, d>> \in ByAge(O)}) < MaxDestinations
      BY <1>8, <3>2, <3>4
    <3>6. d \in FirstOf(MaxDestinations, O, ByAge(O))
      BY <2>2, <3>5 DEF FirstOf
    <3> QED BY <3>6, PrefixIs
  <2> QED BY <1>2, <2>5, <2>6
<1> QED
  BY <1>1, <1>5, <1>7, <1>8

\* The first m of the first n destinations cost no more than any m destinations.
LEMMA PrefixCheapest ==
    ASSUME NEW p \in Problems, NEW source \in Sources(p), NEW n \in Nat,
           NEW T \in SUBSET Destinations(p, source), Cardinality(T) <= n
    PROVE  LET m == Cardinality(T)
               O == Prefix(n, Destinations(p, source))
           IN  /\ m \in Nat /\ Cardinality(Prefix(m, O)) = m /\ m <= Cardinality(O)
               /\ Cost(Prefix(m, O)) <= Cost(T)
<1>1. PICK D : D = Destinations(p, source)
  OBVIOUS
<1>2. PICK m \in Nat : m = Cardinality(T)
  BY <1>1, DestinationsAre, FS_Subset, FS_CardinalityType
<1>3. PICK k \in Nat : k = Cardinality(D) /\ m <= k
  BY <1>1, <1>2, DestinationsAre, FS_Subset, FS_CardinalityType
<1>4. PICK O : O = Prefix(n, D)
  OBVIOUS
<1>5. O \in SUBSET D /\ Cardinality(O) = (IF n < k THEN n ELSE k)
  BY <1>1, <1>3, <1>4, PrefixFacts
<1>6. m <= Cardinality(O) /\ Cardinality(O) \in Nat
  BY <1>2, <1>3, <1>5
<1>7. PICK P : P = Prefix(m, O)
  OBVIOUS
<1>8. P \subseteq O
  BY <1>1, <1>5, <1>7, PrefixFacts
<1>9. Cardinality(P) = m
  <2>1. Cardinality(P) = IF m < Cardinality(O) THEN m ELSE Cardinality(O)
    BY <1>1, <1>5, <1>7, PrefixFacts
  <2> QED BY <1>6, <2>1
<1>10. ASSUME NEW x \in P, NEW y \in D \ P PROVE Costs[x] <= Costs[y]
  <2>1. x.cost <= y.cost
    <3>1. CASE y \in O
      BY <1>1, <1>5, <1>7, <3>1, PrefixFacts
    <3>2. CASE y \notin O
      BY <1>1, <1>4, <1>8, <3>2, PrefixFacts
    <3> QED BY <3>1, <3>2
  <2>2. x \in D /\ y \in D
    BY <1>5, <1>8
  <2> QED BY <1>1, <2>1, <2>2, MemberIs
<1>11. \A x \in D : Costs[x] \in Int
  BY <1>1, MemberIs
<1>12. P \in SUBSET D /\ T \in SUBSET D /\ IsFiniteSet(D)
  BY <1>1, <1>5, <1>8, DestinationsAre
<1>13. Cardinality(P) = Cardinality(T)
  BY <1>2, <1>9
<1>14. SumFunctionOnSet(Costs, P) <= SumFunctionOnSet(Costs, T)
  BY <1>10, <1>11, <1>12, <1>13, CheapestSum
<1>15. Cost(P) <= Cost(T)
  BY <1>1, <1>12, <1>14, CostOfIs
<1> QED
  BY <1>1, <1>2, <1>4, <1>6, <1>7, <1>9, <1>15

-----------------------------------------------------------------------------
(***************************************************************************)
(* What a sale gives up, and what the badges bought with it bring.         *)
(***************************************************************************)

\* Crafts are bounded by the levels that are left and by each card.
LEMMA CraftIs ==
    ASSUME NEW p \in Problems, NEW g \in Games, NEW held, \A card \in CardsOf[g] : held[card] \in Nat
    PROVE  /\ Craftable(p, g, held) \in Nat /\ Craftable(p, g, held) <= 5 - p.level[g]
           /\ \A card \in CardsOf[g] : Craftable(p, g, held) <= held[card]
           /\ \/ Craftable(p, g, held) = 5 - p.level[g]
              \/ \E card \in CardsOf[g] : Craftable(p, g, held) = held[card]
<1>1. p.level[g] \in 0..5
  BY ProblemIs
<1>2. PICK S : S = {5 - p.level[g]} \union {held[card] : card \in CardsOf[g]}
  OBVIOUS
<1>3. S \subseteq Nat /\ S # {}
  <2>1. 5 - p.level[g] \in Nat
    BY <1>1
  <2> QED BY <1>2, <2>1
<1>4. Min(S) \in S /\ \A x \in S : Min(S) <= x
  BY <1>3, MinIs
<1>5. Craftable(p, g, held) = Min(S)
  BY <1>2 DEF Craftable
<1>6. Min(S) \in Nat
  BY <1>3, <1>4
<1> QED
  BY <1>2, <1>4, <1>5, <1>6

\* They depend on the cards of the game only.
LEMMA CraftSame ==
    ASSUME NEW p, NEW g, NEW held, NEW other, \A card \in CardsOf[g] : held[card] = other[card]
    PROVE  Craftable(p, g, held) = Craftable(p, g, other)
<1>1. {held[card] : card \in CardsOf[g]} = {other[card] : card \in CardsOf[g]}
  OBVIOUS
<1> QED
  BY <1>1 DEF Craftable

\* The badges that a sale gives up.
Lost(p, source) ==
    Craftable(p, GameOf(source), Left(p, None)) - Craftable(p, GameOf(source), Left(p, source))

\* A sale gives up crafts of its own game only, worth BadgeXp each.
LEMMA LostIs ==
    ASSUME NEW p \in Problems, NEW source \in Sources(p)
    PROVE  /\ Lost(p, source) \in Nat
           /\ Foregone(p, source) = Lost(p, source) * 100
           /\ Foregone(p, source) \in Nat
           /\ Foregone(p, source) \div BadgeXp + 1 = Lost(p, source) + 1
           /\ \A g \in Games : /\ Craftable(p, g, Left(p, None)) \in Nat
                               /\ Craftable(p, g, Left(p, source)) \in Nat
                               /\ g # GameOf(source) => Craftable(p, g, Left(p, None))
                                                          = Craftable(p, g, Left(p, source))
<1>1. source \in Cards /\ GameOf(source) \in Games
  BY SourceIs
<1>2. ASSUME NEW g \in Games
      PROVE  /\ \A card \in CardsOf[g] : /\ Left(p, None)[card] \in Nat
                                         /\ Left(p, source)[card] \in Nat
                                         /\ Left(p, source)[card] <= Left(p, None)[card]
             /\ Craftable(p, g, Left(p, None)) \in Nat
             /\ Craftable(p, g, Left(p, source)) \in Nat
             /\ Craftable(p, g, Left(p, source)) <= Craftable(p, g, Left(p, None))
  <2>1. ASSUME NEW card \in CardsOf[g]
        PROVE  /\ Left(p, None)[card] \in Nat /\ Left(p, source)[card] \in Nat
               /\ Left(p, source)[card] <= Left(p, None)[card]
    <3>1. card \in Cards
      BY SetIs
    <3> QED BY <1>1, <3>1, LeftIs
  <2>2. PICK before, after : before = Left(p, None) /\ after = Left(p, source)
    OBVIOUS
  <2>3. PICK a, b : a = Craftable(p, g, before) /\ b = Craftable(p, g, after)
    OBVIOUS
  <2>4. /\ a \in Nat /\ (a = 5 - p.level[g] \/ \E card \in CardsOf[g] : a = before[card])
        /\ b \in Nat /\ b <= 5 - p.level[g] /\ \A card \in CardsOf[g] : b <= after[card]
    BY <2>1, <2>2, <2>3, CraftIs
  <2>5. b <= a
    BY <2>1, <2>2, <2>4
  <2> QED BY <2>1, <2>2, <2>3, <2>4, <2>5
<1>3. ASSUME NEW g \in Games, g # GameOf(source)
      PROVE  Craftable(p, g, Left(p, None)) = Craftable(p, g, Left(p, source))
  <2>1. ASSUME NEW card \in CardsOf[g] PROVE Left(p, None)[card] = Left(p, source)[card]
    <3>1. card \in Cards /\ card # source
      BY <1>3, SetIs
    <3> QED BY <1>1, <3>1, LeftIs
  <2> QED BY <2>1, CraftSame
<1>4. PICK k : k = Lost(p, source)
  OBVIOUS
<1>5. k \in Nat
  <2>1. PICK a, b : /\ a = Craftable(p, GameOf(source), Left(p, None))
                    /\ b = Craftable(p, GameOf(source), Left(p, source))
    OBVIOUS
  <2>2. a \in Nat /\ b \in Nat /\ b <= a
    BY <1>1, <1>2, <2>1
  <2>3. k = a - b
    BY <1>4, <2>1 DEF Lost
  <2> QED BY <2>2, <2>3
<1>6. Foregone(p, source) = k * 100
  BY <1>4 DEF Foregone, Lost, BadgeXp
<1>7. k * 100 \in Nat /\ (k * 100) \div 100 = k
  BY <1>5
<1> QED
  BY <1>2, <1>3, <1>4, <1>5, <1>6, <1>7 DEF BadgeXp

\* The games of a set whose badges a sale leaves incomplete.
Incomplete(p, source, games) == {g \in games : Gone(p, source, g) # {}}

\* A completed badge is one craft more; the others are as the sale left them.
LEMMA CraftAfter ==
    ASSUME NEW p \in Problems, NEW source \in Sources(p), NEW games \in SUBSET Games,
           \A g \in games : p.level[g] < 5, NEW g \in Games
    PROVE  /\ Craftable(p, g, Swapped(p, source, games)) \in Nat
           /\ Craftable(p, g, Swapped(p, source, games))
                = Craftable(p, g, Left(p, source)) + (IF g \in Incomplete(p, source, games) THEN 1 ELSE 0)
<1>1. PICK held, new : held = Left(p, source) /\ new = Swapped(p, source, games)
  OBVIOUS
<1>2. ASSUME NEW card \in CardsOf[g]
      PROVE  /\ held[card] \in Nat
             /\ new[card] = IF held[card] = 0 /\ g \in games THEN 1 ELSE held[card]
             /\ new[card] \in Nat
  <2>1. card \in Cards /\ GameOf(card) = g
    BY SetIs
  <2>2. held[card] \in Nat
    BY <1>1, <2>1, SourceIs, LeftIs
  <2>3. new[card] = IF held[card] = 0 /\ g \in games THEN 1 ELSE held[card]
    BY <1>1, <2>1 DEF Swapped
  <2> QED BY <2>2, <2>3
<1>3. Craftable(p, g, held) \in Nat /\ Craftable(p, g, new) \in Nat
  BY <1>2, CraftIs
<1>4. CASE g \in Incomplete(p, source, games)
  <2>1. g \in games /\ Gone(p, source, g) # {}
    BY <1>4 DEF Incomplete
  <2>2. PICK card \in CardsOf[g] : held[card] = 0
    BY <1>1, <2>1 DEF Gone
  <2>3. Craftable(p, g, held) = 0
    BY <1>2, <1>3, <2>2, CraftIs
  <2>4. Craftable(p, g, new) <= 1
    <3>1. new[card] = 1
      BY <1>2, <2>1, <2>2
    <3> QED BY <1>2, <3>1, CraftIs
  <2>5. Craftable(p, g, new) # 0
    <3>1. \A c \in CardsOf[g] : new[c] # 0
      BY <1>2, <2>1
    <3>2. p.level[g] < 5 /\ p.level[g] \in 0..5
      BY <2>1, ProblemIs
    <3>3. 5 - p.level[g] # 0
      BY <3>2
    <3> QED BY <1>2, <3>1, <3>3, CraftIs
  <2>6. Craftable(p, g, new) = 1
    BY <1>3, <2>4, <2>5
  <2> QED BY <1>1, <1>4, <2>3, <2>6
<1>5. CASE g \notin Incomplete(p, source, games)
  <2>1. ASSUME NEW card \in CardsOf[g] PROVE new[card] = held[card]
    <3>1. CASE g \notin games
      BY <1>2, <3>1
    <3>2. CASE g \in games
      <4>1. Gone(p, source, g) = {}
        BY <1>5, <3>2 DEF Incomplete
      <4>2. held[card] # 0
        BY <1>1, <4>1 DEF Gone
      <4> QED BY <1>2, <4>2
    <3> QED BY <3>1, <3>2
  <2>2. Craftable(p, g, new) = Craftable(p, g, held)
    BY <2>1, CraftSame
  <2> QED BY <1>1, <1>3, <1>5, <2>2
<1> QED
  BY <1>1, <1>4, <1>5

\* What a swap brings: the badges it completes, less those that the sale gives up.
LEMMA GainIs ==
    ASSUME NEW p \in Problems, NEW source \in Sources(p), NEW games \in SUBSET Games,
           \A g \in games : p.level[g] < 5
    PROVE  /\ Cardinality(Incomplete(p, source, games)) \in Nat
           /\ Gain(p, source, games)
                = (Cardinality(Incomplete(p, source, games)) - Lost(p, source)) * 100
<1>1. PICK gs : gs = GameOf(source)
  OBVIOUS
<1>2. gs \in Games
  BY <1>1, SourceIs
<1>3. PICK open : open = Incomplete(p, source, games)
  OBVIOUS
<1>4. open \in SUBSET Games
  BY <1>3 DEF Incomplete
<1>5. PICK k \in Nat : k = Lost(p, source)
  BY LostIs
<1>6. PICK was, left, new, more, gone, both :
        /\ was = [g \in Games |-> Craftable(p, g, Left(p, None))]
        /\ left = [g \in Games |-> Craftable(p, g, Left(p, source))]
        /\ new = [g \in Games |-> Craftable(p, g, Swapped(p, source, games))]
        /\ more = [g \in Games |-> IF g \in open THEN 1 ELSE 0]
        /\ gone = [g \in Games |-> IF g = gs THEN k ELSE 0]
        /\ both = [g \in Games |-> Craftable(p, g, Left(p, None)) + (IF g \in open THEN 1 ELSE 0)]
  OBVIOUS
<1>7. ASSUME NEW g \in Games
      PROVE  /\ was[g] \in Int /\ new[g] \in Int /\ more[g] \in Int /\ gone[g] \in Int
             /\ both[g] = was[g] + more[g] /\ both[g] \in Int
             /\ both[g] = new[g] + gone[g]
  <2>1. was[g] \in Nat /\ left[g] \in Nat /\ new[g] \in Nat /\ new[g] = left[g] + more[g]
    BY <1>3, <1>6, LostIs, CraftAfter
  <2>2. more[g] \in Int /\ gone[g] \in Int /\ both[g] = was[g] + more[g]
    BY <1>6
  <2>3. was[g] = left[g] + gone[g]
    <3>1. CASE g = gs
      <4>1. k = was[g] - left[g]
        BY <1>1, <1>5, <1>6, <3>1 DEF Lost
      <4>2. gone[g] = k
        BY <1>6, <3>1
      <4> QED BY <2>1, <4>1, <4>2
    <3>2. CASE g # gs
      <4>1. was[g] = left[g] /\ gone[g] = 0
        BY <1>1, <1>6, <3>2, LostIs
      <4> QED BY <2>1, <4>1
    <3> QED BY <3>1, <3>2
  <2> QED BY <2>1, <2>2, <2>3
<1>8. IsFiniteSet(Games)
  BY CatalogAssumption
<1>9. SumFunctionOnSet(both, Games) = SumFunctionOnSet(was, Games) + SumFunctionOnSet(more, Games)
  BY <1>7, <1>8, SumPlus
<1>10. SumFunctionOnSet(both, Games) = SumFunctionOnSet(new, Games) + SumFunctionOnSet(gone, Games)
  BY <1>7, <1>8, SumPlus
<1>11. SumFunctionOnSet(more, Games) = Cardinality(open) /\ Cardinality(open) \in Nat
  <2>1. IsFiniteSet(open) /\ Cardinality(open) \in Nat
    BY <1>4, <1>8, FS_Subset, FS_CardinalityType
  <2>2. (\A g \in Games \ open : more[g] = 0) /\ (\A g \in open : more[g] = 1)
    BY <1>4, <1>6
  <2>3. SumFunctionOnSet(more, Games) = SumFunctionOnSet(more, open)
    BY <1>4, <1>7, <1>8, <2>2, SumSupport
  <2> QED BY <2>1, <2>2, <2>3, SumOnes
<1>12. SumFunctionOnSet(gone, Games) = k
  <2>1. \A g \in Games \ {gs} : gone[g] = 0
    BY <1>6
  <2>2. SumFunctionOnSet(gone, Games) = SumFunctionOnSet(gone, {gs})
    BY <1>2, <1>7, <1>8, <2>1, SumSupport
  <2>3. IsFiniteSet({gs}) /\ {gs} \ {gs} = {}
    BY FS_Singleton
  <2>4. SumFunctionOnSet(gone, {gs}) = gone[gs] + SumFunctionOnSet(gone, {gs} \ {gs})
    BY <1>2, <1>7, <2>3, SumRemove
  <2>5. SumFunctionOnSet(gone, {gs} \ {gs}) = 0
    BY <2>3, SumEmpty
  <2>6. gone[gs] = k
    BY <1>2, <1>6
  <2> QED BY <1>5, <2>2, <2>4, <2>5, <2>6
<1>13. SumFunctionOnSet(new, Games) \in Int /\ SumFunctionOnSet(was, Games) \in Int
  BY <1>7, <1>8, SumInt
<1>14. SumFunctionOnSet(new, Games) - SumFunctionOnSet(was, Games) = Cardinality(open) - k
  BY <1>5, <1>9, <1>10, <1>11, <1>12, <1>13
<1>15. /\ Badges(p, Swapped(p, source, games)) = SumFunctionOnSet(new, Games)
       /\ Badges(p, Left(p, None)) = SumFunctionOnSet(was, Games)
  BY <1>6, Zenon DEF Badges, SumFunction
<1>16. Gain(p, source, games)
         = (SumFunctionOnSet(new, Games) - SumFunctionOnSet(was, Games)) * 100
  BY <1>15 DEF Gain, BadgeXp
<1> QED
  BY <1>3, <1>5, <1>11, <1>14, <1>16

-----------------------------------------------------------------------------
(***************************************************************************)
(* Sets of games and sets of destinations.                                 *)
(***************************************************************************)

\* Badges that may be bought: below the last level, every missing card quoted.
Fair(p, source, games) ==
    \A g \in games : /\ p.level[g] < 5
                     /\ \A card \in Gone(p, source, g) : SideQuote(p.ask[card]) # None

\* The destinations of a set of games.
Chosen(p, source, games) == {d \in Destinations(p, source) : d.game \in games}

\* What has to be bought is what is missing in the games.
LEMMA BoughtIs ==
    ASSUME NEW p \in Problems, NEW source \in Sources(p), NEW games \in SUBSET Games,
           NEW card
    PROVE  card \in Bought(p, source, games) <=> \E g \in games : card \in Gone(p, source, g)
<1>1. ASSUME card \in Bought(p, source, games) PROVE \E g \in games : card \in Gone(p, source, g)
  <2>1. card \in Cards /\ Left(p, source)[card] = 0 /\ GameOf(card) \in games
    BY <1>1 DEF Bought
  <2>2. card \in CardsOf[GameOf(card)]
    BY <2>1, CardIs
  <2> QED BY <2>1, <2>2 DEF Gone
<1>2. ASSUME NEW g \in games, card \in Gone(p, source, g) PROVE card \in Bought(p, source, games)
  <2>1. card \in CardsOf[g] /\ Left(p, source)[card] = 0
    BY <1>2 DEF Gone
  <2>2. card \in Cards /\ GameOf(card) = g
    BY <2>1, SetIs
  <2> QED BY <2>1, <2>2 DEF Bought
<1> QED
  BY <1>1, <1>2

\* What pays for games is what pays for their destinations.
LEMMA ChosenIs ==
    ASSUME NEW p \in Problems, NEW source \in Sources(p), NEW games \in SUBSET Games,
           Fair(p, source, games)
    PROVE  LET T == Chosen(p, source, games)
           IN  /\ T \in SUBSET Destinations(p, source)
               /\ Bought(p, source, games) = UNION {d.rows : d \in T}
               /\ Cardinality(T) = Cardinality(Incomplete(p, source, games))
               /\ Pays(p, source, games) <=> Cost(T) <= Receipt(p, source)
<1>1. PICK T : T = Chosen(p, source, games)
  OBVIOUS
<1>2. T \in SUBSET Destinations(p, source) /\ IsFiniteSet(T)
  BY <1>1, DestinationsAre, FS_Subset DEF Chosen
<1>3. ASSUME NEW g \in games, Gone(p, source, g) # {}
      PROVE  /\ OfferOf(p, source, g) \in T /\ OfferOf(p, source, g).game = g
             /\ OfferOf(p, source, g).rows = Gone(p, source, g)
  <2>1. Offered(p, source, g)
    BY <1>3 DEF Fair, Offered
  <2>2. /\ OfferOf(p, source, g) \in Destinations(p, source)
        /\ OfferOf(p, source, g).game = g /\ OfferOf(p, source, g).rows = Gone(p, source, g)
    BY <2>1, DestinationsAre, OfferIs
  <2> QED BY <1>1, <2>2 DEF Chosen
<1>4. ASSUME NEW d \in T
      PROVE  /\ d \in Destinations(p, source) /\ d.game \in games
             /\ d.rows = Gone(p, source, d.game) /\ d.rows # {}
  <2>1. d \in Destinations(p, source) /\ d.game \in games
    BY <1>1 DEF Chosen
  <2>2. d.rows = Gone(p, source, d.game) /\ Offered(p, source, d.game)
    BY <2>1, MemberIs
  <2> QED BY <2>1, <2>2 DEF Offered
<1>5. Bought(p, source, games) = UNION {d.rows : d \in T}
  <2>1. ASSUME NEW card \in Bought(p, source, games) PROVE card \in UNION {d.rows : d \in T}
    <3>1. PICK g \in games : card \in Gone(p, source, g)
      BY <2>1, BoughtIs
    <3> QED BY <1>3, <3>1
  <2>2. ASSUME NEW d \in T, NEW card \in d.rows PROVE card \in Bought(p, source, games)
    <3>1. d.game \in games /\ card \in Gone(p, source, d.game)
      BY <1>4, <2>2
    <3> QED BY <3>1, BoughtIs
  <2> QED BY <2>1, <2>2
<1>6. Cardinality(T) = Cardinality(Incomplete(p, source, games))
  <2>1. PICK h : h = [d \in T |-> d.game]
    OBVIOUS
  <2>2. \A d, e \in T : h[d] = h[e] => d = e
    BY <1>2, <2>1, DestinationsOrdered
  <2>3. Cardinality({h[d] : d \in T}) = Cardinality(T)
    BY <1>2, <2>2, ImageIs
  <2>4. {h[d] : d \in T} = Incomplete(p, source, games)
    <3>1. ASSUME NEW d \in T PROVE h[d] \in Incomplete(p, source, games)
      BY <1>4, <2>1 DEF Incomplete
    <3>2. ASSUME NEW g \in Incomplete(p, source, games) PROVE \E d \in T : h[d] = g
      <4>1. g \in games /\ Gone(p, source, g) # {}
        BY DEF Incomplete
      <4>2. OfferOf(p, source, g) \in T /\ OfferOf(p, source, g).game = g
        BY <1>3, <4>1
      <4> QED BY <2>1, <4>2
    <3> QED BY <3>1, <3>2
  <2> QED BY <2>3, <2>4
<1>7. PICK B : B = Bought(p, source, games)
  OBVIOUS
<1>8. B \in SUBSET Cards
  BY <1>7 DEF Bought
<1>9. ASSUME NEW card \in B PROVE SideQuote(p.ask[card]) # None
  <2>1. PICK g \in games : card \in Gone(p, source, g)
    BY <1>7, <1>9, BoughtIs
  <2> QED BY <2>1 DEF Fair
<1>10. SumFunction([card \in B |-> p.ask[card].price]) = SumFunctionOnSet(Asks(p), B)
  <2>1. p.ask \in [Cards -> Side]
    BY ProblemIs
  <2>2. SumFunction([card \in B |-> p.ask[card].price])
          = SumFunctionOnSet([card \in Cards |-> p.ask[card].price], B)
    BY <1>8, <1>9, <2>1, QuotesAre
  <2> QED BY <2>2 DEF Asks
<1>11. SumFunctionOnSet(Asks(p), B) = SumFunctionOnSet(Costs, T)
  <2>1. PICK M : M = [d \in T |-> d.rows]
    OBVIOUS
  <2>2. B = UNION {M[d] : d \in T}
    <3>1. {M[d] : d \in T} = {d.rows : d \in T}
      BY <2>1
    <3> QED BY <1>5, <1>7, <3>1
  <2>3. ASSUME NEW d \in T
        PROVE  /\ IsFiniteSet(M[d]) /\ Costs[d] = SumFunctionOnSet(Asks(p), M[d])
               /\ \A card \in M[d] : Asks(p)[card] \in Int
    BY <1>4, <2>1, MemberIs
  <2>4. ASSUME NEW d \in T, NEW e \in T, d # e PROVE M[d] \cap M[e] = {}
    <3>1. d.game # e.game /\ d.game \in Games /\ e.game \in Games
      BY <1>2, <1>4, <2>4, DestinationsOrdered
    <3>2. M[d] \subseteq CardsOf[d.game] /\ M[e] \subseteq CardsOf[e.game]
      BY <1>4, <2>1 DEF Gone
    <3>3. CardsOf[d.game] \cap CardsOf[e.game] = {}
      BY <3>1, CatalogAssumption
    <3> QED BY <3>2, <3>3
  <2> QED BY <1>2, <2>2, <2>3, <2>4, SumUnion
<1>12. SumFunction([card \in B |-> p.ask[card].price]) = Cost(T)
  BY <1>2, <1>10, <1>11, CostOfIs
<1>13. Pays(p, source, games) <=> Cost(T) <= Receipt(p, source)
  BY <1>7, <1>9, <1>12 DEF Pays, Fair
<1> QED
  BY <1>1, <1>2, <1>5, <1>6, <1>13

\* What pays is fair, and so is every set of destinations.
LEMMA PaysFair ==
    ASSUME NEW p \in Problems, NEW source \in Sources(p), NEW games \in SUBSET Games,
           Pays(p, source, games)
    PROVE  Fair(p, source, games)
<1>1. ASSUME NEW g \in games, NEW card \in Gone(p, source, g) PROVE SideQuote(p.ask[card]) # None
  <2>1. card \in Bought(p, source, games)
    BY <1>1, BoughtIs
  <2> QED BY <2>1 DEF Pays
<1> QED
  BY <1>1 DEF Pays, Fair

\* The games of a set of destinations.
GamesOf(T) == {d.game : d \in T}

\* The games of a set of destinations are fair, and stand for that set.
LEMMA GamesOfIs ==
    ASSUME NEW p \in Problems, NEW source \in Sources(p), NEW T \in SUBSET Destinations(p, source)
    PROVE  /\ GamesOf(T) \in SUBSET Games /\ Fair(p, source, GamesOf(T))
           /\ Chosen(p, source, GamesOf(T)) = T
           /\ Incomplete(p, source, GamesOf(T)) = GamesOf(T)
           /\ \A g \in GamesOf(T) : p.level[g] < 5
<1>1. ASSUME NEW d \in T
      PROVE  /\ d \in Destinations(p, source) /\ d.game \in Games /\ Offered(p, source, d.game)
  BY MemberIs
<1>2. GamesOf(T) \in SUBSET Games /\ \A g \in GamesOf(T) : Offered(p, source, g)
  BY <1>1 DEF GamesOf
<1>3. \A g \in GamesOf(T) : p.level[g] < 5
  BY <1>2 DEF Offered
<1>4. Fair(p, source, GamesOf(T)) /\ Incomplete(p, source, GamesOf(T)) = GamesOf(T)
  BY <1>2 DEF Offered, Fair, Incomplete
<1>5. Chosen(p, source, GamesOf(T)) = T
  <2>1. ASSUME NEW d \in T PROVE d \in Chosen(p, source, GamesOf(T))
    BY <1>1 DEF Chosen, GamesOf
  <2>2. ASSUME NEW d \in Chosen(p, source, GamesOf(T)) PROVE d \in T
    <3>1. d \in Destinations(p, source) /\ \E e \in T : d.game = e.game
      BY DEF Chosen, GamesOf
    <3>2. PICK e \in T : d.game = e.game
      BY <3>1
    <3>3. d = e
      BY <3>1, <3>2, DestinationsOrdered
    <3> QED BY <3>2, <3>3
  <2> QED BY <2>1, <2>2
<1> QED
  BY <1>2, <1>3, <1>4, <1>5
-----------------------------------------------------------------------------
(***************************************************************************)
(* The swap of one source.                                                 *)
(***************************************************************************)

\* The destinations that are looked at.
Looked(p, source) == Prefix(MaxDestinations + 1, Destinations(p, source))

\* And those that are paid for.
Paid(p, source) == Select(Looked(p, source), Receipt(p, source))

\* There is a swap when more badges are paid for than the sale gives up.
LEMMA SwapIs ==
    ASSUME NEW p \in Problems, NEW source \in Sources(p)
    PROVE  /\ (/\ Lost(p, source) + 1 <= Cardinality(Looked(p, source))
               /\ Cost(Prefix(Lost(p, source) + 1, Looked(p, source))) <= Receipt(p, source)
               /\ Lost(p, source) + 1 <= Cardinality(Paid(p, source))) => SwapOf(p, source) # None
           /\ SwapOf(p, source) # None =>
                /\ SwapOf(p, source) \in Swap
                /\ SwapOf(p, source).source = source
                /\ SwapOf(p, source).destinations = Paid(p, source)
                /\ Lost(p, source) + 1 <= Cardinality(Paid(p, source))
                /\ SwapOf(p, source).advantage
                     = (Cardinality(Paid(p, source)) - Lost(p, source)) * 100
                /\ SwapOf(p, source).oldest
                     = Max({p.bid[source].age} \union {d.oldest : d \in Paid(p, source)})
                /\ SwapOf(p, source).limited <=> /\ Cardinality(Paid(p, source)) = MaxDestinations
                                                 /\ Cardinality(Looked(p, source)) > MaxDestinations
                                                 /\ Cost(Looked(p, source)) <= Receipt(p, source)
<1>1. PICK D : D = Destinations(p, source)
  OBVIOUS
<1>2. PICK O : O = Looked(p, source)
  OBVIOUS
<1>3. O \in SUBSET D /\ O = Prefix(MaxDestinations + 1, D) /\ IsFiniteSet(O)
  <2>1. MaxDestinations + 1 \in Nat /\ D \in SUBSET Destinations(p, source)
    BY <1>1, WindowIs
  <2>2. O = Prefix(MaxDestinations + 1, D)
    BY <1>1, <1>2 DEF Looked
  <2>3. O \subseteq D /\ IsFiniteSet(O)
    BY <2>1, <2>2, PrefixFacts
  <2> QED BY <2>2, <2>3
<1>4. PICK r \in Nat : r = Receipt(p, source)
  BY SourceIs
<1>5. PICK W : W = Paid(p, source)
  OBVIOUS
<1>6. /\ W = Select(O, r) /\ W \subseteq O /\ IsFiniteSet(W) /\ Cardinality(W) \in Nat
      /\ Cost(W) \in Nat /\ Cost(W) <= r
  <2>1. W = Select(O, r)
    BY <1>2, <1>4, <1>5 DEF Paid
  <2>2. O \in SUBSET Destinations(p, source)
    BY <1>1, <1>3
  <2> QED BY <2>1, <2>2, SelectedIs
<1>7. PICK k \in Nat : k = Lost(p, source)
  BY LostIs
<1>8. PICK f : f = Foregone(p, source)
  OBVIOUS
<1>9. f = k * 100 /\ f \div BadgeXp + 1 = k + 1 /\ f \in Nat
  BY <1>7, <1>8, LostIs
<1>10. PICK n \in Nat : n = Cardinality(W)
  BY <1>6
<1>11. PICK c, q : c = Cost(Prefix(k + 1, O)) /\ q = Cardinality(O)
  OBVIOUS
<1>12. q \in Nat /\ c \in Nat /\ Cost(O) \in Nat
  <2>1. Prefix(k + 1, O) \in SUBSET D /\ q \in Nat
    BY <1>1, <1>3, <1>11, PrefixFacts
  <2> QED BY <1>1, <1>3, <1>11, <2>1, CostOfIs
<1>13. PICK old, rows : /\ old = Max({p.bid[source].age} \union {d.oldest : d \in W})
                        /\ rows = UNION {d.rows : d \in W}
  OBVIOUS
<1>14. PICK lim : lim = (n = MaxDestinations /\ q > MaxDestinations /\ Cost(O) <= r)
  OBVIOUS
<1>15. PICK made : made = [source |-> source, destinations |-> W, foregone |-> f,
                           funded |-> n * BadgeXp, advantage |-> n * BadgeXp - f,
                           unspent |-> r - Cost(W), oldest |-> old,
                           actions |-> 1 + Cardinality(rows), limited |-> lim]
  OBVIOUS
<1>0. PICK s : s = SwapOf(p, source)
  OBVIOUS
<1>16. s = IF \/ q < k + 1 \/ r < c \/ n < k + 1 \/ n * BadgeXp <= f THEN None ELSE made
  <2>1. SwapOf(p, source) =
          IF \/ Cardinality(O) < f \div BadgeXp + 1
             \/ r < Cost(Prefix(f \div BadgeXp + 1, O))
             \/ Cardinality(W) < f \div BadgeXp + 1
             \/ Cardinality(W) * BadgeXp <= f
          THEN None
          ELSE [source |-> source, destinations |-> W,
                foregone |-> f, funded |-> Cardinality(W) * BadgeXp,
                advantage |-> Cardinality(W) * BadgeXp - f,
                unspent |-> r - Cost(W), oldest |-> old,
                actions |-> 1 + Cardinality(rows),
                limited |-> /\ Cardinality(W) = MaxDestinations
                            /\ Cardinality(O) > MaxDestinations
                            /\ Cost(O) <= r]
    BY <1>1, <1>3, <1>4, <1>6, <1>8, <1>13, Zenon DEF SwapOf
  <2> QED BY <1>0, <1>9, <1>10, <1>11, <1>14, <1>15, <2>1, Zenon
<1>17. old \in Int
  <2>1. PICK ages : ages = [d \in W |-> d.oldest]
    OBVIOUS
  <2>2. {ages[d] : d \in W} = {d.oldest : d \in W}
    BY <2>1
  <2>3. IsFiniteSet({d.oldest : d \in W})
    <3>1. IsFiniteSet({ages[d] : d \in W})
      BY <1>6, ImageIs
    <3> QED BY <2>2, <3>1
  <2>4. IsFiniteSet({p.bid[source].age} \union {d.oldest : d \in W})
    BY <2>3, FS_Singleton, FS_Union
  <2>5. \A d \in W : d.oldest \in Int
    BY <1>1, <1>3, <1>6, MemberIs
  <2>6. p.bid[source].age \in Int
    BY SourceIs
  <2>7. PICK A : A = {p.bid[source].age} \union {d.oldest : d \in W}
    OBVIOUS
  <2>8. A \subseteq Int /\ A # {} /\ IsFiniteSet(A)
    BY <2>4, <2>5, <2>6, <2>7
  <2>9. Max(A) \in A
    BY <2>8, MaxIs
  <2> QED BY <1>13, <2>7, <2>8, <2>9
<1>18. made \in Swap
  <2>1. source \in Cards
    BY SourceIs
  <2>2. W \in SUBSET Offer
    BY <1>1, <1>3, <1>6, MemberIs
  <2>3. Cardinality(rows) \in Int
    <3>1. PICK h : h = [d \in W |-> d.rows]
      OBVIOUS
    <3>2. {h[d] : d \in W} = {d.rows : d \in W}
      BY <3>1
    <3>3. IsFiniteSet({d.rows : d \in W})
      <4>1. IsFiniteSet({h[d] : d \in W})
        BY <1>6, ImageIs
      <4> QED BY <3>2, <4>1
    <3>4. \A d \in W : IsFiniteSet(d.rows)
      BY <1>1, <1>3, <1>6, MemberIs
    <3>5. \A R \in {d.rows : d \in W} : IsFiniteSet(R)
      BY <3>4
    <3>6. IsFiniteSet(rows)
      BY <1>13, <3>3, <3>5, FS_UNION
    <3> QED BY <3>6, FS_CardinalityType
  <2>4. n * BadgeXp \in Int /\ n * BadgeXp - f \in Int /\ r - Cost(W) \in Int
    BY <1>6, <1>9 DEF BadgeXp
  <2>5. lim \in BOOLEAN
    BY <1>14
  <2>6. 1 + Cardinality(rows) \in Int /\ f \in Int
    BY <1>9, <2>3
  <2> QED BY <1>15, <1>17, <2>1, <2>2, <2>4, <2>5, <2>6 DEF Swap
<1>19. made # None
  BY <1>18, BoundsAssumption
<1>20. n * BadgeXp <= f <=> ~ (k + 1 <= n)
  BY <1>9 DEF BadgeXp
<1>21. n * BadgeXp - f = (n - k) * 100
  BY <1>9 DEF BadgeXp
<1>22. ASSUME k + 1 <= q, c <= r, k + 1 <= n PROVE s # None
  <2>1. ~ (q < k + 1 \/ r < c \/ n < k + 1 \/ n * BadgeXp <= f)
    BY <1>12, <1>20, <1>22
  <2>2. s = made
    BY <1>16, <2>1
  <2> QED BY <1>19, <2>2
<1>23. ASSUME s # None PROVE s = made /\ k + 1 <= n
  <2>1. ~ (q < k + 1 \/ r < c \/ n < k + 1 \/ n * BadgeXp <= f)
    BY <1>16, <1>23
  <2>2. s = made
    BY <1>16, <2>1
  <2> QED BY <1>20, <2>1, <2>2
<1>24. /\ made.source = source /\ made.destinations = W /\ made.advantage = n * BadgeXp - f
       /\ made.oldest = old /\ (made.limited <=> lim)
  BY <1>15
<1>25. k + 1 <= Cardinality(O) /\ Cost(Prefix(k + 1, O)) <= r /\ k + 1 <= n => s # None
  BY <1>11, <1>22
<1>26. s # None =>
         /\ s \in Swap /\ s.source = source /\ s.destinations = W
         /\ k + 1 <= n
         /\ s.advantage = (n - k) * 100
         /\ s.oldest = old
         /\ (s.limited <=> n = MaxDestinations /\ q > MaxDestinations /\ Cost(O) <= r)
  BY <1>14, <1>18, <1>21, <1>23, <1>24
<1> QED
  BY <1>0, <1>2, <1>4, <1>5, <1>7, <1>10, <1>11, <1>13, <1>25, <1>26

\* A longer prefix holds a shorter one.
LEMMA PrefixGrows ==
    ASSUME NEW p \in Problems, NEW source \in Sources(p), NEW O \in SUBSET Destinations(p, source),
           NEW a \in Nat, NEW b \in Nat, a <= b
    PROVE  Prefix(a, O) \subseteq Prefix(b, O)
<1>1. ASSUME NEW d \in FirstOf(a, O, ByAge(O)) PROVE d \in FirstOf(b, O, ByAge(O))
  <2>1. PICK S : S = {e \in O : <<e, d>> \in ByAge(O)}
    OBVIOUS
  <2>2. IsFiniteSet(O)
    BY DestinationsOrdered
  <2>3. Cardinality(S) \in Nat
    BY <2>1, <2>2, FS_Subset, FS_CardinalityType
  <2>4. d \in O /\ Cardinality(S) < a
    BY <2>1 DEF FirstOf
  <2>5. Cardinality(S) < b
    BY <2>3, <2>4
  <2> QED BY <2>1, <2>4, <2>5 DEF FirstOf
<1> QED
  BY <1>1, PrefixIs

\* What is looked at and paid for.
LEMMA LookedIs ==
    ASSUME NEW p \in Problems, NEW source \in Sources(p)
    PROVE  /\ Looked(p, source) \in SUBSET Destinations(p, source)
           /\ IsFiniteSet(Looked(p, source)) /\ Cardinality(Looked(p, source)) \in Nat
           /\ Cardinality(Looked(p, source)) <= MaxDestinations + 1
           /\ Paid(p, source) \in SUBSET Looked(p, source) /\ IsFiniteSet(Paid(p, source))
           /\ Cardinality(Paid(p, source)) \in Nat
           /\ Cardinality(Paid(p, source)) <= MaxDestinations
           /\ Cost(Paid(p, source)) <= Receipt(p, source)
           /\ \A m \in Nat :
                 m <= MaxDestinations /\ Cost(Prefix(m, Looked(p, source))) <= Receipt(p, source)
                   => Prefix(m, Looked(p, source)) \subseteq Paid(p, source)
<1>1. PICK D : D = Destinations(p, source) /\ D \in SUBSET Destinations(p, source)
  OBVIOUS
<1>2. PICK n \in Nat : n = MaxDestinations + 1
  BY WindowIs
<1>3. PICK O : O = Looked(p, source) /\ O = Prefix(n, D)
  BY <1>1, <1>2 DEF Looked
<1>4. PICK k \in Nat : k = Cardinality(D)
  BY <1>1, PrefixFacts
<1>5. O \subseteq D /\ IsFiniteSet(O) /\ Cardinality(O) = IF n < k THEN n ELSE k
  BY <1>1, <1>3, <1>4, PrefixFacts
<1>6. Cardinality(O) \in Nat /\ Cardinality(O) <= n
  BY <1>5
<1>7. O \in SUBSET Destinations(p, source)
  BY <1>1, <1>5
<1>8. PICK r \in Nat : r = Receipt(p, source)
  BY SourceIs
<1>9. PICK W : W = Paid(p, source) /\ W = Select(O, r)
  BY <1>3, <1>8 DEF Paid
<1>10. /\ W \subseteq O /\ IsFiniteSet(W) /\ Cardinality(W) \in Nat
       /\ Cardinality(W) <= MaxDestinations /\ Cost(W) <= r
       /\ \A m \in Nat : m <= MaxDestinations /\ Cost(Prefix(m, O)) <= r => Prefix(m, O) \subseteq W
  BY <1>7, <1>9, SelectedIs
<1>11. ASSUME NEW m \in Nat, m <= MaxDestinations,
              Cost(Prefix(m, Looked(p, source))) <= Receipt(p, source)
       PROVE  Prefix(m, Looked(p, source)) \subseteq Paid(p, source)
  <2>1. Cost(Prefix(m, O)) <= r
    BY <1>3, <1>8, <1>11
  <2>2. Prefix(m, O) \subseteq W
    BY <1>7, <1>9, <1>11, <2>1, SelectedIs
  <2> QED BY <1>3, <1>9, <2>2
<1>12. Cost(Paid(p, source)) <= Receipt(p, source)
  BY <1>8, <1>9, <1>10
<1>13. /\ Looked(p, source) \in SUBSET Destinations(p, source)
       /\ IsFiniteSet(Looked(p, source)) /\ Cardinality(Looked(p, source)) \in Nat
       /\ Cardinality(Looked(p, source)) <= MaxDestinations + 1
  BY <1>2, <1>3, <1>5, <1>6, <1>7
<1>14. /\ Paid(p, source) \in SUBSET Looked(p, source) /\ IsFiniteSet(Paid(p, source))
       /\ Cardinality(Paid(p, source)) \in Nat
       /\ Cardinality(Paid(p, source)) <= MaxDestinations
  BY <1>3, <1>9, <1>10
<1> QED
  BY <1>11, <1>12, <1>13, <1>14, Zenon

\* Whatever pays and gains, the swap of its source gains as much.
LEMMA SwapBeats ==
    ASSUME NEW p \in Problems, NEW source \in Sources(p), NEW games \in SUBSET Games,
           Cardinality(games) <= MaxDestinations, Pays(p, source, games),
           ~ (Gain(p, source, games) <= 0)
    PROVE  SwapOf(p, source) # None /\ Gain(p, source, games) <= SwapOf(p, source).advantage
<1>1. Fair(p, source, games)
  BY PaysFair
<1>2. PICK T : T = Chosen(p, source, games)
  OBVIOUS
<1>3. PICK r \in Nat : r = Receipt(p, source)
  BY SourceIs
<1>4. /\ T \in SUBSET Destinations(p, source) /\ Cost(T) <= r
      /\ Cardinality(T) = Cardinality(Incomplete(p, source, games))
  BY <1>1, <1>2, <1>3, ChosenIs
<1>5. PICK m \in Nat : m = Cardinality(T)
  BY <1>4, GainIs DEF Pays
<1>6. PICK k \in Nat : k = Lost(p, source)
  BY LostIs
<1>7. Gain(p, source, games) = (m - k) * 100
  BY <1>4, <1>5, <1>6, GainIs DEF Pays
<1>8. k + 1 <= m
  BY <1>7
<1>9. m <= MaxDestinations
  <2>1. IsFiniteSet(games)
    BY CatalogAssumption, FS_Subset
  <2>2. Incomplete(p, source, games) \in SUBSET games
    BY DEF Incomplete
  <2>3. Cardinality(Incomplete(p, source, games)) <= Cardinality(games) /\ Cardinality(games) \in Nat
    BY <2>1, <2>2, FS_Subset, FS_CardinalityType
  <2> QED BY <1>4, <1>5, <2>3, WindowIs
<1>10. PICK O : O = Looked(p, source)
  OBVIOUS
<1>11. PICK W : W = Paid(p, source)
  OBVIOUS
<1>12. /\ O \in SUBSET Destinations(p, source)
       /\ W \in SUBSET O /\ IsFiniteSet(W) /\ Cardinality(W) \in Nat
       /\ (Cost(Prefix(m, O)) <= r => Prefix(m, O) \subseteq W)
  BY <1>3, <1>9, <1>10, <1>11, LookedIs
<1>13. Cardinality(Prefix(m, O)) = m /\ m <= Cardinality(O) /\ Cost(Prefix(m, O)) <= Cost(T)
  <2>1. PICK n \in Nat : n = MaxDestinations + 1
    BY WindowIs
  <2>2. m <= n
    BY <1>9, <2>1, WindowIs
  <2>3. O = Prefix(n, Destinations(p, source))
    BY <1>10, <2>1 DEF Looked
  <2> QED BY <1>4, <1>5, <2>2, <2>3, PrefixCheapest
<1>14. Prefix(m, O) \in SUBSET Destinations(p, source) /\ Prefix(k + 1, O) \in SUBSET Prefix(m, O)
  <2>1. k + 1 \in Nat
    OBVIOUS
  <2>2. Prefix(k + 1, O) \subseteq Prefix(m, O)
    BY <1>8, <1>12, <2>1, PrefixGrows
  <2>3. Prefix(m, O) \subseteq O
    BY <1>12, PrefixFacts
  <2> QED BY <1>12, <2>2, <2>3
<1>15. /\ Cost(T) \in Nat /\ Cost(Prefix(m, O)) \in Nat /\ Cost(Prefix(k + 1, O)) \in Nat
       /\ Cost(Prefix(k + 1, O)) <= Cost(Prefix(m, O))
  BY <1>4, <1>14, CostOfIs
<1>16. Cost(Prefix(m, O)) <= r /\ Cost(Prefix(k + 1, O)) <= r
  BY <1>4, <1>13, <1>15
<1>17. PICK n \in Nat : n = Cardinality(W) /\ m <= n
  <2>1. Prefix(m, O) \in SUBSET W
    BY <1>12, <1>16
  <2>2. m <= Cardinality(W)
    BY <1>12, <1>13, <2>1, FS_Subset
  <2> QED BY <1>12, <2>2
<1>18. PICK s : s = SwapOf(p, source)
  OBVIOUS
<1>19. Cardinality(O) \in Nat
  BY <1>10, LookedIs
<1>20. k + 1 <= Cardinality(O) /\ k + 1 <= n
  BY <1>8, <1>13, <1>17, <1>19
<1>21. s # None /\ s.advantage = (n - k) * 100
  BY <1>3, <1>6, <1>10, <1>11, <1>16, <1>17, <1>18, <1>20, SwapIs
<1>22. (m - k) * 100 <= (n - k) * 100
  BY <1>17
<1> QED
  BY <1>7, <1>18, <1>21, <1>22

\* A swap says it is limited exactly when one badge more could be paid for.
LEMMA LimitedIs ==
    ASSUME NEW p \in Problems, NEW source \in Sources(p), SwapOf(p, source) # None,
           NEW I, I = {g \in Games : \E card \in CardsOf[g] : Left(p, source)[card] = 0}
    PROVE  SwapOf(p, source).limited <=>
             \E games \in SUBSET I : /\ Cardinality(games) = MaxDestinations + 1
                                     /\ Pays(p, source, games)
<1>1. PICK N \in Nat : N = MaxDestinations
  BY WindowIs
<1>2. PICK O : O = Looked(p, source)
  OBVIOUS
<1>3. PICK W : W = Paid(p, source)
  OBVIOUS
<1>4. PICK r \in Nat : r = Receipt(p, source)
  BY SourceIs
<1>5. PICK q \in Nat : q = Cardinality(O)
  BY <1>2, LookedIs
<1>6. /\ O \in SUBSET Destinations(p, source) /\ IsFiniteSet(O) /\ q <= N + 1
      /\ W \in SUBSET O /\ IsFiniteSet(W) /\ Cardinality(W) \in Nat /\ Cardinality(W) <= N
      /\ (Cost(Prefix(N, O)) <= r => Prefix(N, O) \subseteq W)
  BY <1>1, <1>2, <1>3, <1>4, <1>5, LookedIs
<1>7. SwapOf(p, source).limited <=> Cardinality(W) = N /\ q > N /\ Cost(O) <= r
  BY <1>1, <1>2, <1>3, <1>4, <1>5, SwapIs
<1>8. \A g \in Games : g \in I <=> Gone(p, source, g) # {}
  BY DEF Gone
<1>9. ASSUME Cardinality(W) = N, q > N, Cost(O) <= r
      PROVE  \E games \in SUBSET I : Cardinality(games) = N + 1 /\ Pays(p, source, games)
  <2>1. PICK games : games = GamesOf(O)
    OBVIOUS
  <2>2. /\ games \in SUBSET Games /\ Fair(p, source, games) /\ Chosen(p, source, games) = O
        /\ Incomplete(p, source, games) = games
    BY <1>6, <2>1, GamesOfIs
  <2>3. Cardinality(games) = q
    BY <1>5, <2>2, ChosenIs
  <2>4. Pays(p, source, games)
    BY <1>4, <1>9, <2>2, ChosenIs
  <2>5. games \in SUBSET I
    BY <1>8, <2>2 DEF Incomplete
  <2>6. q = N + 1
    BY <1>6, <1>9
  <2> QED BY <2>3, <2>4, <2>5, <2>6
<1>10. ASSUME NEW games \in SUBSET I, Cardinality(games) = N + 1, Pays(p, source, games)
       PROVE  Cardinality(W) = N /\ q > N /\ Cost(O) <= r
  <2>1. games \in SUBSET Games
    OBVIOUS
  <2>2. Fair(p, source, games)
    BY <1>10, <2>1, PaysFair
  <2>3. PICK T : T = Chosen(p, source, games)
    OBVIOUS
  <2>4. Incomplete(p, source, games) = games
    BY <1>8, <2>1 DEF Incomplete
  <2>5. T \in SUBSET Destinations(p, source) /\ Cardinality(T) = N + 1 /\ Cost(T) <= r
    BY <1>4, <1>10, <2>1, <2>2, <2>3, <2>4, ChosenIs
  <2>6. PICK n \in Nat : n = N + 1
    OBVIOUS
  <2>7. O = Prefix(n, Destinations(p, source))
    BY <1>1, <1>2, <2>6 DEF Looked
  <2>8. Cardinality(Prefix(n, O)) = n /\ n <= q /\ Cost(Prefix(n, O)) <= Cost(T)
    BY <1>5, <2>5, <2>6, <2>7, PrefixCheapest
  <2>9. q = n
    BY <1>6, <2>6, <2>8
  <2>10. Prefix(n, O) = O
    <3>1. Prefix(n, O) \in SUBSET O
      BY <1>6, PrefixFacts
    <3> QED BY <1>5, <1>6, <2>8, <2>9, <3>1, FS_Subset
  <2>11. Cost(O) \in Nat /\ Cost(T) \in Nat
    BY <1>6, <2>5, CostOfIs
  <2>12. Cost(O) <= r
    BY <2>5, <2>8, <2>10, <2>11
  <2>13. PICK P : P = Prefix(N, O)
    OBVIOUS
  <2>14. P \in SUBSET O /\ Cardinality(P) = N
    <3>1. N < Cardinality(O)
      BY <1>5, <2>6, <2>9
    <3> QED BY <1>6, <2>13, <3>1, PrefixFacts
  <2>15. Cost(P) \in Nat /\ Cost(P) <= Cost(O)
    BY <1>6, <2>14, CostOfIs
  <2>16. P \in SUBSET W
    BY <1>6, <2>11, <2>12, <2>13, <2>15
  <2>17. N <= Cardinality(W)
    BY <1>6, <2>14, <2>16, FS_Subset
  <2>18. Cardinality(W) = N
    BY <1>6, <2>17
  <2>19. q > N
    BY <2>6, <2>9
  <2> QED BY <2>12, <2>18, <2>19
<1> QED
  BY <1>1, <1>7, <1>9, <1>10
-----------------------------------------------------------------------------
(***************************************************************************)
(* The recommendation.                                                     *)
(***************************************************************************)

\* The final minimum is a swap that no other one outdoes.
LEMMA RecommendedIs ==
    ASSUME NEW p \in Problems, Swaps(p) # {}, NEW best, best = Recommended(Swaps(p))
    PROVE  /\ best.source \in Sources(p) /\ best = SwapOf(p, best.source) /\ best # None
           /\ \A source \in Sources(p) :
                SwapOf(p, source) # None => SwapOf(p, source).advantage <= best.advantage
<1>1. PICK S : S = Swaps(p)
  OBVIOUS
<1>2. IsFiniteSet(S)
  <2>1. PICK h : h = [source \in Sources(p) |-> SwapOf(p, source)]
    OBVIOUS
  <2>2. IsFiniteSet(Sources(p))
    BY CatalogAssumption, FS_Subset DEF Sources
  <2>3. IsFiniteSet({h[source] : source \in Sources(p)})
    BY <2>2, ImageIs
  <2>4. {h[source] : source \in Sources(p)} = {SwapOf(p, source) : source \in Sources(p)}
    BY <2>1
  <2>5. S \in SUBSET {SwapOf(p, source) : source \in Sources(p)}
    BY <1>1 DEF Swaps
  <2> QED BY <2>3, <2>4, <2>5, FS_Subset
<1>3. ASSUME NEW s \in S
      PROVE  /\ s \in Swap /\ s.source \in Sources(p) /\ s = SwapOf(p, s.source) /\ s # None
  <2>1. PICK source \in Sources(p) : s = SwapOf(p, source) /\ s # None
    BY <1>1 DEF Swaps
  <2>2. s \in Swap /\ s.source = source
    BY <2>1, SwapIs
  <2> QED BY <2>1, <2>2
<1>4. PICK K : K = [s \in S |-> SwapKey(s)]
  OBVIOUS
<1>5. ASSUME NEW s \in S
      PROVE  K[s] \in [1..7 -> Int] /\ K[s][1] = -s.advantage /\ K[s][7] = s.source
  <2>1. PICK a, b, c, d, e, f, g :
          /\ a = -s.advantage /\ b = -s.funded /\ c = -s.unspent /\ d = s.oldest
          /\ e = s.actions /\ f = GameOf(s.source) /\ g = s.source
    OBVIOUS
  <2>2. a \in Int /\ b \in Int /\ c \in Int /\ d \in Int /\ e \in Int
    BY <1>3, <2>1 DEF Swap
  <2>3. f \in Int /\ g \in Int
    <3>1. s.source \in Cards
      BY <1>3, SourceIs
    <3>2. s.source \in Nat /\ GameOf(s.source) \in Nat
      BY <3>1, CardIs, SetIs
    <3> QED BY <2>1, <3>2
  <2>4. K[s] = <<a, b, c, d, e, f, g>>
    BY <1>4, <2>1 DEF SwapKey
  <2>5. <<a, b, c, d, e, f, g>> \in [1..7 -> Int]
    BY <2>2, <2>3, KeySeven
  <2>6. <<a, b, c, d, e, f, g>>[1] = a /\ <<a, b, c, d, e, f, g>>[7] = g
    OBVIOUS
  <2> QED BY <2>1, <2>4, <2>5, <2>6
<1>6. K \in [S -> [1..7 -> Int]]
  BY <1>4, <1>5
<1>7. \A s, t \in S : K[s] = K[t] => s = t
  <2> SUFFICES ASSUME NEW s \in S, NEW t \in S, K[s] = K[t] PROVE s = t
    OBVIOUS
  <2>1. s.source = t.source
    BY <1>5
  <2> QED BY <1>3, <2>1
<1>8. PICK R : R = {e \in S \X S : Before(K[e[1]], K[e[2]])}
  OBVIOUS
<1>9. \A s, t \in S : <<s, t>> \in R <=> Before(K[s], K[t])
  BY <1>8
<1>10. Orders(R, S)
  BY <1>6, <1>7, <1>9, KeyOrders
<1>11. PICK m \in S : \A t \in S \ {m} : <<m, t>> \in R
  BY <1>1, <1>2, <1>10, LeadExists
<1>12. \A t \in S \ {m} : Before(SwapKey(m), SwapKey(t))
  BY <1>4, <1>9, <1>11
<1>13. best \in S /\ \A t \in S \ {best} : Before(SwapKey(best), SwapKey(t))
  BY <1>1, <1>12 DEF Recommended
<1>14. ASSUME NEW t \in S PROVE t.advantage <= best.advantage
  <2>1. t.advantage \in Int /\ best.advantage \in Int
    BY <1>3, <1>13 DEF Swap
  <2>2. CASE t = best
    BY <2>1, <2>2
  <2>3. CASE t # best
    <3>1. PICK a \in [1..7 -> Int], b \in [1..7 -> Int] : a = K[best] /\ b = K[t]
      BY <1>5, <1>13
    <3>2. Before(a, b)
      BY <1>4, <1>13, <2>3, <3>1
    <3>3. 7 \in Nat /\ 7 > 0
      OBVIOUS
    <3>4. a[1] <= b[1]
      BY <3>2, <3>3, FirstNumber
    <3>5. -best.advantage <= -t.advantage
      BY <1>5, <1>13, <3>1, <3>4
    <3> QED BY <2>1, <3>5
  <2> QED BY <2>2, <2>3
<1>15. \A source \in Sources(p) : SwapOf(p, source) # None => SwapOf(p, source) \in S
  BY <1>1 DEF Swaps
<1> QED
  BY <1>3, <1>13, <1>14, <1>15

-----------------------------------------------------------------------------
(***************************************************************************)
(* The answer.                                                             *)
(***************************************************************************)

\* Neither the inventory nor the price generation is refused for its age.
InTime(p) == p.inventoryAge \in 0..InventoryWindow /\ p.catalogAge \in 0..QuoteWindow

\* What optimize_level_up answers, by the status of the answer.
LEMMA AnswerIs ==
    ASSUME NEW p \in Problems, NEW a, a = Optimize(p)
    PROVE  /\ a.status = "ready" =>
                /\ InTime(p) /\ Swaps(p) # {}
                /\ a.swap = Recommended(Swaps(p))
                /\ a.validUntil = ValidUntil(p, {a.swap.oldest})
           /\ a.status = "no_opportunity" =>
                /\ InTime(p) /\ Swaps(p) = {}
                /\ a.alternatives = Alternatives(p)
                /\ a.alternatives # {} =>
                     a.validUntil = ValidUntil(p, {x.oldest : x \in a.alternatives})
<1>1. p.inventoryAge \in Int /\ p.catalogAge \in Int
  BY ProblemIs
<1>2. PICK swaps, best, offers : /\ swaps = Swaps(p) /\ best = Recommended(swaps)
                                 /\ offers = Alternatives(p)
  OBVIOUS
<1>3. CASE ~ InTime(p)
  <2>1. \/ p.inventoryAge \notin 0..InventoryWindow
        \/ p.inventoryAge \in 0..InventoryWindow /\ p.catalogAge > QuoteWindow
        \/ p.inventoryAge \in 0..InventoryWindow /\ p.catalogAge < 0
    BY <1>1, <1>3, WindowIs DEF InTime
  <2>2. \/ a = [status |-> "error", reason |-> "inventory_snapshot_too_old"]
        \/ a = [status |-> "error", reason |-> "price_generation_stale"]
        \/ a = [status |-> "error", reason |-> "price_generation_unavailable"]
    BY <1>1, <2>1, WindowIs DEF Optimize
  <2>3. a.status = "error"
    BY <2>2
  <2> QED BY <2>3
<1>4. CASE InTime(p)
  <2>1. /\ ~ (p.inventoryAge \notin 0..InventoryWindow)
        /\ ~ (p.inventoryAge \in 0..InventoryWindow /\ p.catalogAge > QuoteWindow)
        /\ ~ (p.inventoryAge \in 0..InventoryWindow /\ p.catalogAge < 0)
    BY <1>1, <1>4, WindowIs DEF InTime
  <2>2. PICK ready, none :
          /\ ready = [status |-> "ready", reason |-> "ready", swap |-> best,
                      validUntil |-> ValidUntil(p, {best.oldest}),
                      player |-> Projection(p.xp, best.funded)]
          /\ none = [status |-> "no_opportunity", alternatives |-> offers,
                     reason |-> IF Sources(p) = {} THEN "no_sellable_card"
                                ELSE "no_positive_xp_swap",
                     validUntil |-> IF offers = {} THEN None
                                    ELSE ValidUntil(p, {x.oldest : x \in offers})]
    OBVIOUS
  <2>3. a = IF swaps # {} THEN ready ELSE none
    BY <1>2, <2>1, <2>2 DEF Optimize
  <2>4. CASE swaps # {}
    <3>1. a = ready
      BY <2>3, <2>4
    <3>2. a.status = "ready" /\ a.swap = best /\ a.validUntil = ValidUntil(p, {best.oldest})
      BY <2>2, <3>1
    <3> QED BY <1>2, <1>4, <2>4, <3>2
  <2>5. CASE swaps = {}
    <3>1. a = none
      BY <2>3, <2>5
    <3>2. /\ a.status = "no_opportunity" /\ a.alternatives = offers
          /\ offers # {} => a.validUntil = ValidUntil(p, {x.oldest : x \in offers})
      BY <2>2, <3>1
    <3> QED BY <1>2, <1>4, <2>5, <3>2
  <2> QED BY <2>4, <2>5
<1> QED
  BY <1>3, <1>4

\* The deadline is not later than any quote's, and not before the request.
LEMMA DeadlineIs ==
    ASSUME NEW p \in Problems, InTime(p), NEW ages, IsFiniteSet(ages), ages \subseteq Int
    PROVE  /\ ValidUntil(p, ages) \in Int
           /\ \A age \in ages : ValidUntil(p, ages) + age <= QuoteWindow
           /\ (\A age \in ages : age <= QuoteWindow) => ValidUntil(p, ages) >= 0
<1>1. p.inventoryAge \in Int /\ p.catalogAge \in Int
  BY ProblemIs
<1>2. PICK h : h = [age \in ages |-> QuoteWindow - age]
  OBVIOUS
<1>3. PICK S : S = {InventoryWindow - p.inventoryAge, QuoteWindow - p.catalogAge}
                     \union {QuoteWindow - age : age \in ages}
  OBVIOUS
<1>4. ValidUntil(p, ages) = Min(S)
  BY <1>3 DEF ValidUntil
<1>5. IsFiniteSet(S)
  <2>1. IsFiniteSet({h[age] : age \in ages})
    BY ImageIs
  <2>2. {h[age] : age \in ages} = {QuoteWindow - age : age \in ages}
    BY <1>2
  <2>3. IsFiniteSet({InventoryWindow - p.inventoryAge, QuoteWindow - p.catalogAge})
    <3>1. PICK x, y : x = InventoryWindow - p.inventoryAge /\ y = QuoteWindow - p.catalogAge
      OBVIOUS
    <3>2. {x, y} = {x} \union {y}
      OBVIOUS
    <3>3. IsFiniteSet({x}) /\ IsFiniteSet({y})
      BY FS_Singleton
    <3>4. IsFiniteSet({x} \union {y})
      BY <3>3, FS_Union
    <3> QED BY <3>1, <3>2, <3>4
  <2> QED BY <1>3, <2>1, <2>2, <2>3, FS_Union
<1>6. S \subseteq Int /\ S # {}
  BY <1>1, <1>3, WindowIs
<1>7. Min(S) \in S /\ \A x \in S : Min(S) <= x
  BY <1>5, <1>6, LeastIs
<1>8. Min(S) \in Int
  BY <1>6, <1>7
<1>9. ASSUME NEW age \in ages PROVE Min(S) + age <= QuoteWindow
  <2>1. QuoteWindow - age \in S
    BY <1>3
  <2>2. Min(S) <= QuoteWindow - age /\ age \in Int
    BY <1>7, <2>1
  <2> QED BY <1>8, <2>2, WindowIs
<1>10. ASSUME \A age \in ages : age <= QuoteWindow PROVE Min(S) >= 0
  <2>1. InventoryWindow - p.inventoryAge >= 0 /\ QuoteWindow - p.catalogAge >= 0
    BY <1>1, WindowIs DEF InTime
  <2>2. \A age \in ages : QuoteWindow - age >= 0
    BY <1>10, WindowIs
  <2>3. \A x \in S : x >= 0
    BY <1>3, <2>1, <2>2
  <2> QED BY <1>7, <2>3
<1> QED
  BY <1>4, <1>8, <1>9, <1>10

\* The call has its arguments, and its answer is the one that Optimize gives.
LevelUpInv == problem \in Problems /\ (answer = None \/ answer = Optimize(problem))

\* The answer is the one to the call's arguments.
THEOREM AnswersProblem == LevelUpSpec => []LevelUpInv
<1>1. LevelUpInit => LevelUpInv
  BY DEF LevelUpInit, LevelUpInv
<1>2. LevelUpInv /\ [Answer]_levelUpVars => LevelUpInv'
  <2> SUFFICES ASSUME LevelUpInv, [Answer]_levelUpVars PROVE LevelUpInv'
    OBVIOUS
  <2>1. CASE Answer
    BY <2>1 DEF LevelUpInv, Answer
  <2>2. CASE UNCHANGED levelUpVars
    BY <2>2 DEF LevelUpInv, levelUpVars
  <2> QED BY <2>1, <2>2
<1> QED
  BY <1>1, <1>2, PTL DEF LevelUpSpec

-----------------------------------------------------------------------------
\* A quote of a recommended swap is not older than the swap says, which is not
\* older than the answers may be.
LEMMA OldestIs ==
    ASSUME NEW p \in Problems, NEW source \in Sources(p), NEW s, s = SwapOf(p, source), s # None
    PROVE  /\ s.oldest \in Int /\ s.oldest <= QuoteWindow
           /\ p.bid[source].age \in Int /\ p.bid[source].age <= s.oldest
           /\ \A d \in s.destinations :
                \A card \in d.rows : p.ask[card].age \in Int /\ p.ask[card].age <= s.oldest
<1>1. PICK W : W = Paid(p, source)
  OBVIOUS
<1>2. IsFiniteSet(W) /\ W \in SUBSET Destinations(p, source)
  BY <1>1, LookedIs
<1>3. PICK A : A = {p.bid[source].age} \union {d.oldest : d \in W}
  OBVIOUS
<1>4. s.destinations = W /\ s.oldest = Max(A)
  BY <1>1, <1>3, SwapIs
<1>5. \A d \in W : d.oldest \in Int /\ d.oldest <= QuoteWindow
  BY <1>2, MemberIs, WindowIs
<1>6. p.bid[source].age \in Int /\ p.bid[source].age <= QuoteWindow
  BY SourceIs, WindowIs
<1>7. IsFiniteSet(A)
  <2>1. PICK h : h = [d \in W |-> d.oldest]
    OBVIOUS
  <2>2. IsFiniteSet({h[d] : d \in W})
    BY <1>2, ImageIs
  <2>3. {h[d] : d \in W} = {d.oldest : d \in W}
    BY <2>1
  <2>4. IsFiniteSet({p.bid[source].age})
    BY FS_Singleton
  <2> QED BY <1>3, <2>2, <2>3, <2>4, FS_Union
<1>8. A \subseteq Int /\ A # {} /\ \A n \in A : n <= QuoteWindow
  BY <1>3, <1>5, <1>6
<1>9. Max(A) \in A /\ \A n \in A : n <= Max(A)
  BY <1>7, <1>8, MaxIs
<1>10. s.oldest \in Int /\ s.oldest <= QuoteWindow /\ p.bid[source].age <= s.oldest
  BY <1>3, <1>4, <1>8, <1>9
<1>11. ASSUME NEW d \in W, NEW card \in d.rows
       PROVE  p.ask[card].age \in Int /\ p.ask[card].age <= s.oldest
  <2>1. p.ask[card].age \in Int /\ p.ask[card].age <= d.oldest
    BY <1>2, <1>11, MemberIs
  <2>2. d.oldest \in Int /\ d.oldest <= s.oldest
    BY <1>3, <1>4, <1>5, <1>9
  <2> QED BY <1>10, <2>1, <2>2
<1> QED
  BY <1>4, <1>6, <1>10, <1>11

\* The advantage of a swap is what its games bring, and its receipt pays for them.
LEMMA SwapReal ==
    ASSUME NEW p \in Problems, NEW source \in Sources(p), NEW s, s = SwapOf(p, source), s # None
    PROVE  /\ s.source = source
           /\ GamesOf(s.destinations) \in SUBSET Games
           /\ s.advantage = Gain(p, source, GamesOf(s.destinations)) /\ s.advantage > 0
           /\ Pays(p, source, GamesOf(s.destinations))
           /\ UNION {d.rows : d \in s.destinations} = Bought(p, source, GamesOf(s.destinations))
<1>1. PICK T : T = Paid(p, source)
  OBVIOUS
<1>2. /\ T \in SUBSET Destinations(p, source) /\ IsFiniteSet(T) /\ Cardinality(T) \in Nat
      /\ Cost(T) <= Receipt(p, source)
  BY <1>1, LookedIs
<1>3. PICK n \in Nat : n = Cardinality(T)
  BY <1>2
<1>4. PICK k \in Nat : k = Lost(p, source)
  BY LostIs
<1>5. s.source = source /\ s.destinations = T /\ k + 1 <= n /\ s.advantage = (n - k) * 100
  BY <1>1, <1>3, <1>4, SwapIs
<1>6. PICK games : games = GamesOf(T)
  OBVIOUS
<1>7. /\ games \in SUBSET Games /\ Fair(p, source, games) /\ Chosen(p, source, games) = T
      /\ \A g \in games : p.level[g] < 5
  BY <1>2, <1>6, GamesOfIs
<1>8. /\ Bought(p, source, games) = UNION {d.rows : d \in T}
      /\ Cardinality(Incomplete(p, source, games)) = n
      /\ Pays(p, source, games)
  BY <1>2, <1>3, <1>7, ChosenIs
<1>9. Gain(p, source, games) = (n - k) * 100
  BY <1>4, <1>7, <1>8, GainIs
<1>10. s.advantage > 0
  BY <1>5
<1> QED
  BY <1>5, <1>6, <1>7, <1>8, <1>9, <1>10

\* The promised advantage of an answer is real.
LEMMA ReadyReal ==
    ASSUME NEW p \in Problems, NEW a, a = Optimize(p), a.status = "ready"
    PROVE  /\ a.swap.advantage = Gain(p, a.swap.source, GamesOf(a.swap.destinations))
           /\ a.swap.advantage > 0
           /\ Pays(p, a.swap.source, GamesOf(a.swap.destinations))
           /\ UNION {d.rows : d \in a.swap.destinations}
                = Bought(p, a.swap.source, GamesOf(a.swap.destinations))
           /\ a.validUntil >= 0
           /\ \A age \in {p.bid[a.swap.source].age}
                           \union {p.ask[card].age : card \in Bought(p, a.swap.source,
                                                                    GamesOf(a.swap.destinations))} :
                  a.validUntil + age <= QuoteWindow
<1>1. PICK s : s = a.swap
  OBVIOUS
<1>2. InTime(p) /\ Swaps(p) # {} /\ s = Recommended(Swaps(p)) /\ a.validUntil = ValidUntil(p, {s.oldest})
  BY <1>1, AnswerIs
<1>3. PICK source \in Sources(p) : source = s.source /\ s = SwapOf(p, source) /\ s # None
  BY <1>2, RecommendedIs
<1>4. PICK games : games = GamesOf(s.destinations)
  OBVIOUS
<1>5. /\ s.advantage = Gain(p, source, games) /\ s.advantage > 0 /\ Pays(p, source, games)
      /\ UNION {d.rows : d \in s.destinations} = Bought(p, source, games)
  BY <1>3, <1>4, SwapReal
<1>6. /\ s.oldest \in Int /\ s.oldest <= QuoteWindow
      /\ p.bid[source].age \in Int /\ p.bid[source].age <= s.oldest
      /\ \A d \in s.destinations :
           \A card \in d.rows : p.ask[card].age \in Int /\ p.ask[card].age <= s.oldest
  BY <1>3, OldestIs
<1>7. PICK v : v = ValidUntil(p, {s.oldest})
  OBVIOUS
<1>8. v \in Int /\ v + s.oldest <= QuoteWindow /\ v >= 0
  <2>1. PICK ages : ages = {s.oldest}
    OBVIOUS
  <2>2. IsFiniteSet(ages) /\ ages \subseteq Int
    BY <1>6, <2>1, FS_Singleton
  <2>3. /\ ValidUntil(p, ages) \in Int
        /\ \A age \in ages : ValidUntil(p, ages) + age <= QuoteWindow
        /\ (\A age \in ages : age <= QuoteWindow) => ValidUntil(p, ages) >= 0
    BY <1>2, <2>2, DeadlineIs
  <2> QED BY <1>6, <1>7, <2>1, <2>3
<1>9. ASSUME NEW age \in {p.bid[source].age} \union {p.ask[card].age : card \in Bought(p, source, games)}
      PROVE  v + age <= QuoteWindow
  <2>1. age \in Int /\ age <= s.oldest
    <3>1. CASE age = p.bid[source].age
      BY <1>6, <3>1
    <3>2. CASE age \in {p.ask[card].age : card \in Bought(p, source, games)}
      <4>1. PICK card \in Bought(p, source, games) : age = p.ask[card].age
        BY <3>2
      <4>2. PICK d \in s.destinations : card \in d.rows
        BY <1>5, <4>1
      <4> QED BY <1>6, <4>1, <4>2
    <3> QED BY <1>9, <3>1, <3>2
  <2> QED BY <1>6, <1>8, <2>1, WindowIs
<1>10. a.validUntil = v
  BY <1>2, <1>7
<1> QED
  BY <1>1, <1>3, <1>4, <1>5, <1>8, <1>9, <1>10

\* What optimize_level_up recommends is real: crafting gains the promised advantage,
\* the receipt pays for exactly the listed rows, and the answer lapses before any
\* quote that it rests on is too old.
THEOREM AdvantageIsReal == LevelUpSpec => []AdvantageReal
<1>1. ASSUME LevelUpInv PROVE AdvantageReal
  <2> SUFFICES ASSUME answer # None, answer.status = "ready" PROVE AdvantageReal
    BY DEF AdvantageReal
  <2>1. problem \in Problems /\ answer = Optimize(problem)
    BY <1>1 DEF LevelUpInv
  <2> QED BY <2>1, ReadyReal DEF AdvantageReal, GamesOf
<1> QED
  BY <1>1, AnswersProblem, PTL

\* No sale and no choice of badges does better than the answer.
LEMMA AnswerBest ==
    ASSUME NEW p \in Problems, NEW a, a = Optimize(p),
           NEW source \in Sources(p), NEW games \in SUBSET Games,
           Cardinality(games) <= MaxDestinations, Pays(p, source, games)
    PROVE  /\ a.status = "ready" => Gain(p, source, games) <= a.swap.advantage
           /\ a.status = "no_opportunity" => Gain(p, source, games) <= 0
<1>1. PICK gain : gain = Gain(p, source, games)
  OBVIOUS
<1>2. gain \in Int
  <2>1. /\ Cardinality(Incomplete(p, source, games)) \in Nat
        /\ gain = (Cardinality(Incomplete(p, source, games)) - Lost(p, source)) * 100
    BY <1>1, GainIs DEF Pays
  <2> QED BY <2>1, LostIs
<1>3. PICK t : t = SwapOf(p, source)
  OBVIOUS
<1>4. gain <= 0 \/ (t # None /\ gain <= t.advantage)
  BY <1>1, <1>3, SwapBeats
<1>5. ASSUME a.status = "ready" PROVE gain <= a.swap.advantage
  <2>1. PICK s : s = a.swap
    OBVIOUS
  <2>2. Swaps(p) # {} /\ s = Recommended(Swaps(p))
    BY <1>5, <2>1, AnswerIs
  <2>3. /\ s.source \in Sources(p) /\ s = SwapOf(p, s.source) /\ s # None
        /\ t # None => t.advantage <= s.advantage
    BY <1>3, <2>2, RecommendedIs
  <2>4. s \in Swap /\ s.advantage > 0
    BY <2>3, SwapIs, SwapReal
  <2>5. s.advantage \in Int
    BY <2>4 DEF Swap
  <2>6. CASE gain <= 0
    BY <1>2, <2>1, <2>4, <2>5, <2>6
  <2>7. CASE t # None /\ gain <= t.advantage
    <3>1. t \in Swap
      BY <1>3, <2>7, SwapIs
    <3>2. t.advantage \in Int
      BY <3>1 DEF Swap
    <3> QED BY <1>2, <2>1, <2>3, <2>5, <2>7, <3>2
  <2> QED BY <1>4, <2>6, <2>7
<1>6. ASSUME a.status = "no_opportunity" PROVE gain <= 0
  <2>1. Swaps(p) = {}
    BY <1>6, AnswerIs
  <2>2. t = None
    BY <1>3, <2>1 DEF Swaps
  <2> QED BY <1>4, <2>2
<1> QED
  BY <1>1, <1>5, <1>6

\* The recommendation of optimize_level_up is the best there is: the prefix of the
\* cheapest destinations of each source loses no gain, and "limited" is said exactly
\* when one more badge could be paid for.
THEOREM SwapIsBest == LevelUpSpec => []BestSwap
<1>1. ASSUME LevelUpInv PROVE BestSwap
  <2> SUFFICES ASSUME answer # None PROVE BestSwap
    BY DEF BestSwap
  <2>1. problem \in Problems /\ answer = Optimize(problem)
    BY <1>1 DEF LevelUpInv
  <2>2. ASSUME NEW source \in Sources(problem), NEW games \in SUBSET Games,
               Cardinality(games) <= MaxDestinations, Pays(problem, source, games)
        PROVE  /\ answer.status = "ready" => Gain(problem, source, games) <= answer.swap.advantage
               /\ answer.status = "no_opportunity" => Gain(problem, source, games) <= 0
    BY <2>1, <2>2, AnswerBest
  <2>3. ASSUME answer.status = "ready",
               NEW I, I = {g \in Games : \E card \in CardsOf[g] :
                                            Left(problem, answer.swap.source)[card] = 0}
        PROVE  answer.swap.limited <=>
                 \E games \in SUBSET I : /\ Cardinality(games) = MaxDestinations + 1
                                         /\ Pays(problem, answer.swap.source, games)
    <3>1. PICK s : s = answer.swap
      OBVIOUS
    <3>2. Swaps(problem) # {} /\ s = Recommended(Swaps(problem))
      BY <2>1, <2>3, <3>1, AnswerIs
    <3>3. s.source \in Sources(problem) /\ s = SwapOf(problem, s.source) /\ s # None
      BY <2>1, <3>2, RecommendedIs
    <3>4. PICK source \in Sources(problem) : source = s.source
      BY <3>3
    <3>5. SwapOf(problem, source).limited <=>
            \E games \in SUBSET I : /\ Cardinality(games) = MaxDestinations + 1
                                    /\ Pays(problem, source, games)
      BY <2>1, <2>3, <3>1, <3>3, <3>4, LimitedIs
    <3> QED BY <3>1, <3>3, <3>4, <3>5
  <2> QED BY <2>2, <2>3 DEF BestSwap
<1> QED
  BY <1>1, AnswersProblem, PTL

-----------------------------------------------------------------------------
(***************************************************************************)
(* The alternatives.                                                       *)
(***************************************************************************)

\* The quotes of an alternative have an oldest one.
LEMMA AgesAre ==
    ASSUME NEW p \in Problems, NEW source \in Sources(p), NEW d \in Destinations(p, source)
    PROVE  Max(Ages(p, source, d)) \in Int
<1>1. PICK sale, purchase : /\ sale = PatientReceipt(p, source)
                               /\ purchase = PatientPurchase(p, d)
  OBVIOUS
<1>2. PICK X : X = {p.bid[source].age}
  OBVIOUS
<1>3. PICK Y : Y = {p.ask[card].age : card \in d.rows}
  OBVIOUS
<1>4. PICK Z : Z = IF sale = None THEN {} ELSE {p.ask[source].age}
  OBVIOUS
<1>5. PICK W : W = IF purchase = None THEN {} ELSE {p.bid[card].age : card \in d.rows}
  OBVIOUS
<1>6. Ages(p, source, d) = X \union Y \union Z \union W
  BY <1>1, <1>2, <1>3, <1>4, <1>5 DEF Ages
<1>7. source \in Cards /\ p.bid[source].age \in Int /\ d.rows \subseteq Cards /\ IsFiniteSet(d.rows)
  <2>1. d.rows \subseteq Cards
    BY MemberIs, GoneIs
  <2> QED BY <2>1, SourceIs, MemberIs
<1>8. X \subseteq Int /\ IsFiniteSet(X) /\ X # {}
  BY <1>2, <1>7, FS_Singleton
<1>9. Y \subseteq Int /\ IsFiniteSet(Y)
  <2>1. PICK h : h = [card \in d.rows |-> p.ask[card].age]
    OBVIOUS
  <2>2. IsFiniteSet({h[card] : card \in d.rows})
    BY <1>7, ImageIs
  <2>3. {h[card] : card \in d.rows} = Y
    BY <1>3, <2>1
  <2>4. \A card \in d.rows : p.ask[card].age \in Int
    BY MemberIs
  <2>5. Y \subseteq Int
    BY <1>3, <2>4
  <2> QED BY <2>2, <2>3, <2>5
<1>10. Z \subseteq Int /\ IsFiniteSet(Z)
  <2>1. CASE sale = None
    BY <1>4, <2>1, FS_EmptySet
  <2>2. CASE sale # None
    <3>1. SideQuote(p.ask[source]) # None
      BY <1>1, <2>2 DEF PatientReceipt
    <3>2. p.ask[source] \in Side
      BY <1>7, ProblemIs
    <3>3. p.ask[source].age \in Int
      BY <3>1, <3>2, SideIs
    <3> QED BY <1>4, <2>2, <3>3, FS_Singleton
  <2> QED BY <2>1, <2>2
<1>11. W \subseteq Int /\ IsFiniteSet(W)
  <2>1. CASE purchase = None
    BY <1>5, <2>1, FS_EmptySet
  <2>2. CASE purchase # None
    <3>1. \A card \in d.rows : SideQuote(p.bid[card]) # None
      BY <1>1, <2>2 DEF PatientPurchase
    <3>2. \A card \in d.rows : p.bid[card] \in Side
      BY <1>7, ProblemIs
    <3>3. \A card \in d.rows : p.bid[card].age \in Int
      BY <3>1, <3>2, SideIs
    <3>4. PICK h : h = [card \in d.rows |-> p.bid[card].age]
      OBVIOUS
    <3>5. IsFiniteSet({h[card] : card \in d.rows})
      BY <1>7, ImageIs
    <3>6. {h[card] : card \in d.rows} = W
      BY <1>5, <2>2, <3>4
    <3>7. W = {p.bid[card].age : card \in d.rows}
      BY <1>5, <2>2
    <3> QED BY <3>3, <3>5, <3>6, <3>7
  <2> QED BY <2>1, <2>2
<1>12. PICK A : A = X \union Y \union Z \union W
  OBVIOUS
<1>13. IsFiniteSet(A)
  <2>1. IsFiniteSet(X \union Y)
    BY <1>8, <1>9, FS_Union
  <2>2. IsFiniteSet(X \union Y \union Z)
    BY <1>10, <2>1, FS_Union
  <2> QED BY <1>11, <1>12, <2>2, FS_Union
<1>14. A \subseteq Int /\ A # {}
  BY <1>8, <1>9, <1>10, <1>11, <1>12
<1>15. Max(A) \in A
  BY <1>13, <1>14, MaxIs
<1> QED
  BY <1>6, <1>12, <1>14, <1>15

\* All pairs of a sale and a badge.
AllPairs(p) ==
    UNION {{Alternative(p, source, d) : d \in Exchanges(p, source)} : source \in Sources(p)}

\* And those that the sources' prefixes are made of.
PrefixPairs(p) ==
    UNION {{Alternative(p, source, d) : d \in FallbackPrefix(MaxAlternatives, Exchanges(p, source))} :
           source \in Sources(p)}

\* The order of the alternatives.
ByRank(S) == {e \in S \X S : Before(AlternativeRank(e[1]), AlternativeRank(e[2]))}

\* An alternative of a source and a destination.
LEMMA PairIs ==
    ASSUME NEW p \in Problems, NEW source \in Sources(p), NEW d \in Destinations(p, source),
           NEW a, a = Alternative(p, source, d)
    PROVE  /\ a.source = source /\ a.destination = d
           /\ a.net = Receipt(p, source) - d.cost /\ a.net \in Int
           /\ a.foregone = Foregone(p, source) /\ a.foregone \in Int
           /\ a.oldest \in Int
           /\ AlternativeRank(a) = <<-a.net, a.foregone - 100, GameOf(source), source, d.game>>
           /\ AlternativeRank(a) \in [1..5 -> Int]
<1>1. PICK sale, purchase : /\ sale = PatientReceipt(p, source)
                               /\ purchase = PatientPurchase(p, d)
  OBVIOUS
<1>2. PICK old, net, gone : /\ old = Max(Ages(p, source, d)) /\ net = Receipt(p, source) - d.cost
                            /\ gone = Foregone(p, source)
  OBVIOUS
<1>3. PICK patient : patient = IF sale = None \/ purchase = None THEN None ELSE sale - purchase
  OBVIOUS
<1>4. a = [source |-> source, destination |-> d, foregone |-> gone, net |-> net,
           patient |-> patient, oldest |-> old]
  BY <1>1, <1>2, <1>3 DEF Alternative
<1>5. old \in Int
  BY <1>2, AgesAre
<1>6. net \in Int /\ gone \in Int
  <2>1. Receipt(p, source) \in Nat /\ d.cost \in Nat /\ Foregone(p, source) \in Nat
    BY SourceIs, MemberIs, LostIs
  <2> QED BY <1>2, <2>1
<1>7. source \in Int /\ GameOf(source) \in Int /\ d.game \in Int
  <2>1. source \in Nat /\ GameOf(source) \in Nat /\ d.game \in Nat
    BY SourceIs, CardIs, SetIs, MemberIs
  <2> QED BY <2>1
<1>8. AlternativeRank(a) = <<-net, gone - 100, GameOf(source), source, d.game>>
  BY <1>4 DEF AlternativeRank, BadgeXp
<1>9. AlternativeRank(a) \in [1..5 -> Int]
  <2>1. PICK u, v, w : u = -net /\ v = gone - 100 /\ w = GameOf(source)
    OBVIOUS
  <2>2. u \in Int /\ v \in Int /\ w \in Int
    BY <1>6, <1>7, <2>1
  <2>3. <<u, v, w, source, d.game>> \in [1..5 -> Int]
    BY <1>7, <2>2, KeyFive
  <2> QED BY <1>8, <2>1, <2>3
<1> QED
  BY <1>2, <1>4, <1>5, <1>6, <1>8, <1>9

\* The pairs are finitely many, and their ranks put them in a row.
LEMMA PairsOrdered ==
    ASSUME NEW p \in Problems
    PROVE  /\ IsFiniteSet(AllPairs(p)) /\ Orders(ByRank(AllPairs(p)), AllPairs(p))
           /\ PrefixPairs(p) \in SUBSET AllPairs(p)
           /\ \A a \in AllPairs(p) :
                /\ a.source \in Sources(p) /\ a.destination \in Exchanges(p, a.source)
                /\ a = Alternative(p, a.source, a.destination)
<1>1. PICK S : S = AllPairs(p)
  OBVIOUS
<1>2. \A source \in Sources(p) : Exchanges(p, source) \in SUBSET Destinations(p, source)
  BY DEF Exchanges
<1>3. ASSUME NEW a \in S
      PROVE  /\ a.source \in Sources(p) /\ a.destination \in Exchanges(p, a.source)
             /\ a = Alternative(p, a.source, a.destination)
  <2>1. PICK source \in Sources(p) : \E d \in Exchanges(p, source) : a = Alternative(p, source, d)
    BY <1>1 DEF AllPairs
  <2>2. PICK d \in Exchanges(p, source) : a = Alternative(p, source, d)
    BY <2>1
  <2>3. d \in Destinations(p, source)
    BY <1>2
  <2>4. a.source = source /\ a.destination = d
    BY <2>2, <2>3, PairIs
  <2> QED BY <2>2, <2>4
<1>4. IsFiniteSet(S)
  <2>1. PICK Row : Row = [source \in Sources(p) |-> {Alternative(p, source, d) : d \in Exchanges(p, source)}]
    OBVIOUS
  <2>2. IsFiniteSet(Sources(p))
    BY CatalogAssumption, FS_Subset DEF Sources
  <2>3. IsFiniteSet({Row[source] : source \in Sources(p)})
    BY <2>2, ImageIs
  <2>4. ASSUME NEW source \in Sources(p) PROVE IsFiniteSet(Row[source])
    <3>1. PICK h : h = [d \in Exchanges(p, source) |-> Alternative(p, source, d)]
      OBVIOUS
    <3>2. IsFiniteSet(Exchanges(p, source))
      BY <1>2, DestinationsOrdered
    <3>3. IsFiniteSet({h[d] : d \in Exchanges(p, source)})
      BY <3>2, ImageIs
    <3>4. {h[d] : d \in Exchanges(p, source)} = Row[source]
      BY <2>1, <3>1
    <3> QED BY <3>3, <3>4
  <2>5. \A T \in {Row[source] : source \in Sources(p)} : IsFiniteSet(T)
    BY <2>4
  <2>6. S = UNION {Row[source] : source \in Sources(p)}
    <3>1. {Row[source] : source \in Sources(p)}
            = {{Alternative(p, source, d) : d \in Exchanges(p, source)} : source \in Sources(p)}
      BY <2>1
    <3> QED BY <1>1, <3>1 DEF AllPairs
  <2> QED BY <2>3, <2>5, <2>6, FS_UNION
<1>5. PICK K : K = [a \in S |-> AlternativeRank(a)]
  OBVIOUS
<1>6. ASSUME NEW a \in S
      PROVE  K[a] \in [1..5 -> Int] /\ K[a][4] = a.source /\ K[a][5] = a.destination.game
  <2>0. PICK source \in Sources(p) : source = a.source
    BY <1>3
  <2>1. PICK d \in Destinations(p, source) : d = a.destination /\ a = Alternative(p, source, d)
    BY <1>2, <1>3, <2>0
  <2>2. /\ AlternativeRank(a) = <<-a.net, a.foregone - 100, GameOf(source), source, d.game>>
        /\ AlternativeRank(a) \in [1..5 -> Int]
    BY <2>1, PairIs
  <2>3. K[a] = AlternativeRank(a)
    BY <1>5
  <2>4. PICK u, v, w, x, y : /\ u = -a.net /\ v = a.foregone - 100 /\ w = GameOf(source)
                             /\ x = source /\ y = d.game
    OBVIOUS
  <2>5. K[a] = <<u, v, w, x, y>>
    BY <2>2, <2>3, <2>4
  <2>6. <<u, v, w, x, y>>[4] = x /\ <<u, v, w, x, y>>[5] = y
    OBVIOUS
  <2> QED BY <2>0, <2>1, <2>2, <2>3, <2>4, <2>5, <2>6
<1>7. K \in [S -> [1..5 -> Int]]
  BY <1>5, <1>6
<1>8. ASSUME NEW a \in S, NEW b \in S, K[a] = K[b] PROVE a = b
  <2>1. a.source = b.source /\ a.destination.game = b.destination.game
    BY <1>6, <1>8
  <2>2. PICK source \in Sources(p) : source = a.source /\ source = b.source
    BY <1>3, <2>1
  <2>3. a.destination \in Destinations(p, source) /\ b.destination \in Destinations(p, source)
    BY <1>2, <1>3, <2>2
  <2>4. a.destination = b.destination
    BY <2>1, <2>3, DestinationsOrdered
  <2> QED BY <1>3, <2>2, <2>4
<1>9. \A a, b \in S : <<a, b>> \in ByRank(S) <=> Before(K[a], K[b])
  BY <1>5 DEF ByRank
<1>10. Orders(ByRank(S), S)
  BY <1>7, <1>8, <1>9, KeyOrders
<1>11. PrefixPairs(p) \subseteq S
  <2>1. \A source \in Sources(p) :
          FallbackPrefix(MaxAlternatives, Exchanges(p, source)) \subseteq Exchanges(p, source)
    BY PrefixIs DEF FirstOf
  <2>2. ASSUME NEW a \in PrefixPairs(p) PROVE a \in S
    <3>1. PICK source \in Sources(p) :
            \E d \in FallbackPrefix(MaxAlternatives, Exchanges(p, source)) : a = Alternative(p, source, d)
      BY DEF PrefixPairs
    <3>2. \E d \in Exchanges(p, source) : a = Alternative(p, source, d)
      BY <2>1, <3>1
    <3> QED BY <1>1, <3>2 DEF AllPairs
  <2> QED BY <2>2
<1> QED
  BY <1>1, <1>3, <1>4, <1>10, <1>11

\* The cheaper of two destinations of a source gives the alternative that goes first.
LEMMA CheaperFirst ==
    ASSUME NEW p \in Problems, NEW source \in Sources(p),
           NEW x \in Destinations(p, source), NEW d \in Destinations(p, source),
           Before(AlternativeKey(x), AlternativeKey(d))
    PROVE  Before(AlternativeRank(Alternative(p, source, x)),
                  AlternativeRank(Alternative(p, source, d)))
<1>1. PICK a, b : a = Alternative(p, source, x) /\ b = Alternative(p, source, d)
  OBVIOUS
<1>2. PICK r, f, h, j \in Int :
        /\ r = Receipt(p, source) /\ f = Foregone(p, source) - 100
        /\ h = GameOf(source) /\ j = source
  <2>1. Receipt(p, source) \in Int /\ Foregone(p, source) - 100 \in Int
    BY SourceIs, LostIs
  <2>2. GameOf(source) \in Int /\ source \in Int
    <3>1. GameOf(source) \in Nat /\ source \in Nat
      BY SourceIs, CardIs, SetIs
    <3> QED BY <3>1
  <2> QED BY <2>1, <2>2
<1>3. PICK c, e, u, v \in Int : c = x.cost /\ e = d.cost /\ u = x.game /\ v = d.game
  <2>1. x.cost \in Int /\ d.cost \in Int
    BY MemberIs
  <2>2. x.game \in Nat /\ d.game \in Nat
    BY MemberIs, SetIs
  <2> QED BY <2>1, <2>2
<1>4. c < e \/ (c = e /\ u < v)
  <2>1. PICK y, z : y = <<c, u>> /\ z = <<e, v>>
    OBVIOUS
  <2>2. y \in [1..2 -> Int] /\ z \in [1..2 -> Int]
    BY <2>1, KeyTwo
  <2>3. Before(y, z)
    BY <1>3, <2>1 DEF AlternativeKey
  <2>4. PICK i \in 1..2 : y[i] < z[i] /\ \A n \in 1..i - 1 : y[n] = z[n]
    BY <2>2, <2>3 DEF Before
  <2>5. y[1] = c /\ y[2] = u /\ z[1] = e /\ z[2] = v
    BY <2>1
  <2>6. i = 1 \/ i = 2
    OBVIOUS
  <2>7. CASE i = 1
    BY <2>4, <2>5, <2>7
  <2>8. CASE i = 2
    <3>1. 1 \in 1..i - 1
      BY <2>8
    <3> QED BY <2>4, <2>5, <2>8, <3>1
  <2> QED BY <2>6, <2>7, <2>8
<1>5. PICK y, z : y = <<-(r - c), f, h, j, u>> /\ z = <<-(r - e), f, h, j, v>>
  OBVIOUS
<1>6. y = AlternativeRank(a) /\ z = AlternativeRank(b)
  <2>1. /\ a.net = r - c /\ a.foregone - 100 = f
        /\ AlternativeRank(a) = <<-a.net, a.foregone - 100, GameOf(source), source, x.game>>
    BY <1>1, <1>2, <1>3, PairIs
  <2>2. /\ b.net = r - e /\ b.foregone - 100 = f
        /\ AlternativeRank(b) = <<-b.net, b.foregone - 100, GameOf(source), source, d.game>>
    BY <1>1, <1>2, <1>3, PairIs
  <2> QED BY <1>2, <1>3, <1>5, <2>1, <2>2
<1>7. y \in [1..5 -> Int] /\ z \in [1..5 -> Int]
  BY <1>1, <1>6, PairIs
<1>8. /\ y[1] = -(r - c) /\ y[2] = f /\ y[3] = h /\ y[4] = j /\ y[5] = u
      /\ z[1] = -(r - e) /\ z[2] = f /\ z[3] = h /\ z[4] = j /\ z[5] = v
  BY <1>5
<1>9. Before(y, z)
  <2>1. CASE c < e
    <3>1. y[1] < z[1]
      BY <1>8, <2>1
    <3>2. \A n \in 1..1 - 1 : y[n] = z[n]
      OBVIOUS
    <3>3. 1 \in DOMAIN y
      BY <1>7
    <3> QED BY <3>1, <3>2, <3>3 DEF Before
  <2>2. CASE c = e /\ u < v
    <3>1. y[5] < z[5]
      BY <1>8, <2>2
    <3>2. ASSUME NEW n \in 1..5 - 1 PROVE y[n] = z[n]
      <4>1. n = 1 \/ n = 2 \/ n = 3 \/ n = 4
        OBVIOUS
      <4> QED BY <1>8, <2>2, <4>1
    <3>3. 5 \in DOMAIN y
      BY <1>7
    <3> QED BY <3>1, <3>2, <3>3 DEF Before
  <2> QED BY <1>4, <2>1, <2>2
<1> QED
  BY <1>1, <1>6, <1>9

\* A pair outside its source's prefix is not among the first pairs: that many pairs
\* of the same source go before it.
LEMMA NoneIsLost ==
    ASSUME NEW p \in Problems
    PROVE  FirstOf(MaxAlternatives, AllPairs(p), ByRank(AllPairs(p))) \subseteq PrefixPairs(p)
<1>1. PICK S, R : S = AllPairs(p) /\ R = ByRank(S)
  OBVIOUS
<1>2. PICK N \in Nat : N = MaxAlternatives
  BY WindowIs
<1>3. IsFiniteSet(S)
  BY <1>1, PairsOrdered
<1>4. ASSUME NEW a \in FirstOf(N, S, R) PROVE a \in PrefixPairs(p)
  <2>1. PICK A : A = {e \in S : <<e, a>> \in R}
    OBVIOUS
  <2>2. a \in S /\ Cardinality(A) < N
    BY <2>1 DEF FirstOf
  <2>3. PICK source \in Sources(p) : source = a.source
    BY <1>1, <2>2, PairsOrdered
  <2>4. PICK E : E = Exchanges(p, source)
    OBVIOUS
  <2>5. E \in SUBSET Destinations(p, source)
    BY <2>4 DEF Exchanges
  <2>6. PICK d \in E : a = Alternative(p, source, d)
    BY <1>1, <2>2, <2>3, <2>4, PairsOrdered
  <2>7. PICK P : P = FallbackPrefix(N, E)
    OBVIOUS
  <2>8. P = FirstOf(N, E, ByCost(E)) /\ IsFiniteSet(E) /\ Orders(ByCost(E), E)
    BY <2>5, <2>7, PrefixIs, DestinationsOrdered
  <2>9. P \in SUBSET E
    BY <2>8 DEF FirstOf
  <2>10. ASSUME d \notin P PROVE FALSE
    <3>1. IsFiniteSet(P) /\ Cardinality(P) # Cardinality(E)
      BY <2>8, <2>9, <2>10, FS_Subset
    <3>2. Cardinality(P) = N
      BY <2>8, <3>1, FirstSize
    <3>3. PICK h : h = [x \in P |-> Alternative(p, source, x)]
      OBVIOUS
    <3>4. PICK H : H = {h[x] : x \in P}
      OBVIOUS
    <3>5. ASSUME NEW x \in P, NEW y \in P, h[x] = h[y] PROVE x = y
      <4>1. x \in Destinations(p, source) /\ y \in Destinations(p, source)
        BY <2>5, <2>9
      <4>2. h[x].destination = x /\ h[y].destination = y
        BY <3>3, <4>1, PairIs
      <4> QED BY <3>5, <4>2
    <3>6. Cardinality(H) = N
      BY <3>1, <3>2, <3>4, <3>5, ImageIs
    <3>7. ASSUME NEW x \in P PROVE h[x] \in A
      <4>1. <<x, d>> \in ByCost(E)
        BY <2>8, <2>10, FirstAhead
      <4>2. Before(AlternativeKey(x), AlternativeKey(d))
        BY <4>1 DEF ByCost
      <4>3. x \in Destinations(p, source) /\ d \in Destinations(p, source)
        BY <2>5, <2>9
      <4>4. h[x] = Alternative(p, source, x)
        BY <3>3
      <4>5. Before(AlternativeRank(h[x]), AlternativeRank(a))
        BY <2>6, <4>2, <4>3, <4>4, CheaperFirst
      <4>6. h[x] \in S
        BY <1>1, <2>4, <2>9, <4>4 DEF AllPairs
      <4>7. <<h[x], a>> \in R
        BY <1>1, <2>2, <4>5, <4>6 DEF ByRank
      <4> QED BY <2>1, <4>6, <4>7
    <3>8. H \subseteq A
      BY <3>4, <3>7
    <3>9. IsFiniteSet(A)
      BY <1>3, <2>1, FS_Subset
    <3>10. Cardinality(H) <= Cardinality(A) /\ Cardinality(A) \in Nat
      BY <3>8, <3>9, FS_Subset, FS_CardinalityType
    <3> QED BY <2>2, <3>6, <3>10
  <2>11. d \in P
    BY <2>10
  <2> QED BY <1>2, <2>4, <2>6, <2>7, <2>11 DEF PrefixPairs
<1> QED
  BY <1>1, <1>2, <1>4

\* The alternatives are the first of all pairs.
LEMMA AlternativesAre ==
    ASSUME NEW p \in Problems
    PROVE  Alternatives(p) = FirstOf(MaxAlternatives, AllPairs(p), ByRank(AllPairs(p)))
<1>1. PICK S, R, U : S = AllPairs(p) /\ R = ByRank(S) /\ U = PrefixPairs(p)
  OBVIOUS
<1>2. U \in SUBSET S
  BY <1>1, PairsOrdered
<1>3. Alternatives(p) = {a \in U : Cardinality({e \in U : Before(AlternativeRank(e),
                                                               AlternativeRank(a))}) < MaxAlternatives}
  BY <1>1 DEF Alternatives, First, PrefixPairs
<1>4. \A a \in U : {e \in U : Before(AlternativeRank(e), AlternativeRank(a))}
                     = {e \in U : <<e, a>> \in R}
  BY <1>1, <1>2 DEF ByRank
<1>5. Alternatives(p) = FirstOf(MaxAlternatives, U, R)
  BY <1>3, <1>4 DEF FirstOf
<1>6. PICK N \in Nat : N = MaxAlternatives
  BY WindowIs
<1>7. FirstOf(N, S, R) \subseteq U
  BY <1>1, <1>6, NoneIsLost
<1>8. IsFiniteSet(S) /\ Orders(R, S)
  BY <1>1, PairsOrdered
<1>9. FirstOf(N, U, R) = FirstOf(N, S, R)
  BY <1>2, <1>7, <1>8, FirstWithin
<1> QED
  BY <1>1, <1>5, <1>6, <1>9

\* The answer without a recommendation lists the best pairs.
LEMMA FallbackBest ==
    ASSUME NEW p \in Problems, NEW ans, ans = Optimize(p), ans.status = "no_opportunity"
    PROVE  /\ \A a \in ans.alternatives, b \in AllPairs(p) \ ans.alternatives :
                  Before(AlternativeRank(a), AlternativeRank(b))
           /\ Cardinality(ans.alternatives) = Min({MaxAlternatives, Cardinality(AllPairs(p))})
           /\ \A a \in ans.alternatives :
                  /\ a.net = Receipt(p, a.source) - a.destination.cost
                  /\ ans.validUntil <= QuoteWindow - a.oldest
<1>1. PICK S, R, T : S = AllPairs(p) /\ R = ByRank(S) /\ T = ans.alternatives
  OBVIOUS
<1>2. PICK N \in Nat : N = MaxAlternatives
  BY WindowIs
<1>3. /\ InTime(p) /\ T = Alternatives(p)
      /\ T # {} => ans.validUntil = ValidUntil(p, {x.oldest : x \in T})
  BY <1>1, AnswerIs
<1>4. T = FirstOf(N, S, R) /\ T \in SUBSET S
  <2>1. T = FirstOf(N, S, R)
    BY <1>1, <1>2, <1>3, AlternativesAre
  <2> QED BY <2>1 DEF FirstOf
<1>5. IsFiniteSet(S) /\ Orders(R, S) /\ IsFiniteSet(T) /\ Cardinality(S) \in Nat
  BY <1>1, <1>4, PairsOrdered, FS_Subset, FS_CardinalityType
<1>6. ASSUME NEW a \in T, NEW b \in S \ T PROVE Before(AlternativeRank(a), AlternativeRank(b))
  <2>1. <<a, b>> \in R
    BY <1>4, <1>5, FirstAhead
  <2> QED BY <1>1, <2>1 DEF ByRank
<1>7. Cardinality(T) = Min({N, Cardinality(S)})
  <2>1. Cardinality(T) = IF N < Cardinality(S) THEN N ELSE Cardinality(S)
    BY <1>4, <1>5, FirstSize
  <2>2. PICK M : M = {N, Cardinality(S)}
    OBVIOUS
  <2>3. M \subseteq Nat /\ M # {}
    BY <1>5, <2>2
  <2>4. Min(M) \in M /\ \A x \in M : Min(M) <= x
    BY <2>3, MinIs
  <2>5. Min(M) = IF N < Cardinality(S) THEN N ELSE Cardinality(S)
    BY <1>5, <2>2, <2>4
  <2> QED BY <2>1, <2>2, <2>5
<1>8. ASSUME NEW a \in T
      PROVE  a.net = Receipt(p, a.source) - a.destination.cost /\ a.oldest \in Int
  <2>1. PICK source \in Sources(p) : source = a.source /\ a.destination \in Exchanges(p, source)
                                     /\ a = Alternative(p, source, a.destination)
    BY <1>1, <1>4, PairsOrdered
  <2>2. a.destination \in Destinations(p, source)
    BY <2>1 DEF Exchanges
  <2> QED BY <2>1, <2>2, PairIs
<1>9. ASSUME NEW a \in T PROVE ans.validUntil <= QuoteWindow - a.oldest
  <2>1. PICK ages : ages = {x.oldest : x \in T}
    OBVIOUS
  <2>2. IsFiniteSet(ages)
    <3>1. PICK h : h = [x \in T |-> x.oldest]
      OBVIOUS
    <3>2. IsFiniteSet({h[x] : x \in T})
      BY <1>5, ImageIs
    <3>3. {h[x] : x \in T} = {x.oldest : x \in T}
      BY <3>1
    <3> QED BY <2>1, <3>2, <3>3
  <2>3. ages \subseteq Int /\ a.oldest \in ages
    BY <1>8, <2>1
  <2>4. PICK v : v = ValidUntil(p, ages)
    OBVIOUS
  <2>5. v \in Int /\ v + a.oldest <= QuoteWindow
    BY <1>3, <2>2, <2>3, <2>4, DeadlineIs
  <2>6. ans.validUntil = v
    BY <1>3, <2>1, <2>4
  <2> QED BY <1>8, <2>5, <2>6, WindowIs
<1> QED
  BY <1>1, <1>2, <1>6, <1>7, <1>8, <1>9

\* When nothing is recommended, the alternatives of _exchange_alternatives are the
\* best of all pairs: the bounded heap over the sources' prefixes loses none.
THEOREM AlternativesAreBest == LevelUpSpec => []AlternativesBest
<1>1. ASSUME LevelUpInv PROVE AlternativesBest
  <2> SUFFICES ASSUME answer # None, answer.status = "no_opportunity" PROVE AlternativesBest
    BY DEF AlternativesBest
  <2>1. problem \in Problems /\ answer = Optimize(problem)
    BY <1>1 DEF LevelUpInv
  <2> QED BY <2>1, FallbackBest DEF AlternativesBest, AllPairs
<1> QED
  BY <1>1, AnswersProblem, PTL
=============================================================================
