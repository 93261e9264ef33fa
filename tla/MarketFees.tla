------------------------------ MODULE MarketFees ------------------------------
(***************************************************************************)
(* Steam's market fees in integer minor units (market_fees.py): the two    *)
(* fees a buyer pays on top of what the seller receives, the receipt that  *)
(* makes up a buyer's total, and the conversion of a provider's decimal    *)
(* text to minor units.  FeeSearch has the search that finds the receipt.  *)
(***************************************************************************)
EXTENDS Integers, Sequences

CONSTANTS
    MaxMinorUnits,  \* MAX_MINOR_UNITS
    Contracts,      \* the fee contracts in use
    None            \* Python's None

MaxFeeBps == 10000  \* MAX_FEE_BPS

\* A contract's fees are basis points of the receipt with a minimum for each.
Contract == [steam : 0..MaxFeeBps, publisher : 0..MaxFeeBps, minimum : Nat, minorDigits : 0..3]

ASSUME FeesAssumption ==
    /\ MaxMinorUnits \in Nat
    /\ Contracts \subseteq Contract
    /\ None \notin Int
-----------------------------------------------------------------------------
AtLeast(a, b) == IF a < b THEN b ELSE a

ComponentFee(r, bps, minimum) == AtLeast((r * bps) \div 10000, minimum)

\* _raw_buyer_total
RawTotal(r, c) ==
    r + ComponentFee(r, c.steam, c.minimum) + ComponentFee(r, c.publisher, c.minimum)

\* calculate_item_fees: what the buyer pays, if the amounts stay in bounds.
ItemTotal(r, c) ==
    IF r \in 0..MaxMinorUnits /\ RawTotal(r, c) <= MaxMinorUnits THEN RawTotal(r, c)
    ELSE None

\* What seller_receipt_from_buyer_total promises: the receipt whose fees make up
\* exactly this total, None for the totals that rounding and minimum skip.
SellerReceipt(t, c) ==
    IF t \in 0..MaxMinorUnits /\ \E r \in 0..t : RawTotal(r, c) = t
    THEN CHOOSE r \in 0..t : RawTotal(r, c) = t
    ELSE None
-----------------------------------------------------------------------------
\* 10^n
TenTo(n) ==
    LET upTo[k \in 0..n] == IF k = 0 THEN 1 ELSE 10 * upTo[k - 1]
    IN  upTo[n]

\* The number that a sequence of decimal digits writes.
Digits(s) ==
    LET upTo[n \in 0..Len(s)] == IF n = 0 THEN 0 ELSE 10 * upTo[n - 1] + s[n]
    IN  upTo[Len(s)]

\* A price as the provider writes it: whole "." fraction, a sequence of digits.
\* Fault: the digits past the minor unit are cut off.
DecimalCut(text, minorDigits) ==
    LET kept == SubSeq(text.fraction, 1, IF Len(text.fraction) < minorDigits
                                         THEN Len(text.fraction) ELSE minorDigits)
        amount == text.whole * TenTo(minorDigits) + Digits(kept) * TenTo(minorDigits - Len(kept))
    IN  IF amount \in 0..MaxMinorUnits THEN amount ELSE None

\* decimal_to_minor
DecimalToMinor(text, minorDigits) ==
    LET kept == SubSeq(text.fraction, 1, IF Len(text.fraction) < minorDigits
                                         THEN Len(text.fraction) ELSE minorDigits)
        amount == text.whole * TenTo(minorDigits) + Digits(kept) * TenTo(minorDigits - Len(kept))
    IN  IF /\ \A i \in minorDigits + 1..Len(text.fraction) : text.fraction[i] = 0
           /\ amount \in 0..MaxMinorUnits
        THEN amount ELSE None
=============================================================================
