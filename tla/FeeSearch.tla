------------------------------- MODULE FeeSearch -------------------------------
(***************************************************************************)
(* How a price becomes a seller's receipt (market_fees.py): the decimal    *)
(* text is converted to minor units, then a binary search finds the        *)
(* receipt of that buyer's total.  One behaviour is one quote.             *)
(***************************************************************************)
EXTENDS MarketFees

CONSTANTS
    Texts,      \* the prices the provider sends
    Searching   \* there is no answer yet

\* The texts are what decimal_to_minor's pattern lets through.
ASSUME SearchAssumption ==
    /\ Texts \subseteq [whole : Nat, fraction : Seq(0..9)]
    /\ Searching \notin Int \union {None}

VARIABLES
    contract,   \* the contract in use
    text,       \* the price
    total,      \* buyer_total_minor, None for a price that is refused
    low, high,  \* the interval that is still searched
    receipt     \* the answer

feeVars == <<contract, text, total, low, high, receipt>>
-----------------------------------------------------------------------------
FeeInit ==
    /\ contract \in Contracts
    /\ text \in Texts
    /\ total = DecimalToMinor(text, contract.minorDigits)
    /\ low = 0
    /\ high = IF total = None THEN 0 ELSE total
    /\ receipt = IF total = None THEN None ELSE Searching

\* Fault: the upper half forgets the candidate itself.
NarrowPast ==
    /\ receipt = Searching
    /\ low < high
    /\ LET candidate == (low + high) \div 2
       IN  IF RawTotal(candidate, contract) < total
           THEN low' = candidate + 1 /\ UNCHANGED high
           ELSE high' = AtLeast(candidate - 1, low) /\ UNCHANGED low
    /\ UNCHANGED <<contract, text, total, receipt>>

Narrow ==
    /\ receipt = Searching
    /\ low < high
    /\ LET candidate == (low + high) \div 2
       IN  IF RawTotal(candidate, contract) < total
           THEN low' = candidate + 1 /\ UNCHANGED high
           ELSE high' = candidate /\ UNCHANGED low
    /\ UNCHANGED <<contract, text, total, receipt>>

\* The recomposition check: a total that no receipt has is refused.
Settle ==
    /\ receipt = Searching
    /\ ~ low < high
    /\ receipt' = IF ItemTotal(low, contract) = total THEN low ELSE None
    /\ UNCHANGED <<contract, text, total, low, high>>

FeeNext == Narrow \/ Settle

FeeSpec == FeeInit /\ [][FeeNext]_feeVars
-----------------------------------------------------------------------------
\* The minor units are the decimal itself: nothing is rounded, and only what is no
\* whole number of minor units, or too large, is refused (decimal_to_minor).
PriceExact ==
    LET exact == (text.whole * TenTo(Len(text.fraction)) + Digits(text.fraction))
                    * TenTo(contract.minorDigits)
        scale == TenTo(Len(text.fraction))
    IN  total = IF exact % scale = 0 /\ exact \div scale <= MaxMinorUnits
                THEN exact \div scale ELSE None

\* The search answers the receipt whose two fees, each floored and raised to the
\* minimum for itself, recompose the buyer's total, and None when there is none
\* (seller_receipt_from_buyer_total).
ReceiptExact ==
    receipt # Searching /\ total # None => receipt = SellerReceipt(total, contract)
=============================================================================
