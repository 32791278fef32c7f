------------------------------ MODULE Discount ------------------------------
(***************************************************************************)
(* The amount the demo faucet offers for a bill (discount_sats): the sum   *)
(* less a fee of so many percent a year, a year being 360 days.  The       *)
(* arithmetic is that of 64-bit words, which wrap around in a release      *)
(* build.                                                                  *)
(***************************************************************************)
EXTENDS Integers

CONSTANTS
    Word,       \* how many numbers a word can hold, 2^64 in the code
    Sum,        \* sums of bills, in sats
    Percent,    \* discounts that can be configured
    Due         \* days on which bills are due

ASSUME DiscountAssumption ==
    /\ Word \in Nat \ {0}
    /\ Sum \subseteq 0..(Word - 1)
    /\ Percent \subseteq 0..(Word - 1)
    /\ Due \subseteq Int

Clamp(x, low, high) == IF x < low THEN low ELSE IF x > high THEN high ELSE x

AtLeast(x, low) == IF x < low THEN low ELSE x

\* Days from today until a bill is due, as far as they are charged for.
Days(due, today) == Clamp(due - today, 1, 360)

\* (mutant) No least fee.
FeeUnrounded(sum, percent, due, today) ==
    (((sum * Clamp(percent, 0, 99) * Days(due, today)) % Word) \div 100) \div 360

Fee(sum, percent, due, today) ==
    AtLeast((((sum * Clamp(percent, 0, 99) * Days(due, today)) % Word) \div 100) \div 360, 1)

DiscountSats(sum, percent, due, today) ==
    IF percent > 0 /\ sum > Fee(sum, percent, due, today)
    THEN sum - Fee(sum, percent, due, today)
    ELSE sum
-----------------------------------------------------------------------------
\* The fee is due in full: the product fits into a word.
Fits(sum) == sum * 99 * 360 < Word

\* An offer is never more than the bill's sum and never nothing for something;
\* with a discount configured it is less than any sum that can be divided.
OfferBounded(today) ==
    \A sum \in Sum, percent \in Percent, due \in Due :
        LET offer == DiscountSats(sum, percent, due, today) IN
        /\ offer <= sum
        /\ sum > 0 => offer > 0
        /\ sum > 1 /\ percent > 0 => offer < sum

\* Rounding twice is rounding once: the fee is the largest number of sats that
\* is not more than the exact fraction, or one sat.
FeeExact(today) ==
    \A sum \in Sum, percent \in Percent, due \in Due :
        LET fee == Fee(sum, percent, due, today)
            exact == sum * Clamp(percent, 0, 99) * Days(due, today)
        IN  Fits(sum) => /\ fee = 1 \/ fee * 36000 <= exact
                         /\ exact < (fee + 1) * 36000

\* A bill that is due later is never worth more.
LaterIsCheaper(today) ==
    \A sum \in Sum, percent \in Percent, early, late \in Due :
        early <= late /\ Fits(sum) =>
            DiscountSats(sum, percent, late, today) <= DiscountSats(sum, percent, early, today)
=============================================================================
