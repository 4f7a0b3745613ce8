----------------------------- MODULE MCFlashDeals -----------------------------
(* Small instances of FlashDeals for TLC. *)
EXTENDS FlashDeals, TLC

CONSTANTS d1, d2, h1, h2, h3, s1, s2

MCApplicable == [d \in Deal |-> IF d = d1 THEN Stay ELSE {s1}]

Offer(from, to, total) == [from |-> from, to |-> to, total |-> total]

(* The second deal may overlap the first and may follow it. *)
MCOffers == [d \in Deal |-> IF d = d1 THEN {Offer(0, 1, 1), Offer(0, 1, 2), Offer(1, 2, 2)}
                                     ELSE {Offer(0, 2, 1), Offer(1, 2, 1)}]

(* 12 hours at 8317 keep 2 * amount * 10000 within TLC's integers. *)
MCUnits == [hourly : 0 .. 20 \cup {1333, 8317}, nightly : {0, 9999}, minMinutes : {60, 120}]

MCLengths == {30, 60, 90, 120, 180, 720, 780, 1440, 2880}

MCBases == QuotableBases(MCUnits, MCLengths, 12)

MCPercents == {0, 500, 1250, 1333, 3333, 9000, 10000}

MCSymmetry == Permutations(Hold)
==============================================================================
