------------------------------- MODULE Pricing -------------------------------
(***************************************************************************)
(* The money of a stay: the quote PricingService computes when the hold is *)
(* placed, the row it becomes, and the ledger legs the payout derives from *)
(* that row weeks later.  Amounts are integers in minor units; a           *)
(* percentage is in basis points, because percentage columns and the input *)
(* schema admit fractions (12.5 % is 1250).  Products below 2^53 / 10^4    *)
(* are exact in the code's doubles up to the rounding of a half; that      *)
(* rounding error is not modelled.                                         *)
(***************************************************************************)
EXTENDS Integers

MinutesPerHour == 60
MinutesPerNight == 1440
ServiceFeePct == 300
VatPct == 1500

(* Math.round(amount * pct / 100): a half goes up. *)
Percent(amount, pct) == (2 * amount * pct + 10000) \div 20000

(* The guards of hourlyBase and nightlyBase: the unit offers the kind of   *)
(* stay and its length is a legal number of whole blocks.                  *)
Quotable(unit, kind, minutes, maxHours) ==
    /\ minutes > 0
    /\ \/ /\ kind = "HOURLY"
          /\ unit.hourly > 0
          /\ minutes >= unit.minMinutes
          /\ minutes <= maxHours * MinutesPerHour
          /\ minutes % MinutesPerHour = 0
       \/ /\ kind = "NIGHTLY"
          /\ unit.nightly > 0
          /\ minutes % MinutesPerNight = 0

Base(unit, kind, minutes) ==
    IF kind = "HOURLY" THEN (minutes \div MinutesPerHour) * unit.hourly
                       ELSE (minutes \div MinutesPerNight) * unit.nightly

(* The bases the service can be made to quote. *)
QuotableBases(units, lengths, maxHours) ==
    {Base(stay[1], stay[2], stay[3]) :
        stay \in {s \in units \X {"HOURLY", "NIGHTLY"} \X lengths :
                     Quotable(s[1], s[2], s[3], maxHours)}}

(* Mutant: the payout is taken from the base and not from the net base. *)
QuoteOnBase(base, discountPct, commissionPct) ==
    LET discount == Percent(base, discountPct)
        net == base - discount
        service == Percent(net, ServiceFeePct)
        taxes == Percent(net + service, VatPct)
        commission == Percent(net, commissionPct)
    IN  [base |-> base, cleaning |-> 0, service |-> service, taxes |-> taxes,
         discount |-> discount, total |-> base + service + taxes - discount,
         commission |-> commission, payout |-> base - commission]

(* Fees, tax, commission and payout are all taken from the net base. *)
Quote(base, discountPct, commissionPct) ==
    LET discount == Percent(base, discountPct)
        net == base - discount
        service == Percent(net, ServiceFeePct)
        taxes == Percent(net + service, VatPct)
        commission == Percent(net, commissionPct)
    IN  [base |-> base, cleaning |-> 0, service |-> service, taxes |-> taxes,
         discount |-> discount, total |-> base + service + taxes - discount,
         commission |-> commission, payout |-> net - commission]

(* The CHECK constraints of bookings: money_minor columns are not          *)
(* negative, the price adds up and the split is exact.                     *)
RowAccepted(b) ==
    /\ \A f \in DOMAIN b : b[f] >= 0
    /\ b.total = b.base + b.cleaning + b.service + b.taxes - b.discount
    /\ b.commission + b.payout = b.base - b.discount

(* payments.amount_minor CHECK (> 0): a free stay cannot be paid for, and  *)
(* its hold lapses.                                                        *)
Chargeable(b) == b.total > 0

(* The credit legs PayoutService posts against a debit of the whole total. *)
SplitCredits(b) ==
    [host |-> b.payout + b.cleaning,
     revenue |-> b.commission + b.service,
     tax |-> b.taxes]

(* LedgerService.postGroup refuses a group whose sides differ, and leaves  *)
(* out a leg of zero.                                                      *)
Balanced(b) ==
    LET c == SplitCredits(b)
    IN  /\ c.host + c.revenue + c.tax = b.total
        /\ c.host >= 0 /\ c.revenue >= 0 /\ c.tax >= 0

(* The transaction of the split commits: the payout row it inserts first   *)
(* has a positive amount (payouts.amount_minor CHECK (> 0)), and the group *)
(* balances.                                                               *)
SplitPosts(b) == SplitCredits(b).host > 0 /\ Balanced(b)
==============================================================================
