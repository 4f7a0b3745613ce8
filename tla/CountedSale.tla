----------------------------- MODULE CountedSale -----------------------------
(***************************************************************************)
(* What a flash deal promises, without transactions, locks or sweeps: a    *)
(* sale of a fixed number of pieces.  Every piece goes to a hold at once   *)
(* with the count, a hold takes one piece of one sale and keeps it, and a  *)
(* closed sale sells nothing.  Who places the holds is of no interest: a   *)
(* guest may place several.                                                *)
(***************************************************************************)
EXTENDS Naturals, FiniteSets

CONSTANTS Deal,     \* the sales
          Hold,     \* holds that may take a piece
          Quantity  \* how many pieces a sale may offer, at most

VARIABLE sale

Phase == {"unopened", "announced", "open", "closed"}

SaleType == [phase : Phase, total : 0 .. Quantity, holds : SUBSET Hold]

Init == sale = [d \in Deal |->
                  [phase |-> "unopened", total |-> 0, holds |-> {}]]

Offer(d, phase, n) ==
    /\ sale[d].phase = "unopened"
    /\ sale' = [sale EXCEPT ![d].phase = phase, ![d].total = n]

(* Announced sales become open together, and sales that are over close     *)
(* together.                                                               *)
Move(D, from, to) ==
    /\ \A d \in D : sale[d].phase \in from
    /\ sale' = [d \in Deal |->
                  IF d \in D THEN [sale[d] EXCEPT !.phase = to] ELSE sale[d]]

Sell(d, g) ==
    /\ sale[d].phase = "open"
    /\ \A e \in Deal : g \notin sale[e].holds
    /\ Cardinality(sale[d].holds) < sale[d].total
    /\ sale' = [sale EXCEPT ![d].holds = @ \cup {g}]

(* Most steps of an implementation change nothing a sale is made of. *)
Next ==
    \/ UNCHANGED sale
    \/ \E d \in Deal, phase \in {"announced", "open"}, n \in 1 .. Quantity : Offer(d, phase, n)
    \/ \E d \in Deal, g \in Hold : Sell(d, g)
    \/ \E D \in SUBSET Deal : Move(D, {"announced"}, "open")
    \/ \E D \in SUBSET Deal : Move(D, {"announced", "open"}, "closed")

Spec == Init /\ [][Next]_sale

Typed ==
    /\ sale \in [Deal -> SaleType]
    /\ \A d \in Deal : sale[d].phase = "unopened" => sale[d].holds = {}

(* A sale never has more holds than pieces, and no hold counts for two     *)
(* sales.                                                                  *)
SoldByCount ==
    /\ \A d \in Deal : Cardinality(sale[d].holds) <= sale[d].total
    /\ \A d, e \in Deal : d # e => sale[d].holds \cap sale[e].holds = {}
==============================================================================
