-------------------------- MODULE MCEscrowPayments --------------------------
(***************************************************************************)
(* Small instances of EscrowPayments for TLC.                              *)
(***************************************************************************)
EXTENDS EscrowPayments, TLC

CONSTANTS b1, r1, r2, w1, w2

OneBooking == {b1}
OnePayment == {1}
TwoPayments == {1, 2}
OneRefund == {r1}
TwoRefunds == {r1, r2}
OneWorker == {w1}
TwoWorkers == {w1, w2}

AllForOne == [k \in Payment |-> b1]

(* Rows of refunds and handlers are interchangeable. *)
Symmetry == Permutations(Refund) \cup Permutations(Worker)
=============================================================================
