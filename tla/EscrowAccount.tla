---------------------------- MODULE EscrowAccount ----------------------------
(***************************************************************************)
(* What the platform promises about money in escrow: a payment enters once,*)
(* leaves once, and the payments of a booking never leave in two           *)
(* directions.  Nothing is said of webhooks, queues, workers or retries:   *)
(* EscrowPayments shows that its ledger postings implement this.           *)
(***************************************************************************)
CONSTANTS Payment,  \* payments
          Booking,  \* bookings
          For       \* the booking a payment is for

VARIABLE stage

Init == stage = [k \in Payment |-> "guest"]

Siblings(k) == {j \in Payment : For[j] = For[k]}

Deposit(k) ==
  /\ stage[k] = "guest"
  /\ stage' = [stage EXCEPT ![k] = "escrow"]

Return(k) ==
  /\ stage[k] = "escrow"
  /\ \A j \in Siblings(k) : stage[j] # "host"
  /\ stage' = [stage EXCEPT ![k] = "returned"]

Release(k) ==
  /\ stage[k] = "escrow"
  /\ \A j \in Siblings(k) : stage[j] \notin {"host", "returned"}
  /\ stage' = [stage EXCEPT ![k] = "host"]

Next == \E k \in Payment : Deposit(k) \/ Return(k) \/ Release(k)

Spec == Init /\ [][Next]_stage

TypeOK == stage \in [Payment -> {"guest", "escrow", "returned", "host"}]

(* Once a payment of a booking has gone to the host, the other payments of *)
(* that booking stay where they are: none is paid out or given back.       *)
OneDirection ==
  \A j, k \in Payment :
     stage[j] = "host" /\ For[j] = For[k] => j = k \/ stage[k] \in {"guest", "escrow"}
=============================================================================
