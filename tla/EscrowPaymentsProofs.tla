------------------------- MODULE EscrowPaymentsProofs -------------------------
(***************************************************************************)
(* Theorems about EscrowPayments: its types, its safety invariants and the *)
(* refinement of EscrowAccount, for any bookings, payments, refunds and    *)
(* workers and any set of faults.                                          *)
(*                                                                         *)
(* The argument: a booking whose money may go back to the guest is doomed, *)
(* it never completes; a booking whose money may go to the host is         *)
(* completed, and stays so.  Jobs, handlers, rows and ledger groups all    *)
(* carry one of the two facts from the step that created them.             *)
(***************************************************************************)
EXTENDS EscrowPayments, TLAPS, FiniteSetTheorems

(* The booking is given up, or will be: no step completes it any more.     *)
Doomed(b) ==
    \/ booking[b] \in {"CANCELLED", "REFUNDED", "EXPIRED"}
    \/ booking[b] = "PENDING_PAYMENT" /\ b \in lapsed

Paid(k) == payment[k] \in {"CAPTURED", "REFUNDED"}

(* How often each group was posted. *)
In(k) == ledger[<<"CAPTURE", k>>]
Back(k) == ledger[<<"REFUND", k>>]
Out(k) == ledger[<<"SPLIT", k>>]
Settled(b) == ledger[<<"PAYOUT", b>>]

Split(k) == Out(k) = 1

(* What a job takes for granted. *)
Owed(j) ==
    /\ j.name = "create-refund" => Doomed(j.of)
    /\ j.name = "execute-payout" => payout[j.of] # "NONE"

QueueSound == \A j \in Job : queue[j] > 0 => Owed(j)

PaymentFound(w) ==
    /\ worker[w].payment \in Payment
    /\ For[worker[w].payment] = worker[w].job.of
    /\ Paid(worker[w].payment)

(* What a handler has established at each of its steps. *)
HandlerSound(w) ==
    /\ Owed(worker[w].job)
    /\ \A step \in {"check", "insert"} : At(w, "create-refund", step) => PaymentFound(w)
    /\ \A step \in {"provider", "attach"} : At(w, "create-refund", step) =>
          /\ worker[w].refund \in Refund
          /\ refund[worker[w].refund].status # "NONE"
    /\ \A step \in {"find", "split"} : At(w, "create-payout", step) =>
          booking[worker[w].job.of] = "COMPLETED"
    /\ At(w, "create-payout", "split") => PaymentFound(w)
    /\ At(w, "create-payout", "enqueue") => payout[worker[w].job.of] # "NONE"
    /\ \A step \in {"inTransit", "settle"} : At(w, "execute-payout", step) =>
          worker[w].job.of \in sent

HandlersSound == \A w \in Worker : HandlerSound(w)

(* A row of refunds is about paid money of a doomed booking; a payment is  *)
(* REFUNDED by exactly one of them.                                        *)
RefundsSound ==
    /\ \A r \in Refund : refund[r].status # "NONE" =>
          /\ refund[r].of \in Payment /\ Paid(refund[r].of)
          /\ Doomed(For[refund[r].of])
          /\ refund[r].status = "SUCCEEDED" => payment[refund[r].of] = "REFUNDED"
    /\ \A r, q \in Refund :
          (refund[r].status = "SUCCEEDED" /\ refund[q].status = "SUCCEEDED"
             /\ refund[r].of = refund[q].of) => r = q
    /\ \A k \in Payment : payment[k] = "REFUNDED" =>
          \E r \in Refund : refund[r].of = k /\ refund[r].status = "SUCCEEDED"
    /\ \A r \in refunded : refund[r].status # "NONE"

(* The groups of a payment follow its status. *)
PaymentBooks ==
    \A k \in Payment :
       /\ In(k) = IF Paid(k) THEN 1 ELSE 0
       /\ Back(k) = IF payment[k] = "REFUNDED" THEN 1 ELSE 0

(* One captured payment of a completed booking is split, with the payout.  *)
SplitBooks ==
    /\ \A k \in Payment :
       /\ Out(k) \in {0, 1}
       /\ Split(k) => /\ payout[For[k]] # "NONE" /\ booking[For[k]] = "COMPLETED"
                      /\ payment[k] = "CAPTURED"
    /\ \A k, j \in Payment : Split(k) /\ Split(j) /\ For[k] = For[j] => k = j
    /\ \A b \in Booking : payout[b] # "NONE" => \E k \in Payment : For[k] = b /\ Split(k)

PayoutBooks ==
    \A b \in Booking :
       /\ Settled(b) = IF payout[b] = "PAID" THEN 1 ELSE 0
       /\ b \in sent => payout[b] # "NONE"
       /\ payout[b] \in {"IN_TRANSIT", "PAID"} => b \in sent

EscrowInvariant ==
    /\ TypeOK /\ QueueSound /\ HandlersSound
    /\ RefundsSound /\ PaymentBooks /\ SplitBooks /\ PayoutBooks
-----------------------------------------------------------------------------
(* What each kind of job, event and ledger group is about. *)
LEMMA JobKinds ==
  /\ \A e \in Event : WebhookJob(e) \in Job
  /\ \A b \in Booking : /\ PayoutJob("create-payout", b) \in Job
                        /\ PayoutJob("execute-payout", b) \in Job
                        /\ RefundJob(b, "cancelled") \in Job
                        /\ RefundJob(b, "hold_expired_after_capture") \in Job
  /\ \A j \in Job \cup {Idle.job} :
        /\ j.name = "process-webhook" => j.of \in Event
        /\ j.name \in {"create-refund", "create-payout", "execute-payout"} =>
              j.of \in Booking /\ j \in Job
  BY DEF Job, WebhookJob, PayoutJob, RefundJob, Idle

(* Payment events are about payments, refund events about refunds. *)
LEMMA EventKinds ==
  \A e \in Event :
     /\ e.type \in {"PAYMENT_CAPTURED", "PAYMENT_FAILED"} => e.of \in Payment
     /\ e.type \in {"REFUND_SUCCEEDED", "REFUND_FAILED"} => e.of \in Refund
  BY DEF Event

(* Every payment and every booking has its ledger groups. *)
LEMMA GroupKinds ==
  /\ \A k \in Payment : /\ <<"CAPTURE", k>> \in LedgerGroup
                        /\ <<"REFUND", k>> \in LedgerGroup
                        /\ <<"SPLIT", k>> \in LedgerGroup
  /\ \A b \in Booking : <<"PAYOUT", b>> \in LedgerGroup
  BY DEF LedgerGroup

(* A posting counts its group once more and no other. *)
LEMMA Posted ==
  ASSUME ledger \in [LedgerGroup -> Nat], NEW g \in LedgerGroup, PostGroup(g)
  PROVE  /\ ledger' \in [LedgerGroup -> Nat]
         /\ ledger'[g] = ledger[g] + 1
         /\ \A h \in LedgerGroup : h # g => ledger'[h] = ledger[h]
  BY DEF PostGroup

(* What a posting changes, group by group. *)
OthersStay(name, x) ==
    /\ \A k \in Payment : /\ name # "CAPTURE" \/ k # x => In(k)' = In(k)
                          /\ name # "REFUND" \/ k # x => Back(k)' = Back(k)
                          /\ name # "SPLIT" \/ k # x => Out(k)' = Out(k)
    /\ \A b \in Booking : name # "PAYOUT" \/ b # x => Settled(b)' = Settled(b)

(* The same, for the four named groups. *)
LEMMA GroupPosted ==
  ASSUME ledger \in [LedgerGroup -> Nat]
  PROVE  /\ \A k \in Payment :
              /\ In(k) \in Nat /\ Back(k) \in Nat /\ Out(k) \in Nat
              /\ PostGroup(<<"CAPTURE", k>>) => In(k)' = In(k) + 1 /\ OthersStay("CAPTURE", k)
              /\ PostGroup(<<"REFUND", k>>) => Back(k)' = Back(k) + 1 /\ OthersStay("REFUND", k)
              /\ PostGroup(<<"SPLIT", k>>) => Out(k)' = Out(k) + 1 /\ OthersStay("SPLIT", k)
         /\ \A b \in Booking :
              /\ Settled(b) \in Nat
              /\ PostGroup(<<"PAYOUT", b>>) =>
                    Settled(b)' = Settled(b) + 1 /\ OthersStay("PAYOUT", b)
<1>1. \A k \in Payment : In(k) \in Nat /\ Back(k) \in Nat /\ Out(k) \in Nat
  BY GroupKinds DEF In, Back, Out
<1>2. \A b \in Booking : Settled(b) \in Nat
  BY GroupKinds DEF Settled
<1>3. ASSUME NEW k \in Payment, PostGroup(<<"CAPTURE", k>>)
      PROVE  In(k)' = In(k) + 1 /\ OthersStay("CAPTURE", k)
  BY <1>3, GroupKinds, Posted DEF OthersStay, In, Back, Out, Settled
<1>4. ASSUME NEW k \in Payment, PostGroup(<<"REFUND", k>>)
      PROVE  Back(k)' = Back(k) + 1 /\ OthersStay("REFUND", k)
  BY <1>4, GroupKinds, Posted DEF OthersStay, In, Back, Out, Settled
<1>5. ASSUME NEW k \in Payment, PostGroup(<<"SPLIT", k>>)
      PROVE  Out(k)' = Out(k) + 1 /\ OthersStay("SPLIT", k)
  BY <1>5, GroupKinds, Posted DEF OthersStay, In, Back, Out, Settled
<1>6. ASSUME NEW b \in Booking, PostGroup(<<"PAYOUT", b>>)
      PROVE  Settled(b)' = Settled(b) + 1 /\ OthersStay("PAYOUT", b)
  BY <1>6, GroupKinds, Posted DEF OthersStay, In, Back, Out, Settled
<1> QED BY <1>1, <1>2, <1>3, <1>4, <1>5, <1>6

(* The types of the tables, read off the invariant. *)
LEMMA Rows ==
  ASSUME EscrowInvariant
  PROVE  /\ booking \in [Booking -> BookingStatus] /\ lapsed \subseteq Booking
         /\ payment \in [Payment -> PaymentStatus \cup {"NONE"}]
         /\ refund \in [Refund -> [of : Payment \cup {Nil},
                                   status : {"NONE", "PENDING", "SUCCEEDED"},
                                   attached : BOOLEAN]]
         /\ refunded \subseteq Refund
         /\ payout \in [Booking -> PayoutStatus \cup {"NONE"}]
         /\ sent \subseteq Booking
         /\ ledger \in [LedgerGroup -> Nat]
         /\ queue \in [Job -> 0 .. Copies]
  BY DEF EscrowInvariant, TypeOK

(* What the invariant says of one handler and its job. *)
LEMMA Handlers ==
  ASSUME EscrowInvariant, NEW w \in Worker
  PROVE  /\ worker \in [Worker -> [job : Job \cup {Idle.job}, step : Step,
                                   payment : Payment \cup {Nil}, refund : Refund \cup {Nil}]]
         /\ worker[w].job \in Job \cup {Idle.job}
         /\ HandlerSound(w)
         /\ worker[w].job.name = "process-webhook" => worker[w].job.of \in Event
         /\ worker[w].job.name \in {"create-refund", "create-payout", "execute-payout"} =>
               worker[w].job.of \in Booking
<1>1. /\ worker \in [Worker -> [job : Job \cup {Idle.job}, step : Step,
                               payment : Payment \cup {Nil}, refund : Refund \cup {Nil}]]
      /\ HandlerSound(w)
  BY DEF EscrowInvariant, TypeOK, HandlersSound
<1>2. worker[w].job \in Job \cup {Idle.job}
  BY <1>1
<1> QED BY <1>1, <1>2, JobKinds

(* What the assumption says of payments and handlers. *)
LEMMA Constants ==
  /\ Payment \subseteq Nat /\ For \in [Payment -> Booking] /\ IsFiniteSet(Worker)
  /\ Copies \in Nat /\ Copies > 0 /\ Nil \notin Payment /\ Nil \notin Refund
  /\ \A K \in SUBSET Payment : K # {} => Latest(K) \in K
<1>1. ASSUME NEW K \in SUBSET Payment, K # {}
      PROVE  Latest(K) \in K
  <2>1. \E k \in K : \A j \in K : j <= k
    BY <1>1, EscrowAssumption
  <2> QED BY <2>1, Zenon DEF Latest
<1>2. /\ Payment \subseteq Nat /\ For \in [Payment -> Booking] /\ IsFiniteSet(Worker)
      /\ Copies \in Nat /\ Copies > 0 /\ Nil \notin Payment /\ Nil \notin Refund
  BY EscrowAssumption
<1> QED BY <1>1, <1>2
-----------------------------------------------------------------------------
(* The booking: doom and completion are for good. *)
BookingGoesOn ==
    /\ booking' \in [Booking -> BookingStatus] /\ lapsed' \subseteq Booking
    /\ \A b \in Booking : /\ Doomed(b) => Doomed(b)'
                          /\ booking[b] = "COMPLETED" => booking'[b] = "COMPLETED"

(* No step brings a doomed booking back or undoes a completion. *)
LEMMA BookingMoves ==
  ASSUME EscrowInvariant, [Next]_vars
  PROVE  BookingGoesOn
<1>0. booking \in [Booking -> BookingStatus] /\ lapsed \subseteq Booking
  BY Rows
<1>1. ASSUME NEW b \in Booking, BookingStep(b)
      PROVE  BookingGoesOn
  BY <1>0, <1>1 DEF BookingStep, HoldLapses, ConfirmCall, ExpireHold, Cancel, Complete,
                    BookingGoesOn, BookingStatus, Doomed
<1>2. ASSUME NEW w \in Worker, ConfirmCas(w) \/ MarkRefunded(w)
      PROVE  BookingGoesOn
  BY <1>0, <1>2 DEF ConfirmCas, MarkRefunded, HoldAlive, BookingGoesOn, BookingStatus, Doomed
<1>3. CASE UNCHANGED <<booking, lapsed>>
  BY <1>0, <1>3 DEF BookingGoesOn, Doomed
<1>4. ASSUME NEW w \in Worker,
             \/ \E j \in Job : TakeJob(w, j)
             \/ WorkerCrash(w) \/ StepThrows(w)
             \/ ClaimEvent(w) \/ ApplyCapture(w) \/ ApplyFailure(w) \/ ApplyRefund(w)
             \/ ApplyRefundFailure(w) \/ ReadBooking(w) \/ AssertConfirm(w)
             \/ AnswerConfirm(w) \/ MarkProcessed(w) \/ FailEvent(w)
             \/ RefundStep(w) \/ PayoutStep(w)
      PROVE  UNCHANGED <<booking, lapsed>>
  BY <1>4 DEF TakeJob, WorkerCrash, StepThrows, ClaimEvent, ApplyCapture, ApplyFailure,
              ApplyRefund, ApplyRefundFailure, ReadBooking, AssertConfirm, AnswerConfirm,
              MarkProcessed, FailEvent, RefundStep, FindCaptured, CheckExisting, InsertRefund,
              AskProvider, AttachRefund, PayoutStep, ReadCompleted, FindPaid, SplitEscrow,
              EnqueueTransfer, ReadPayout, Transfer, MarkInTransit, Settle, TransferFailed
<1>5. ASSUME \/ \E b \in Booking : AdminStep(b)
             \/ \E k \in Payment : PaymentStep(k)
             \/ \E r \in Refund : RefundEnds(r)
             \/ \E e \in Event : RecordEvent(e) \/ EnqueueEvent(e)
             \/ UNCHANGED vars
      PROVE  UNCHANGED <<booking, lapsed>>
  BY <1>5 DEF AdminStep, HoldPayout, ReleasePayout, RetryPayout, Requeue, PaymentStep,
              CreateIdempotent, CreateIntent, AttachProviderIntent, GuestPays, PaymentFails,
              RefundEnds, RecordEvent, EnqueueEvent, vars
<1> QED BY <1>1, <1>2, <1>3, <1>4, <1>5 DEF Next, WorkerStep, WebhookStep
-----------------------------------------------------------------------------
(* The money: every step of the services is one of these, or leaves the    *)
(* tables of payments, refunds, payouts and the ledger alone.              *)
tables == <<payment, refund, refunded, payout, sent, ledger>>

(* An unpaid attempt goes on, or fails. *)
Attempts(k, status) ==
    /\ ~Paid(k) /\ status \in {"INITIATED", "REQUIRES_ACTION", "FAILED"}
    /\ payment' = [payment EXCEPT ![k] = status]
    /\ UNCHANGED <<refund, refunded, payout, sent, ledger>>

Captures(k) ==
    /\ k \in Payment /\ ~Paid(k)
    /\ payment' = [payment EXCEPT ![k] = "CAPTURED"]
    /\ PostGroup(<<"CAPTURE", k>>)
    /\ UNCHANGED <<refund, refunded, payout, sent>>

PaysBack(r) ==
    /\ r \in Refund /\ refund[r].status = "PENDING" /\ payment[refund[r].of] # "REFUNDED"
    /\ refund' = [refund EXCEPT ![r].status = "SUCCEEDED"]
    /\ payment' = [payment EXCEPT ![refund[r].of] = "REFUNDED"]
    /\ PostGroup(<<"REFUND", refund[r].of>>)
    /\ UNCHANGED <<refunded, payout, sent>>

OpensRefund(r, k) ==
    /\ r \in Refund /\ refund[r].status = "NONE"
    /\ k \in Payment /\ Paid(k) /\ Doomed(For[k])
    /\ refund' = [refund EXCEPT ![r].of = k, ![r].status = "PENDING"]
    /\ UNCHANGED <<payment, refunded, payout, sent, ledger>>

Accepts(r) ==
    /\ r \in Refund /\ refund[r].status # "NONE"
    /\ refunded' = refunded \cup {r}
    /\ UNCHANGED <<payment, refund, payout, sent, ledger>>

Attaches(r) ==
    /\ r \in Refund
    /\ refund' = [refund EXCEPT ![r].attached = TRUE]
    /\ UNCHANGED <<payment, refunded, payout, sent, ledger>>

Divides(k) ==
    /\ k \in Payment /\ Paid(k) /\ booking[For[k]] = "COMPLETED" /\ payout[For[k]] = "NONE"
    /\ payout' = [payout EXCEPT ![For[k]] = "PENDING"]
    /\ PostGroup(<<"SPLIT", k>>)
    /\ UNCHANGED <<payment, refund, refunded, sent>>

PayoutGoes(b, status) ==
    /\ b \in Booking /\ payout[b] \notin {"NONE", "PAID"}
    /\ status \in {"PENDING", "IN_TRANSIT", "FAILED", "ON_HOLD"}
    /\ status = "IN_TRANSIT" => b \in sent
    /\ payout' = [payout EXCEPT ![b] = status]
    /\ UNCHANGED <<payment, refund, refunded, sent, ledger>>

Sends(b) ==
    /\ b \in Booking /\ payout[b] # "NONE"
    /\ sent' = sent \cup {b}
    /\ UNCHANGED <<payment, refund, refunded, payout, ledger>>

PaysOut(b) ==
    /\ b \in Booking /\ payout[b] = "IN_TRANSIT"
    /\ payout' = [payout EXCEPT ![b] = "PAID"]
    /\ PostGroup(<<"PAYOUT", b>>)
    /\ UNCHANGED <<payment, refund, refunded, sent>>

MoneyGoesOn ==
    \/ UNCHANGED tables
    \/ \E k \in Payment : Captures(k) \/ Divides(k) \/ \E status \in PaymentStatus : Attempts(k, status)
    \/ \E r \in Refund : \/ PaysBack(r) \/ Accepts(r) \/ Attaches(r)
                         \/ \E k \in Payment : OpensRefund(r, k)
    \/ \E b \in Booking : \/ Sends(b) \/ PaysOut(b)
                          \/ \E status \in PayoutStatus : PayoutGoes(b, status)

(* Every step of a webhook handler is a move of money. *)
LEMMA WebhookMoney ==
  ASSUME EscrowInvariant, NEW w \in Worker, WebhookStep(w)
  PROVE  MoneyGoesOn
<1>0. payment \in [Payment -> PaymentStatus \cup {"NONE"}]
  BY Rows
<1>1. CASE ApplyCapture(w)
  <2>1. worker[w].job.of.of \in Payment
    BY <1>1, Handlers, EventKinds DEF ApplyCapture, Applies, At
  <2>2. \/ UNCHANGED tables
        \/ Captures(worker[w].job.of.of)
    BY <1>0, <1>1, <2>1 DEF ApplyCapture, Captures, Open, Paid, tables
  <2> QED BY <2>1, <2>2 DEF MoneyGoesOn
<1>2. CASE ApplyFailure(w)
  <2> DEFINE k == worker[w].job.of.of
  <2>1. k \in Payment
    BY <1>2, Handlers, EventKinds DEF ApplyFailure, Applies, At
  <2>2. UNCHANGED <<refund, refunded, payout, sent, ledger>>
    BY <1>2 DEF ApplyFailure
  <2>3. CASE k \in Open
    <3>1. payment' = [payment EXCEPT ![k] = "FAILED"]
      BY <1>2, <2>3 DEF ApplyFailure
    <3>2. Attempts(k, "FAILED") /\ "FAILED" \in PaymentStatus
      BY <2>2, <2>3, <3>1 DEF Attempts, Open, Paid, PaymentStatus
    <3> QED BY <2>1, <3>2 DEF MoneyGoesOn
  <2>4. CASE k \notin Open
    <3>1. payment' = payment
      BY <1>0, <1>2, <2>1, <2>4 DEF ApplyFailure
    <3> QED BY <2>2, <3>1 DEF MoneyGoesOn, tables
  <2> QED BY <2>3, <2>4
<1>3. CASE ApplyRefund(w)
  <2>1. worker[w].job.of.of \in Refund
    BY <1>3, Handlers, EventKinds DEF ApplyRefund, Applies, At
  <2>2. \/ UNCHANGED tables
        \/ PaysBack(worker[w].job.of.of)
    BY <1>3, <2>1 DEF ApplyRefund, PaysBack, tables
  <2> QED BY <2>1, <2>2 DEF MoneyGoesOn
<1>4. ASSUME \/ ClaimEvent(w) \/ ApplyRefundFailure(w) \/ ReadBooking(w) \/ AssertConfirm(w)
             \/ ConfirmCas(w) \/ AnswerConfirm(w) \/ MarkRefunded(w) \/ MarkProcessed(w)
             \/ FailEvent(w)
      PROVE  UNCHANGED tables
  BY <1>4 DEF ClaimEvent, ApplyRefundFailure, ReadBooking, AssertConfirm, ConfirmCas,
              AnswerConfirm, MarkRefunded, MarkProcessed, FailEvent, money, tables
<1> QED BY <1>1, <1>2, <1>3, <1>4 DEF WebhookStep, MoneyGoesOn

(* Every step of a refund handler is a move of money. *)
LEMMA RefundMoney ==
  ASSUME EscrowInvariant, NEW w \in Worker, RefundStep(w)
  PROVE  MoneyGoesOn
<1>0. HandlerSound(w)
  BY Handlers
<1>1. CASE InsertRefund(w)
  <2>1. PaymentFound(w) /\ Doomed(worker[w].job.of)
    BY <1>0, <1>1 DEF InsertRefund, HandlerSound, At, Owed
  <2>2. \E r \in Refund : OpensRefund(r, worker[w].payment)
    BY <1>1, <2>1 DEF InsertRefund, OpensRefund, PaymentFound
  <2> QED BY <2>1, <2>2 DEF MoneyGoesOn, PaymentFound
<1>2. CASE AskProvider(w)
  <2>1. worker[w].refund \in Refund /\ refund[worker[w].refund].status # "NONE"
    BY <1>0, <1>2 DEF AskProvider, HandlerSound, At
  <2>2. Accepts(worker[w].refund)
    BY <1>2, <2>1 DEF AskProvider, Accepts
  <2> QED BY <2>1, <2>2 DEF MoneyGoesOn
<1>3. CASE AttachRefund(w)
  <2>1. worker[w].refund \in Refund
    BY <1>0, <1>3 DEF AttachRefund, HandlerSound, At
  <2>2. Attaches(worker[w].refund)
    BY <1>3, <2>1 DEF AttachRefund, Attaches
  <2> QED BY <2>1, <2>2 DEF MoneyGoesOn
<1>4. ASSUME FindCaptured(w) \/ CheckExisting(w)
      PROVE  UNCHANGED tables
  BY <1>4 DEF FindCaptured, CheckExisting, money, tables
<1> QED BY <1>1, <1>2, <1>3, <1>4 DEF RefundStep, MoneyGoesOn

(* Every step of a payout handler is a move of money. *)
LEMMA PayoutMoney ==
  ASSUME EscrowInvariant, NEW w \in Worker, PayoutStep(w)
  PROVE  MoneyGoesOn
<1>0. HandlerSound(w) /\ payout \in [Booking -> PayoutStatus \cup {"NONE"}]
  BY Handlers, Rows
<1>1. CASE SplitEscrow(w)
  <2>1. PaymentFound(w) /\ booking[worker[w].job.of] = "COMPLETED"
    BY <1>0, <1>1 DEF SplitEscrow, HandlerSound, At
  <2>2. UNCHANGED tables \/ Divides(worker[w].payment)
    BY <1>1, <2>1 DEF SplitEscrow, Divides, PaymentFound, tables
  <2> QED BY <2>1, <2>2 DEF MoneyGoesOn, PaymentFound
<1>2. ASSUME Transfer(w) \/ MarkInTransit(w) \/ Settle(w) \/ TransferFailed(w)
      PROVE  MoneyGoesOn
  <2> DEFINE b == worker[w].job.of
  <2>1. At(w, "execute-payout", worker[w].step) /\ b \in Booking /\ payout[b] # "NONE"
    BY <1>0, <1>2, Handlers
       DEF Transfer, MarkInTransit, Settle, TransferFailed, At, HandlerSound, Owed
  <2>2. CASE Transfer(w)
    <3>1. Sends(b)
      BY <2>1, <2>2 DEF Transfer, Sends
    <3> QED BY <2>1, <3>1 DEF MoneyGoesOn
  <2>3. CASE MarkInTransit(w)
    <3>1. b \in sent
      BY <1>0, <2>3 DEF MarkInTransit, HandlerSound
    <3>2. UNCHANGED tables \/ PayoutGoes(b, "IN_TRANSIT")
      BY <2>1, <2>3, <3>1 DEF MarkInTransit, SetPayout, PayoutGoes, tables
    <3>3. "IN_TRANSIT" \in PayoutStatus
      BY DEF PayoutStatus
    <3> QED BY <2>1, <3>2, <3>3 DEF MoneyGoesOn
  <2>4. CASE Settle(w)
    <3>1. UNCHANGED tables \/ PaysOut(b)
      BY <2>1, <2>4 DEF Settle, SetPayout, PaysOut, money, tables
    <3> QED BY <2>1, <3>1 DEF MoneyGoesOn
  <2>5. CASE TransferFailed(w)
    <3>1. CASE payout[b] \in {"PENDING", "IN_TRANSIT"}
      <4>1. PayoutGoes(b, "FAILED") /\ "FAILED" \in PayoutStatus
        BY <2>1, <2>5, <3>1 DEF TransferFailed, SetPayout, PayoutGoes, PayoutStatus
      <4> QED BY <2>1, <4>1 DEF MoneyGoesOn
    <3>2. CASE payout[b] \notin {"PENDING", "IN_TRANSIT"}
      <4>1. UNCHANGED tables
        BY <1>0, <2>1, <2>5, <3>2 DEF TransferFailed, SetPayout, tables
      <4> QED BY <4>1 DEF MoneyGoesOn
    <3> QED BY <3>1, <3>2
  <2> QED BY <1>2, <2>2, <2>3, <2>4, <2>5
<1>3. ASSUME ReadCompleted(w) \/ FindPaid(w) \/ EnqueueTransfer(w) \/ ReadPayout(w)
      PROVE  UNCHANGED tables
  BY <1>3 DEF ReadCompleted, FindPaid, EnqueueTransfer, ReadPayout, money, tables
<1> QED BY <1>1, <1>2, <1>3 DEF PayoutStep, MoneyGoesOn

(* Every step of the system is a move of money. *)
LEMMA MoneyMoves ==
  ASSUME EscrowInvariant, [Next]_vars
  PROVE  MoneyGoesOn
<1>0. /\ payment \in [Payment -> PaymentStatus \cup {"NONE"}]
      /\ payout \in [Booking -> PayoutStatus \cup {"NONE"}]
  BY Rows
<1>1. ASSUME NEW b \in Booking, AdminStep(b)
      PROVE  MoneyGoesOn
  <2>1. PayoutGoes(b, "ON_HOLD") \/ PayoutGoes(b, "PENDING")
    BY <1>0, <1>1 DEF AdminStep, HoldPayout, ReleasePayout, RetryPayout, Requeue, SetPayout,
                      PayoutGoes
  <2>2. {"ON_HOLD", "PENDING"} \subseteq PayoutStatus
    BY DEF PayoutStatus
  <2> QED BY <2>1, <2>2 DEF MoneyGoesOn
<1>2. ASSUME NEW k \in Payment, PaymentStep(k)
      PROVE  MoneyGoesOn
  <2>1. \/ UNCHANGED tables
        \/ Attempts(k, "INITIATED") \/ Attempts(k, "REQUIRES_ACTION")
    BY <1>0, <1>2 DEF PaymentStep, CreateIdempotent, CreateIntent, AttachProviderIntent,
                      GuestPays, PaymentFails, Attempts, Paid, tables
  <2>2. {"INITIATED", "REQUIRES_ACTION"} \subseteq PaymentStatus
    BY DEF PaymentStatus
  <2> QED BY <2>1, <2>2 DEF MoneyGoesOn
<1>3. ASSUME \/ \E b \in Booking : BookingStep(b)
             \/ \E r \in Refund : RefundEnds(r)
             \/ \E e \in Event : RecordEvent(e) \/ EnqueueEvent(e)
             \/ \E w \in Worker : \/ \E j \in Job : TakeJob(w, j)
                                  \/ WorkerCrash(w) \/ StepThrows(w)
             \/ UNCHANGED vars
      PROVE  UNCHANGED tables
  BY <1>3 DEF BookingStep, HoldLapses, ConfirmCall, ExpireHold, Cancel, Complete, RefundEnds,
              RecordEvent, EnqueueEvent, TakeJob, WorkerCrash, StepThrows, money, vars, tables
<1> QED BY <1>1, <1>2, <1>3, WebhookMoney, RefundMoney, PayoutMoney
        DEF Next, WorkerStep, MoneyGoesOn
-----------------------------------------------------------------------------
(* What was established of the money stays so. *)
MoneyStays ==
    /\ \A k \in Payment : Paid(k) => Paid(k)'
    /\ \A b \in Booking : payout[b] # "NONE" => payout'[b] # "NONE"
    /\ sent \subseteq sent'
    /\ \A r \in Refund : refund[r].status # "NONE" => refund'[r].status # "NONE"

MoneyTypes ==
    /\ payment \in [Payment -> PaymentStatus \cup {"NONE"}]
    /\ refund \in [Refund -> [of : Payment \cup {Nil},
                              status : {"NONE", "PENDING", "SUCCEEDED"},
                              attached : BOOLEAN]]
    /\ refunded \subseteq Refund
    /\ payout \in [Booking -> PayoutStatus \cup {"NONE"}]
    /\ sent \subseteq Booking
    /\ ledger \in [LedgerGroup -> Nat]

(* How each kind of step changes payments and rows of refunds. *)
LEMMA RefundChanges ==
  ASSUME EscrowInvariant, MoneyGoesOn
  PROVE  \/ UNCHANGED <<payment, refund>>
         \/ /\ refund' = refund
            /\ \E k \in Payment :
                 /\ ~Paid(k) /\ \A j \in Payment : j # k => payment'[j] = payment[j]
                 /\ payment'[k] # "REFUNDED"
         \/ /\ payment' = payment
            /\ \E r \in Refund :
                 /\ \A q \in Refund : q # r => refund'[q] = refund[q]
                 /\ \/ refund'[r].of = refund[r].of /\ refund'[r].status = refund[r].status
                    \/ /\ refund[r].status = "NONE" /\ refund'[r].status = "PENDING"
                       /\ refund'[r].of \in Payment /\ Paid(refund'[r].of)
                       /\ Doomed(For[refund'[r].of])
         \/ \E r \in Refund : LET k == refund[r].of IN
              /\ refund[r].status = "PENDING" /\ refund'[r].status = "SUCCEEDED"
              /\ refund'[r].of = k /\ \A q \in Refund : q # r => refund'[q] = refund[q]
              /\ payment[k] # "REFUNDED" /\ payment'[k] = "REFUNDED"
              /\ \A j \in Payment : j # k => payment'[j] = payment[j]
<1>0. MoneyTypes
  BY Rows DEF MoneyTypes
<1>1. ASSUME NEW k \in Payment, Captures(k) \/ \E status \in PaymentStatus : Attempts(k, status)
      PROVE  /\ refund' = refund
             /\ ~Paid(k) /\ \A j \in Payment : j # k => payment'[j] = payment[j]
             /\ payment'[k] # "REFUNDED"
  BY <1>0, <1>1 DEF MoneyTypes, Captures, Attempts
<1>2. ASSUME NEW r \in Refund, PaysBack(r)
      PROVE  LET k == refund[r].of IN
              /\ refund[r].status = "PENDING" /\ refund'[r].status = "SUCCEEDED"
              /\ refund'[r].of = k /\ \A q \in Refund : q # r => refund'[q] = refund[q]
              /\ payment[k] # "REFUNDED" /\ payment'[k] = "REFUNDED"
              /\ \A j \in Payment : j # k => payment'[j] = payment[j]
  <2>1. refund[r].of \in Payment
    BY <1>2 DEF PaysBack, EscrowInvariant, RefundsSound
  <2> QED BY <1>0, <1>2, <2>1 DEF MoneyTypes, PaysBack
<1>3. ASSUME NEW r \in Refund, NEW k \in Payment, OpensRefund(r, k)
      PROVE  /\ payment' = payment
             /\ \A q \in Refund : q # r => refund'[q] = refund[q]
             /\ refund[r].status = "NONE" /\ refund'[r].status = "PENDING"
             /\ refund'[r].of \in Payment /\ Paid(refund'[r].of)
             /\ Doomed(For[refund'[r].of])
  <2> DEFINE row == [refund[r] EXCEPT !.of = k, !.status = "PENDING"]
  <2>1. row.of = k /\ row.status = "PENDING"
    BY <1>0 DEF MoneyTypes
  <2>2. refund' = [refund EXCEPT ![r] = row]
    BY <1>3 DEF OpensRefund
  <2>3. refund'[r] = row /\ \A q \in Refund : q # r => refund'[q] = refund[q]
    <3> HIDE DEF row
    <3> QED BY <1>0, <2>2 DEF MoneyTypes
  <2> QED BY <1>3, <2>1, <2>3 DEF OpensRefund
<1>4. ASSUME NEW r \in Refund, Attaches(r)
      PROVE  /\ payment' = payment
             /\ \A q \in Refund : q # r => refund'[q] = refund[q]
             /\ refund'[r].of = refund[r].of /\ refund'[r].status = refund[r].status
  BY <1>0, <1>4 DEF MoneyTypes, Attaches
<1>5. ASSUME \/ UNCHANGED tables \/ \E k \in Payment : Divides(k)
             \/ \E r \in Refund : Accepts(r)
             \/ \E b \in Booking : \/ Sends(b) \/ PaysOut(b)
                                   \/ \E status \in PayoutStatus : PayoutGoes(b, status)
      PROVE  UNCHANGED <<payment, refund>>
  BY <1>5 DEF tables, Divides, Accepts, Sends, PaysOut, PayoutGoes
<1>6. CASE \E k \in Payment : Captures(k) \/ \E status \in PaymentStatus : Attempts(k, status)
  BY <1>1, <1>6
<1>7. CASE \E r \in Refund : PaysBack(r)
  BY <1>2, <1>7
<1>8. CASE \E r \in Refund : \E k \in Payment : OpensRefund(r, k)
  <2> PICK r \in Refund : \E k \in Payment : OpensRefund(r, k)
    BY <1>8
  <2> QED BY <1>3
<1>9. CASE \E r \in Refund : Attaches(r)
  BY <1>4, <1>9
<1> QED BY <1>5, <1>6, <1>7, <1>8, <1>9 DEF MoneyGoesOn

(* A move of money undoes nothing that was established. *)
LEMMA MoneyStaysStep ==
  ASSUME EscrowInvariant, MoneyGoesOn
  PROVE  MoneyStays /\ MoneyTypes'
<1>0. MoneyTypes
  BY Rows DEF MoneyTypes
<1>1. \A k \in Payment : Paid(k) => Paid(k)'
  BY RefundChanges DEF Paid
<1>2. \A r \in Refund : refund[r].status # "NONE" => refund'[r].status # "NONE"
  BY RefundChanges
<1>3. /\ \A b \in Booking : payout[b] # "NONE" => payout'[b] # "NONE"
      /\ payout' \in [Booking -> PayoutStatus \cup {"NONE"}]
      /\ sent' \subseteq Booking /\ sent \subseteq sent' /\ refunded' \subseteq Refund
  <2>1. \/ payout' = payout
        \/ \E b \in Booking, status \in PayoutStatus : payout' = [payout EXCEPT ![b] = status]
    <3>1. For \in [Payment -> Booking] /\ {"PENDING", "PAID"} \subseteq PayoutStatus
      BY Constants DEF PayoutStatus
    <3> QED BY <3>1 DEF MoneyGoesOn, tables, Captures, Divides, Attempts, PaysBack, Accepts,
                        Attaches, OpensRefund, Sends, PaysOut, PayoutGoes
  <2>2. /\ sent' = sent \/ \E b \in Booking : sent' = sent \cup {b}
        /\ refunded' = refunded \/ \E r \in Refund : refunded' = refunded \cup {r}
    BY DEF MoneyGoesOn, tables, Captures, Divides, Attempts, PaysBack, Accepts, Attaches,
           OpensRefund, Sends, PaysOut, PayoutGoes
  <2>3. sent \subseteq Booking /\ refunded \subseteq Refund
    BY <1>0 DEF MoneyTypes
  <2>4. payout \in [Booking -> PayoutStatus \cup {"NONE"}] /\ "NONE" \notin PayoutStatus
    BY <1>0 DEF MoneyTypes, PayoutStatus
  <2> QED BY <2>1, <2>2, <2>3, <2>4
<1>4. payment' \in [Payment -> PaymentStatus \cup {"NONE"}]
  BY <1>0 DEF MoneyGoesOn, tables, Captures, Divides, Attempts, PaysBack, Accepts, Attaches,
              OpensRefund, Sends, PaysOut, PayoutGoes, MoneyTypes, PaymentStatus
<1>5. ledger' \in [LedgerGroup -> Nat]
  <2>1. \/ ledger' = ledger
        \/ \E g \in LedgerGroup : PostGroup(g)
    <3>1. ASSUME NEW r \in Refund, PaysBack(r)
          PROVE  <<"REFUND", refund[r].of>> \in LedgerGroup
      BY <3>1, GroupKinds DEF PaysBack, EscrowInvariant, RefundsSound
    <3> QED BY <3>1, GroupKinds
            DEF MoneyGoesOn, tables, Captures, Divides, Attempts, PaysBack, Accepts, Attaches,
                OpensRefund, Sends, PaysOut, PayoutGoes
  <2> QED BY <1>0, <2>1, Posted DEF MoneyTypes
<1>6. refund' \in [Refund -> [of : Payment \cup {Nil},
                              status : {"NONE", "PENDING", "SUCCEEDED"}, attached : BOOLEAN]]
  <2> DEFINE Row == [of : Payment \cup {Nil}, status : {"NONE", "PENDING", "SUCCEEDED"},
                     attached : BOOLEAN]
  <2>1. \/ refund' = refund
        \/ \E r \in Refund, row \in Row : refund' = [refund EXCEPT ![r] = row]
    <3>1. ASSUME NEW r \in Refund, NEW k \in Payment, OpensRefund(r, k)
          PROVE  \E row \in Row : refund' = [refund EXCEPT ![r] = row]
      <4> DEFINE row == [refund[r] EXCEPT !.of = k, !.status = "PENDING"]
      <4>1. row \in Row
        BY <1>0 DEF MoneyTypes
      <4>2. refund' = [refund EXCEPT ![r] = row]
        BY <3>1 DEF OpensRefund
      <4> QED BY <4>1, <4>2
    <3>2. ASSUME NEW r \in Refund, PaysBack(r) \/ Attaches(r)
          PROVE  \E row \in Row : refund' = [refund EXCEPT ![r] = row]
      <4>1. [refund[r] EXCEPT !.status = "SUCCEEDED"] \in Row
        BY <1>0 DEF MoneyTypes
      <4>2. [refund[r] EXCEPT !.attached = TRUE] \in Row
        BY <1>0 DEF MoneyTypes
      <4> QED BY <3>2, <4>1, <4>2 DEF PaysBack, Attaches
    <3>3. ASSUME ~\E r \in Refund : \/ PaysBack(r) \/ Attaches(r)
                                    \/ \E k \in Payment : OpensRefund(r, k)
          PROVE  refund' = refund
      BY <3>3 DEF MoneyGoesOn, tables, Captures, Divides, Attempts, Accepts, Sends, PaysOut,
                  PayoutGoes
    <3> QED BY <3>1, <3>2, <3>3
  <2> HIDE DEF Row
  <2>2. refund \in [Refund -> Row]
    BY <1>0 DEF MoneyTypes, Row
  <2>3. refund' \in [Refund -> Row]
    BY <2>1, <2>2
  <2> QED BY <2>3 DEF Row
<1> QED BY <1>1, <1>2, <1>3, <1>4, <1>5, <1>6 DEF MoneyStays, MoneyTypes

(* A move of money keeps the rows of refunds sound. *)
LEMMA RefundsStep ==
  ASSUME EscrowInvariant, MoneyGoesOn, BookingGoesOn
  PROVE  RefundsSound'
<1>0. RefundsSound /\ MoneyStays /\ For \in [Payment -> Booking]
  BY MoneyStaysStep, Constants DEF EscrowInvariant
<1>1. \A r \in Refund : refund'[r].status # "NONE" =>
          /\ refund'[r].of \in Payment
          /\ \/ /\ refund[r].status # "NONE" /\ refund'[r].of = refund[r].of
             \/ Paid(refund'[r].of) /\ Doomed(For[refund'[r].of])
  BY <1>0, RefundChanges DEF RefundsSound
<1>2. ASSUME NEW r \in Refund, refund'[r].status # "NONE"
      PROVE  \E k \in Payment : refund'[r].of = k /\ Paid(k)' /\ Doomed(For[k])'
  <2>1. /\ refund'[r].of \in Payment
        /\ Paid(refund'[r].of) /\ Doomed(For[refund'[r].of])
    BY <1>0, <1>1, <1>2 DEF RefundsSound
  <2>2. PICK k \in Payment : k = refund'[r].of
    BY <2>1
  <2>3. Paid(k) /\ Doomed(For[k]) /\ For[k] \in Booking
    BY <1>0, <2>1, <2>2
  <2>4. Paid(k)' /\ Doomed(For[k])'
    BY <1>0, <2>3 DEF MoneyStays, BookingGoesOn
  <2> QED BY <2>2, <2>4
<1>3. \A r \in Refund : refund'[r].status = "SUCCEEDED" => payment'[refund'[r].of] = "REFUNDED"
  BY <1>0, RefundChanges DEF RefundsSound, Paid
<1>4. \A r, q \in Refund :
          (refund'[r].status = "SUCCEEDED" /\ refund'[q].status = "SUCCEEDED"
             /\ refund'[r].of = refund'[q].of) => r = q
  BY <1>0, RefundChanges DEF RefundsSound
<1>5. \A k \in Payment : payment'[k] = "REFUNDED" =>
          \E r \in Refund : refund'[r].of = k /\ refund'[r].status = "SUCCEEDED"
  BY <1>0, RefundChanges DEF RefundsSound, Paid
<1>6. \A r \in refunded' : refund'[r].status # "NONE"
  <2>1. \A r \in refunded' : r \in Refund /\ refund[r].status # "NONE"
    <3>1. refunded' = refunded \/ \E r \in Refund : Accepts(r)
      BY DEF MoneyGoesOn, tables, Captures, Divides, Attempts, PaysBack, Attaches, OpensRefund,
             Sends, PaysOut, PayoutGoes
    <3>2. \A r \in refunded : r \in Refund /\ refund[r].status # "NONE"
      BY <1>0, Rows DEF RefundsSound
    <3> QED BY <3>1, <3>2 DEF Accepts
  <2> QED BY <1>0, <2>1 DEF MoneyStays
<1>7. \A r \in Refund : refund'[r].status # "NONE" =>
          /\ refund'[r].of \in Payment
          /\ payment'[refund'[r].of] \in {"CAPTURED", "REFUNDED"}
          /\ \/ booking'[For[refund'[r].of]] \in {"CANCELLED", "REFUNDED", "EXPIRED"}
             \/ booking'[For[refund'[r].of]] = "PENDING_PAYMENT" /\ For[refund'[r].of] \in lapsed'
  BY <1>2 DEF Paid, Doomed
<1> QED BY <1>3, <1>4, <1>5, <1>6, <1>7 DEF RefundsSound, Paid, Doomed

(* How each kind of step changes the ledger, with what it tells of. *)
LEMMA BookChanges ==
  ASSUME EscrowInvariant, MoneyGoesOn
  PROVE  \/ /\ ledger' = ledger
            /\ \A k \in Payment : /\ Paid(k) <=> Paid(k)'
                                  /\ payment[k] = "REFUNDED" <=> payment'[k] = "REFUNDED"
            /\ \A b \in Booking : /\ payout'[b] = "NONE" <=> payout[b] = "NONE"
                                  /\ payout'[b] = "PAID" <=> payout[b] = "PAID"
                                  /\ payout'[b] = "IN_TRANSIT" => payout[b] = "IN_TRANSIT" \/ b \in sent
                                  /\ b \in sent' => b \in sent \/ payout[b] # "NONE"
         \/ \E k \in Payment :
              /\ ~Paid(k) /\ payment'[k] = "CAPTURED"
              /\ \A j \in Payment : j # k => payment'[j] = payment[j]
              /\ PostGroup(<<"CAPTURE", k>>) /\ UNCHANGED <<payout, sent>>
         \/ \E k \in Payment, r \in Refund :
              /\ refund[r].of = k /\ refund[r].status = "PENDING"
              /\ payment[k] # "REFUNDED" /\ payment'[k] = "REFUNDED"
              /\ \A j \in Payment : j # k => payment'[j] = payment[j]
              /\ PostGroup(<<"REFUND", k>>) /\ UNCHANGED <<payout, sent>>
         \/ \E k \in Payment :
              /\ Paid(k) /\ booking[For[k]] = "COMPLETED" /\ payout[For[k]] = "NONE"
              /\ payout'[For[k]] = "PENDING"
              /\ \A b \in Booking : b # For[k] => payout'[b] = payout[b]
              /\ PostGroup(<<"SPLIT", k>>) /\ UNCHANGED <<payment, sent>>
         \/ \E b \in Booking :
              /\ payout[b] = "IN_TRANSIT" /\ payout'[b] = "PAID"
              /\ \A c \in Booking : c # b => payout'[c] = payout[c]
              /\ PostGroup(<<"PAYOUT", b>>) /\ UNCHANGED <<payment, sent>>
<1>0. MoneyTypes /\ For \in [Payment -> Booking]
  BY Rows, Constants DEF MoneyTypes
<1> DEFINE Quiet ==
        /\ ledger' = ledger
        /\ \A k \in Payment : /\ Paid(k) <=> Paid(k)'
                              /\ payment[k] = "REFUNDED" <=> payment'[k] = "REFUNDED"
        /\ \A b \in Booking : /\ payout'[b] = "NONE" <=> payout[b] = "NONE"
                              /\ payout'[b] = "PAID" <=> payout[b] = "PAID"
                              /\ payout'[b] = "IN_TRANSIT" => payout[b] = "IN_TRANSIT" \/ b \in sent
                              /\ b \in sent' => b \in sent \/ payout[b] # "NONE"
<1>1. ASSUME NEW k \in Payment, Captures(k)
      PROVE  /\ ~Paid(k) /\ payment'[k] = "CAPTURED"
             /\ \A j \in Payment : j # k => payment'[j] = payment[j]
             /\ PostGroup(<<"CAPTURE", k>>) /\ UNCHANGED <<payout, sent>>
  BY <1>0, <1>1 DEF Captures, MoneyTypes
<1>2. ASSUME NEW r \in Refund, PaysBack(r)
      PROVE  \E k \in Payment :
              /\ refund[r].of = k /\ refund[r].status = "PENDING"
              /\ payment[k] # "REFUNDED" /\ payment'[k] = "REFUNDED"
              /\ \A j \in Payment : j # k => payment'[j] = payment[j]
              /\ PostGroup(<<"REFUND", k>>) /\ UNCHANGED <<payout, sent>>
  <2>1. refund[r].of \in Payment
    BY <1>2 DEF PaysBack, EscrowInvariant, RefundsSound
  <2> QED BY <1>0, <1>2, <2>1 DEF PaysBack, MoneyTypes
<1>3. ASSUME NEW k \in Payment, Divides(k)
      PROVE  /\ Paid(k) /\ booking[For[k]] = "COMPLETED" /\ payout[For[k]] = "NONE"
             /\ payout'[For[k]] = "PENDING"
             /\ \A b \in Booking : b # For[k] => payout'[b] = payout[b]
             /\ PostGroup(<<"SPLIT", k>>) /\ UNCHANGED <<payment, sent>>
  BY <1>0, <1>3 DEF Divides, MoneyTypes
<1>4. ASSUME NEW b \in Booking, PaysOut(b)
      PROVE  /\ payout[b] = "IN_TRANSIT" /\ payout'[b] = "PAID"
             /\ \A c \in Booking : c # b => payout'[c] = payout[c]
             /\ PostGroup(<<"PAYOUT", b>>) /\ UNCHANGED <<payment, sent>>
  BY <1>0, <1>4 DEF PaysOut, MoneyTypes
<1>5. ASSUME NEW k \in Payment, NEW status \in PaymentStatus, Attempts(k, status)
      PROVE  Quiet
  BY <1>0, <1>5 DEF Attempts, Paid, MoneyTypes
<1>6. ASSUME NEW b \in Booking, Sends(b) \/ \E status \in PayoutStatus : PayoutGoes(b, status)
      PROVE  Quiet
  BY <1>0, <1>6 DEF Sends, PayoutGoes, Paid, MoneyTypes
<1>7. ASSUME \/ UNCHANGED tables
             \/ \E r \in Refund : \/ Accepts(r) \/ Attaches(r)
                                  \/ \E k \in Payment : OpensRefund(r, k)
      PROVE  Quiet
  BY <1>7 DEF tables, Accepts, Attaches, OpensRefund, Paid
<1> HIDE DEF Quiet
<1>8. \/ Quiet
      \/ \E k \in Payment : Captures(k) \/ Divides(k)
      \/ \E r \in Refund : PaysBack(r)
      \/ \E b \in Booking : PaysOut(b)
  BY <1>5, <1>6, <1>7 DEF MoneyGoesOn
<1>9. CASE Quiet
  BY <1>9 DEF Quiet
<1>10. CASE \E k \in Payment : Captures(k)
  BY <1>1, <1>10
<1>11. CASE \E k \in Payment : Divides(k)
  BY <1>3, <1>11
<1>12. CASE \E r \in Refund : PaysBack(r)
  BY <1>2, <1>12
<1>13. CASE \E b \in Booking : PaysOut(b)
  BY <1>4, <1>13
<1> QED BY <1>8, <1>9, <1>10, <1>11, <1>12, <1>13

(* A move of money keeps the books in step with the tables. *)
LEMMA BooksStep ==
  ASSUME EscrowInvariant, MoneyGoesOn, BookingGoesOn
  PROVE  PaymentBooks' /\ SplitBooks' /\ PayoutBooks'
<1>0. /\ RefundsSound /\ PaymentBooks /\ SplitBooks /\ PayoutBooks
      /\ For \in [Payment -> Booking] /\ ledger \in [LedgerGroup -> Nat]
      /\ \A b \in Booking : booking[b] = "COMPLETED" => booking'[b] = "COMPLETED"
      /\ MoneyStays
  BY Rows, Constants, MoneyStaysStep DEF EscrowInvariant, BookingGoesOn
<1>1. \A k \in Payment : In(k) \in Nat /\ Back(k) \in Nat /\ Out(k) \in Nat
  BY <1>0, GroupPosted
(* Money of a completed booking is not given back. *)
<1>2. ASSUME NEW k \in Payment, booking[For[k]] = "COMPLETED", Paid(k)
      PROVE  payment[k] = "CAPTURED" /\ \A r \in Refund : refund[r].of = k => refund[r].status = "NONE"
  BY <1>0, <1>2 DEF RefundsSound, Doomed, Paid
<1>3. ASSUME ledger' = ledger,
             \A k \in Payment : /\ Paid(k) <=> Paid(k)'
                                /\ payment[k] = "REFUNDED" <=> payment'[k] = "REFUNDED",
             \A b \in Booking : /\ payout'[b] = "NONE" <=> payout[b] = "NONE"
                                /\ payout'[b] = "PAID" <=> payout[b] = "PAID"
                                /\ payout'[b] = "IN_TRANSIT" => payout[b] = "IN_TRANSIT" \/ b \in sent
                                /\ b \in sent' => b \in sent \/ payout[b] # "NONE"
      PROVE  PaymentBooks' /\ SplitBooks' /\ PayoutBooks'
  <2>1. /\ \A k \in Payment : In(k)' = In(k) /\ Back(k)' = Back(k) /\ Out(k)' = Out(k)
        /\ \A b \in Booking : Settled(b)' = Settled(b)
    BY <1>3 DEF In, Back, Out, Settled
  <2>2. PaymentBooks'
    BY <1>0, <1>3, <2>1 DEF PaymentBooks
  <2>3. SplitBooks'
    <3>1. \A k \in Payment : payment[k] = "CAPTURED" => payment'[k] = "CAPTURED"
      BY <1>3 DEF Paid
    <3> QED BY <1>0, <1>3, <2>1, <3>1 DEF SplitBooks, Split
  <2>4. PayoutBooks'
    BY <1>0, <1>3, <2>1 DEF PayoutBooks, MoneyStays
  <2> QED BY <2>2, <2>3, <2>4
<1>4. ASSUME NEW k \in Payment, ~Paid(k), payment'[k] = "CAPTURED",
             \A j \in Payment : j # k => payment'[j] = payment[j],
             PostGroup(<<"CAPTURE", k>>), UNCHANGED <<payout, sent>>
      PROVE  PaymentBooks' /\ SplitBooks' /\ PayoutBooks'
  <2>1. /\ In(k)' = In(k) + 1
        /\ \A j \in Payment : /\ j # k => In(j)' = In(j)
                              /\ Back(j)' = Back(j)
                              /\ Out(j)' = Out(j)
        /\ \A b \in Booking : Settled(b)' = Settled(b)
    BY <1>0, <1>4, GroupPosted DEF OthersStay
  <2>2. PaymentBooks'
    BY <1>0, <1>4, <2>1 DEF PaymentBooks, Paid
  <2>3. SplitBooks'
    BY <1>0, <1>4, <2>1 DEF SplitBooks, Split, Paid
  <2>4. PayoutBooks'
    BY <1>0, <1>4, <2>1 DEF PayoutBooks
  <2> QED BY <2>2, <2>3, <2>4
<1>5. ASSUME NEW k \in Payment, NEW r \in Refund, refund[r].of = k, refund[r].status = "PENDING",
             payment[k] # "REFUNDED", payment'[k] = "REFUNDED",
             \A j \in Payment : j # k => payment'[j] = payment[j],
             PostGroup(<<"REFUND", k>>), UNCHANGED <<payout, sent>>
      PROVE  PaymentBooks' /\ SplitBooks' /\ PayoutBooks'
  <2>1. /\ Back(k)' = Back(k) + 1
        /\ \A j \in Payment : /\ j # k => Back(j)' = Back(j)
                              /\ In(j)' = In(j)
                              /\ Out(j)' = Out(j)
        /\ \A b \in Booking : Settled(b)' = Settled(b)
    BY <1>0, <1>5, GroupPosted DEF OthersStay
  <2>2. Paid(k) /\ ~Split(k)
    BY <1>0, <1>2, <1>5 DEF RefundsSound, SplitBooks
  <2>3. PaymentBooks'
    BY <1>0, <1>5, <2>1, <2>2 DEF PaymentBooks, Paid
  <2>4. SplitBooks'
    BY <1>0, <1>5, <2>1, <2>2 DEF SplitBooks, Split
  <2>5. PayoutBooks'
    BY <1>0, <1>5, <2>1 DEF PayoutBooks
  <2> QED BY <2>3, <2>4, <2>5
<1>6. ASSUME NEW k \in Payment, Paid(k), booking[For[k]] = "COMPLETED", payout[For[k]] = "NONE",
             payout'[For[k]] = "PENDING",
             \A b \in Booking : b # For[k] => payout'[b] = payout[b],
             PostGroup(<<"SPLIT", k>>), UNCHANGED <<payment, sent>>
      PROVE  PaymentBooks' /\ SplitBooks' /\ PayoutBooks'
  <2>1. /\ Out(k)' = Out(k) + 1
        /\ \A j \in Payment : /\ j # k => Out(j)' = Out(j)
                              /\ In(j)' = In(j)
                              /\ Back(j)' = Back(j)
        /\ \A b \in Booking : Settled(b)' = Settled(b)
    BY <1>0, <1>6, GroupPosted DEF OthersStay
  <2>2. payment[k] = "CAPTURED" /\ For[k] \in Booking
    BY <1>0, <1>2, <1>6
  <2>3. \A j \in Payment : For[j] = For[k] => Out(j) = 0
    BY <1>0, <1>6 DEF SplitBooks, Split
  <2>4. PaymentBooks'
    BY <1>0, <1>6, <2>1 DEF PaymentBooks, Paid
  <2>5. \A j \in Payment :
          /\ Out(j)' \in {0, 1}
          /\ Out(j)' = 1 => j = k \/ (Out(j) = 1 /\ For[j] # For[k])
    BY <1>0, <2>1, <2>3 DEF SplitBooks
  <2>6. SplitBooks'
    <3>1. \A j \in Payment : Out(j)' = 1 =>
             /\ payout'[For[j]] # "NONE" /\ booking'[For[j]] = "COMPLETED"
             /\ payment'[j] = "CAPTURED"
      BY <1>0, <1>6, <2>2, <2>5 DEF SplitBooks, Split
    <3>2. \A i, j \in Payment :
             Out(i)' = 1 /\ Out(j)' = 1 /\ For[i] = For[j] => i = j
      BY <1>0, <2>5 DEF SplitBooks, Split
    <3>3. \A b \in Booking : payout'[b] # "NONE" =>
             \E j \in Payment : For[j] = b /\ Out(j)' = 1
      <4>1. Out(k)' = 1
        BY <2>1, <2>3
      <4>2. \A j \in Payment : Out(j) = 1 => Out(j)' = 1
        BY <2>1, <2>3
      <4> QED BY <1>0, <1>6, <4>1, <4>2 DEF SplitBooks, Split
    <3> QED BY <2>5, <3>1, <3>2, <3>3 DEF SplitBooks, Split
  <2>7. PayoutBooks'
    BY <1>0, <1>6, <2>1, <2>2 DEF PayoutBooks
  <2> QED BY <2>4, <2>6, <2>7
<1>7. ASSUME NEW b \in Booking, payout[b] = "IN_TRANSIT", payout'[b] = "PAID",
             \A c \in Booking : c # b => payout'[c] = payout[c],
             PostGroup(<<"PAYOUT", b>>), UNCHANGED <<payment, sent>>
      PROVE  PaymentBooks' /\ SplitBooks' /\ PayoutBooks'
  <2>1. /\ Settled(b)' = Settled(b) + 1
        /\ \A c \in Booking : c # b => Settled(c)' = Settled(c)
        /\ \A j \in Payment : /\ Out(j)' = Out(j)
                              /\ In(j)' = In(j)
                              /\ Back(j)' = Back(j)
    BY <1>0, <1>7, GroupPosted DEF OthersStay
  <2>2. PaymentBooks'
    BY <1>0, <1>7, <2>1 DEF PaymentBooks, Paid
  <2>3. SplitBooks'
    BY <1>0, <1>7, <2>1 DEF SplitBooks, Split
  <2>4. PayoutBooks'
    BY <1>0, <1>7, <2>1 DEF PayoutBooks
  <2> QED BY <2>2, <2>3, <2>4
<1> QED BY <1>3, <1>4, <1>5, <1>6, <1>7, BookChanges
-----------------------------------------------------------------------------
(* The queue: a step adds only jobs whose premise holds, and premises stay.*)
LEMMA OwedStays ==
  ASSUME BookingGoesOn, MoneyStays, NEW j \in Job \cup {Idle.job}, Owed(j)
  PROVE  Owed(j)'
<1>1. j.name \in {"create-refund", "create-payout", "execute-payout"} => j.of \in Booking
  BY JobKinds
<1> QED BY <1>1 DEF Owed, BookingGoesOn, MoneyStays

QueueGoesOn ==
    /\ queue' \in [Job -> 0 .. Copies]
    /\ \A j \in Job : queue'[j] > 0 => queue[j] > 0 \/ Owed(j)'

(* A job that is owed may be added. *)
LEMMA QueueAdds ==
  ASSUME queue \in [Job -> 0 .. Copies], NEW j, Add(j) \/ UNCHANGED queue, Owed(j)'
  PROVE  QueueGoesOn
<1>1. \A n \in 0 .. Copies : More(n) \in 0 .. Copies
  BY Constants DEF More
<1>2. CASE Add(j)
  <2>1. queue' \in [Job -> 0 .. Copies] /\ \A i \in Job : i # j => queue'[i] = queue[i]
    BY <1>1, <1>2 DEF Add
  <2> QED BY <2>1 DEF QueueGoesOn
<1>3. CASE UNCHANGED queue
  BY <1>3 DEF QueueGoesOn
<1> QED BY <1>2, <1>3

(* A job may be removed. *)
LEMMA QueueDrops ==
  ASSUME queue \in [Job -> 0 .. Copies], NEW j, Drop(j) \/ UNCHANGED queue
  PROVE  QueueGoesOn
<1>1. \A n \in 0 .. Copies : Less(n) \in 0 .. Copies /\ (Less(n) > 0 => n > 0)
  BY Constants DEF Less
<1>2. CASE Drop(j)
  <2>1. \A i \in Job : queue[i] \in 0 .. Copies
    OBVIOUS
  <2>2. /\ queue' \in [Job -> 0 .. Copies]
        /\ \A i \in Job : queue'[i] = queue[i] \/ queue'[i] = Less(queue[i])
    BY <1>1, <1>2 DEF Drop
  <2> QED BY <1>1, <2>1, <2>2 DEF QueueGoesOn
<1>3. CASE UNCHANGED queue
  BY <1>3 DEF QueueGoesOn
<1> QED BY <1>2, <1>3

(* Every step adds only jobs that are owed. *)
LEMMA QueueMoves ==
  ASSUME EscrowInvariant, [Next]_vars, BookingGoesOn, MoneyStays
  PROVE  QueueGoesOn
<1>0. queue \in [Job -> 0 .. Copies] /\ booking \in [Booking -> BookingStatus]
  BY Rows
<1>1. ASSUME NEW b \in Booking, Cancel(b)
      PROVE  QueueGoesOn
  <2>1. booking'[b] = "CANCELLED"
    BY <1>0, <1>1 DEF Cancel
  <2>2. Owed(RefundJob(b, "cancelled"))'
    BY <2>1 DEF Owed, RefundJob, Doomed
  <2>3. Add(RefundJob(b, "cancelled")) \/ UNCHANGED queue
    BY <1>1 DEF Cancel, Enqueue
  <2> QED BY <1>0, <2>2, <2>3, QueueAdds
<1>2. ASSUME NEW b \in Booking, Complete(b)
      PROVE  QueueGoesOn
  <2>1. Owed(PayoutJob("create-payout", b))'
    BY DEF Owed, PayoutJob
  <2>2. Add(PayoutJob("create-payout", b)) \/ UNCHANGED queue
    BY <1>2 DEF Complete, Enqueue
  <2> QED BY <1>0, <2>1, <2>2, QueueAdds
<1>3. ASSUME NEW e \in Event, EnqueueEvent(e)
      PROVE  QueueGoesOn
  <2>1. Owed(WebhookJob(e))'
    BY DEF Owed, WebhookJob
  <2>2. Add(WebhookJob(e)) \/ UNCHANGED queue
    BY <1>3 DEF EnqueueEvent, Enqueue
  <2> QED BY <1>0, <2>1, <2>2, QueueAdds
<1>4. ASSUME NEW b \in Booking, ReleasePayout(b) \/ RetryPayout(b)
      PROVE  QueueGoesOn
  <2>1. payout[b] # "NONE" /\ (Add(PayoutJob("execute-payout", b)) \/ UNCHANGED queue)
    BY <1>4 DEF ReleasePayout, RetryPayout, Requeue, Enqueue
  <2>2. Owed(PayoutJob("execute-payout", b))'
    BY <2>1 DEF Owed, PayoutJob, MoneyStays
  <2> QED BY <1>0, <2>1, <2>2, QueueAdds
<1>5. ASSUME NEW w \in Worker, AnswerConfirm(w)
      PROVE  QueueGoesOn
  <2> PICK b : b = Concerns(w)
    OBVIOUS
  <2>1. CASE HoldExpired(b)
    <3>1. Doomed(b) /\ UNCHANGED <<booking, lapsed>>
      BY <1>5, <2>1 DEF AnswerConfirm, HoldExpired, Doomed
    <3>2. Owed(RefundJob(b, "hold_expired_after_capture"))'
      BY <3>1 DEF Owed, RefundJob, Doomed
    <3>3. Add(RefundJob(b, "hold_expired_after_capture"))
      BY <1>5, <2>1 DEF AnswerConfirm
    <3> QED BY <1>0, <3>2, <3>3, QueueAdds
  <2>2. CASE ~HoldExpired(b)
    BY <1>0, <1>5, <2>2, QueueDrops DEF AnswerConfirm
  <2> QED BY <2>1, <2>2
<1>6. ASSUME NEW w \in Worker, EnqueueTransfer(w)
      PROVE  QueueGoesOn
  <2>1. payout[worker[w].job.of] # "NONE" /\ worker[w].job.of \in Booking
    BY <1>6, Handlers DEF EnqueueTransfer, HandlerSound, At
  <2> PICK b \in Booking : b = worker[w].job.of /\ payout[b] # "NONE"
    BY <2>1
  <2> PICK j : j = worker[w].job
    OBVIOUS
  <2> DEFINE x == PayoutJob("execute-payout", b)
  <2>2. Owed(x)' /\ j # x
    BY <1>6 DEF Owed, PayoutJob, MoneyStays, EnqueueTransfer, At
  <2>3. \A n \in 0 .. Copies : /\ More(n) \in 0 .. Copies /\ Less(n) \in 0 .. Copies
                               /\ Less(n) > 0 => n > 0
    BY Constants DEF More, Less
  <2>4. queue' = [queue EXCEPT ![j] = Less(@), ![x] = More(@)]
    BY <1>6 DEF EnqueueTransfer
  <2> HIDE DEF x
  <2>5. \A i \in Job : queue[i] \in 0 .. Copies
    BY <1>0
  <2>6. /\ queue' \in [Job -> 0 .. Copies]
        /\ \A i \in Job : i # x => queue'[i] = queue[i] \/ queue'[i] = Less(queue[i])
    BY <1>0, <2>2, <2>3, <2>4
  <2> QED BY <2>2, <2>3, <2>5, <2>6 DEF QueueGoesOn
(* Every other step leaves the queue alone or drops a job. *)
<1>7. ASSUME NEW w \in Worker,
             \/ \E j \in Job : TakeJob(w, j)
             \/ WorkerCrash(w) \/ StepThrows(w)
             \/ ClaimEvent(w) \/ ApplyCapture(w) \/ ApplyFailure(w) \/ ApplyRefund(w)
             \/ ApplyRefundFailure(w) \/ ReadBooking(w) \/ AssertConfirm(w) \/ ConfirmCas(w)
             \/ MarkRefunded(w) \/ MarkProcessed(w) \/ FailEvent(w)
             \/ RefundStep(w)
             \/ ReadCompleted(w) \/ FindPaid(w) \/ SplitEscrow(w) \/ ReadPayout(w)
             \/ Transfer(w) \/ MarkInTransit(w) \/ Settle(w) \/ TransferFailed(w)
      PROVE  QueueGoesOn
  <2>1. Drop(worker[w].job) \/ UNCHANGED queue
    BY <1>7 DEF TakeJob, WorkerCrash, StepThrows, ClaimEvent, ApplyCapture, ApplyFailure,
                ApplyRefund, ApplyRefundFailure, ReadBooking, AssertConfirm, ConfirmCas,
                MarkRefunded, MarkProcessed, FailEvent, RefundStep, FindCaptured, CheckExisting,
                InsertRefund, AskProvider, AttachRefund, ReadCompleted, FindPaid, SplitEscrow,
                ReadPayout, Transfer, MarkInTransit, Settle, TransferFailed, Done, Throw
  <2> PICK j : j = worker[w].job
    OBVIOUS
  <2> QED BY <1>0, <2>1, QueueDrops
<1>8. ASSUME \/ \E b \in Booking : HoldLapses(b) \/ ConfirmCall(b) \/ ExpireHold(b) \/ HoldPayout(b)
             \/ \E k \in Payment : PaymentStep(k)
             \/ \E r \in Refund : RefundEnds(r)
             \/ \E e \in Event : RecordEvent(e)
             \/ UNCHANGED vars
      PROVE  QueueGoesOn
  <2>1. UNCHANGED queue
    BY <1>8 DEF HoldLapses, ConfirmCall, ExpireHold, HoldPayout, PaymentStep, CreateIdempotent,
                CreateIntent, AttachProviderIntent, GuestPays, PaymentFails, RefundEnds,
                RecordEvent, vars
  <2> QED BY <1>0, <2>1 DEF QueueGoesOn
<1> QED BY <1>1, <1>2, <1>3, <1>4, <1>5, <1>6, <1>7, <1>8
        DEF Next, BookingStep, AdminStep, WorkerStep, WebhookStep, PayoutStep

(* So the jobs of the queue stay owed. *)
LEMMA QueueStep ==
  ASSUME EscrowInvariant, QueueGoesOn, BookingGoesOn, MoneyStays
  PROVE  QueueSound'
  BY OwedStays DEF QueueGoesOn, EscrowInvariant, QueueSound
-----------------------------------------------------------------------------
(* What the provider emits and the inbox records. *)
LEMMA EventTypes ==
  ASSUME EscrowInvariant, [Next]_vars
  PROVE  /\ intent' \in [Payment -> {"none", "open", "failed", "captured"}]
         /\ events' \subseteq Event /\ intake' \subseteq events'
         /\ inbox' \in [Event -> {"NONE", "RECEIVED", "PROCESSING", "PROCESSED", "FAILED"}]
<1>0. /\ intent \in [Payment -> {"none", "open", "failed", "captured"}]
      /\ events \subseteq Event /\ intake \subseteq events
      /\ inbox \in [Event -> {"NONE", "RECEIVED", "PROCESSING", "PROCESSED", "FAILED"}]
  BY DEF EscrowInvariant, TypeOK
<1>1. /\ \A k \in Payment : /\ [type |-> "PAYMENT_CAPTURED", of |-> k] \in Event
                            /\ [type |-> "PAYMENT_FAILED", of |-> k] \in Event
      /\ \A r \in Refund : /\ [type |-> "REFUND_SUCCEEDED", of |-> r] \in Event
                           /\ [type |-> "REFUND_FAILED", of |-> r] \in Event
  BY DEF Event
<1>2. ASSUME NEW k \in Payment, PaymentStep(k)
      PROVE  /\ intent' \in [Payment -> {"none", "open", "failed", "captured"}]
             /\ events' \subseteq Event /\ events \subseteq events' /\ UNCHANGED <<inbox, intake>>
  BY <1>0, <1>1, <1>2 DEF PaymentStep, CreateIdempotent, CreateIntent, AttachProviderIntent,
                          GuestPays, PaymentFails, Emit, hooks
<1>3. ASSUME NEW r \in Refund, RefundEnds(r)
      PROVE  /\ events' \subseteq Event /\ events \subseteq events'
             /\ UNCHANGED <<intent, inbox, intake>>
  BY <1>0, <1>1, <1>3 DEF RefundEnds, Emit, money
<1>4. ASSUME NEW e \in Event, RecordEvent(e) \/ EnqueueEvent(e)
      PROVE  /\ intake' \subseteq events /\ UNCHANGED <<intent, events>>
             /\ inbox' \in [Event -> {"NONE", "RECEIVED", "PROCESSING", "PROCESSED", "FAILED"}]
  BY <1>0, <1>4 DEF RecordEvent, EnqueueEvent, money
<1>5. ASSUME NEW w \in Worker, ClaimEvent(w) \/ MarkProcessed(w) \/ FailEvent(w)
      PROVE  /\ UNCHANGED <<intent, events, intake>>
             /\ inbox' \in [Event -> {"NONE", "RECEIVED", "PROCESSING", "PROCESSED", "FAILED"}]
  BY <1>0, <1>5 DEF ClaimEvent, MarkProcessed, FailEvent, SetInbox, hooks, money
<1>6. ASSUME NEW w \in Worker,
             \/ \E j \in Job : TakeJob(w, j)
             \/ WorkerCrash(w) \/ StepThrows(w)
             \/ ApplyCapture(w) \/ ApplyFailure(w) \/ ApplyRefund(w) \/ ApplyRefundFailure(w)
             \/ ReadBooking(w) \/ AssertConfirm(w) \/ ConfirmCas(w) \/ AnswerConfirm(w)
             \/ MarkRefunded(w) \/ RefundStep(w) \/ PayoutStep(w)
      PROVE  UNCHANGED <<intent, events, inbox, intake>>
  BY <1>6 DEF TakeJob, WorkerCrash, StepThrows, ApplyCapture, ApplyFailure, ApplyRefund,
              ApplyRefundFailure, ReadBooking, AssertConfirm, ConfirmCas, AnswerConfirm,
              MarkRefunded, RefundStep, FindCaptured, CheckExisting, InsertRefund, AskProvider,
              AttachRefund, PayoutStep, ReadCompleted, FindPaid, SplitEscrow, EnqueueTransfer,
              ReadPayout, Transfer, MarkInTransit, Settle, TransferFailed, SetPayout, hooks, money
<1>7. ASSUME \/ \E b \in Booking : BookingStep(b) \/ AdminStep(b)
             \/ UNCHANGED vars
      PROVE  UNCHANGED <<intent, events, inbox, intake>>
  BY <1>7 DEF BookingStep, HoldLapses, ConfirmCall, ExpireHold, Cancel, Complete, AdminStep,
              HoldPayout, ReleasePayout, RetryPayout, Requeue, SetPayout, hooks, money, vars
<1> QED BY <1>0, <1>2, <1>3, <1>4, <1>5, <1>6, <1>7 DEF Next, WorkerStep, WebhookStep
-----------------------------------------------------------------------------
(* The handlers.  One that does not move keeps what it established.        *)
Handler == [job : Job \cup {Idle.job}, step : Step,
            payment : Payment \cup {Nil}, refund : Refund \cup {Nil}]

OthersRest(w) == \A v \in Worker : v # w => worker'[v] = worker[v]

(* A handler that stands still keeps what it established. *)
LEMMA UnmovedStays ==
  ASSUME EscrowInvariant, BookingGoesOn, MoneyStays, NEW v \in Worker, worker'[v] = worker[v]
  PROVE  HandlerSound(v)'
<1> PICK here : here = worker[v]
  OBVIOUS
<1>1. /\ HandlerSound(v) /\ here.job \in Job \cup {Idle.job} /\ worker'[v] = here
      /\ here.job.name \in {"create-refund", "create-payout", "execute-payout"} =>
            here.job.of \in Booking
  BY Handlers
<1>2. Owed(worker[v].job)'
  <2>1. PICK j \in Job \cup {Idle.job} : j = here.job
    BY <1>1
  <2>2. Owed(j)'
    BY <1>1, <2>1, OwedStays DEF HandlerSound
  <2> QED BY <1>1, <2>1, <2>2 DEF Owed, Doomed
<1>3. PaymentFound(v) => PaymentFound(v)'
  BY <1>1 DEF PaymentFound, MoneyStays, Paid
<1>4. \A r \in Refund : refund[r].status # "NONE" => refund'[r].status # "NONE"
  BY DEF MoneyStays
<1> QED BY <1>1, <1>2, <1>3, <1>4 DEF HandlerSound, At, BookingGoesOn, MoneyStays

(* A handler that comes to rest has nothing to keep. *)
LEMMA RestStays ==
  ASSUME EscrowInvariant, NEW w \in Worker, Rest(w)
  PROVE  worker' \in [Worker -> Handler] /\ OthersRest(w) /\ HandlerSound(w)'
<1>1. worker \in [Worker -> Handler] /\ Idle \in Handler
  BY Handlers DEF Handler, Idle, Step
<1>2. worker' \in [Worker -> Handler] /\ OthersRest(w) /\ worker'[w] = Idle
  BY <1>1 DEF Rest, OthersRest
<1>3. Idle.job.name = "none"
  BY DEF Idle
<1> QED BY <1>2, <1>3 DEF HandlerSound, At, Owed

(* A handler that goes on changes its step only. *)
LEMMA GotoMoves ==
  ASSUME EscrowInvariant, NEW w \in Worker, NEW step \in Step, Goto(w, step)
  PROVE  /\ worker' \in [Worker -> Handler] /\ OthersRest(w)
         /\ worker'[w].step = step /\ worker'[w].job = worker[w].job
         /\ worker'[w].payment = worker[w].payment /\ worker'[w].refund = worker[w].refund
<1>1. worker \in [Worker -> Handler]
  BY Handlers DEF Handler
<1> QED BY <1>1 DEF Goto, OthersRest, Handler

Moved(w) == worker' \in [Worker -> Handler] /\ OthersRest(w) /\ HandlerSound(w)'

(* What a handler must have established to go to a step. *)
MayGo(w, step) ==
    LET name == worker[w].job.name
        of == worker[w].job.of
    IN  /\ name = "create-refund" =>
             /\ step \in {"check", "insert"} => PaymentFound(w)
             /\ step \in {"provider", "attach"} =>
                  worker[w].refund \in Refund /\ refund[worker[w].refund].status # "NONE"
        /\ name = "create-payout" =>
             /\ step \in {"find", "split"} => booking[of] = "COMPLETED"
             /\ step = "split" => PaymentFound(w)
             /\ step = "enqueue" => payout'[of] # "NONE"
        /\ name = "execute-payout" => (step \in {"inTransit", "settle"} => of \in sent')

(* A handler that may go to a step is sound there. *)
LEMMA GotoStays ==
  ASSUME EscrowInvariant, BookingGoesOn, MoneyStays, NEW w \in Worker, NEW step \in Step,
         Goto(w, step), MayGo(w, step)
  PROVE  Moved(w)
<1> PICK here : here = worker[w]
  OBVIOUS
<1>1. /\ worker' \in [Worker -> Handler] /\ OthersRest(w)
      /\ worker'[w].step = step /\ worker'[w].job = here.job
      /\ worker'[w].payment = here.payment /\ worker'[w].refund = here.refund
  BY GotoMoves
<1>2. /\ HandlerSound(w) /\ here.job \in Job \cup {Idle.job}
      /\ here.job.name \in {"create-refund", "create-payout", "execute-payout"} =>
            here.job.of \in Booking
  BY Handlers
<1>3. Owed(worker[w].job)'
  <2>1. PICK j \in Job \cup {Idle.job} : j = here.job
    BY <1>2
  <2>2. Owed(j)'
    BY <1>2, <2>1, OwedStays DEF HandlerSound
  <2> QED BY <1>1, <2>1, <2>2 DEF Owed, Doomed
<1>4. PaymentFound(w) => PaymentFound(w)'
  BY <1>1 DEF PaymentFound, MoneyStays, Paid
<1>5. \A r \in Refund : refund[r].status # "NONE" => refund'[r].status # "NONE"
  BY DEF MoneyStays
<1>6. \A b \in Booking : booking[b] = "COMPLETED" => booking'[b] = "COMPLETED"
  BY DEF BookingGoesOn
<1>7. HandlerSound(w)'
  BY <1>1, <1>2, <1>3, <1>4, <1>5, <1>6 DEF MayGo, HandlerSound, At
<1> QED BY <1>1, <1>7 DEF Moved

(* The steps of a webhook handler keep it sound. *)
LEMMA WebhookHandlers ==
  ASSUME EscrowInvariant, BookingGoesOn, MoneyStays, NEW w \in Worker, WebhookStep(w)
  PROVE  Moved(w)
<1>1. worker[w].job.name = "process-webhook"
  BY DEF WebhookStep, ClaimEvent, ApplyCapture, ApplyFailure, ApplyRefund, ApplyRefundFailure,
         ReadBooking, AssertConfirm, ConfirmCas, AnswerConfirm, MarkRefunded, MarkProcessed,
         FailEvent, Applies, At
<1>2. \A step \in Step : MayGo(w, step)
  BY <1>1 DEF MayGo
<1>3. Rest(w) \/ \E step \in Step : Goto(w, step)
  <2>1. {"apply", "read", "assert", "cas", "answer", "mark", "failed", "markRefunded"}
           \subseteq Step
    BY DEF Step
  <2>2. CASE ReadBooking(w)
    <3>1. Goto(w, "assert") \/ Goto(w, "markRefunded") \/ Goto(w, "mark")
      BY <2>2 DEF ReadBooking
    <3> QED BY <2>1, <3>1
  <2>3. CASE AssertConfirm(w)
    <3>1. Goto(w, "cas") \/ Goto(w, "mark")
      BY <2>3 DEF AssertConfirm
    <3> QED BY <2>1, <3>1
  <2>4. CASE ~ReadBooking(w) /\ ~AssertConfirm(w)
    BY <2>1, <2>4
       DEF WebhookStep, ClaimEvent, ApplyCapture, ApplyFailure, ApplyRefund, ApplyRefundFailure,
           ConfirmCas, AnswerConfirm, MarkRefunded, MarkProcessed, FailEvent, Done, Throw
  <2> QED BY <2>2, <2>3, <2>4
<1> QED BY <1>2, <1>3, RestStays, GotoStays DEF Moved

(* A handler becomes another record of the same type. *)
LEMMA Replaced ==
  ASSUME EscrowInvariant, NEW w \in Worker, NEW next \in Handler,
         worker' = [worker EXCEPT ![w] = next]
  PROVE  worker' \in [Worker -> Handler] /\ OthersRest(w) /\ worker'[w] = next
<1>1. worker \in [Worker -> Handler]
  BY Handlers DEF Handler
<1> QED BY <1>1 DEF OthersRest

(* A handler takes a step with the payment or the refund it found. *)
LEMMA FoundMoves ==
  ASSUME EscrowInvariant, NEW w \in Worker, NEW step \in Step, NEW k \in Payment,
         worker' = [worker EXCEPT ![w].step = step, ![w].payment = k]
  PROVE  /\ worker' \in [Worker -> Handler] /\ OthersRest(w)
         /\ worker'[w].step = step /\ worker'[w].job = worker[w].job /\ worker'[w].payment = k
<1> DEFINE next == [worker[w] EXCEPT !.step = step, !.payment = k]
<1>1. worker \in [Worker -> Handler]
  BY Handlers DEF Handler
<1>2. next \in Handler /\ next.step = step /\ next.job = worker[w].job /\ next.payment = k
  BY <1>1 DEF Handler
<1>3. worker' = [worker EXCEPT ![w] = next]
  OBVIOUS
<1> HIDE DEF next
<1>4. worker' \in [Worker -> Handler] /\ OthersRest(w) /\ worker'[w] = next
  BY <1>2, <1>3, Replaced, Zenon
<1> QED BY <1>2, <1>4

(* The latest captured payment is one of the booking, and paid. *)
LEMMA LatestIsFound ==
  ASSUME EscrowInvariant, NEW b, Captured(b) # {}
  PROVE  Latest(Captured(b)) \in Payment /\ For[Latest(Captured(b))] = b
         /\ Paid(Latest(Captured(b)))
<1>1. Captured(b) \in SUBSET Payment
  BY DEF Captured
<1>2. Latest(Captured(b)) \in Captured(b)
  BY <1>1, Constants
<1> QED BY <1>2 DEF Captured, Paid

(* The steps of a refund handler keep it sound. *)
LEMMA RefundHandlers ==
  ASSUME EscrowInvariant, BookingGoesOn, MoneyStays, NEW w \in Worker, RefundStep(w)
  PROVE  Moved(w)
<1>0. worker[w].job.name = "create-refund" /\ HandlerSound(w)
  BY Handlers DEF RefundStep, FindCaptured, CheckExisting, InsertRefund, AskProvider,
                  AttachRefund, At
<1>1. CASE FindCaptured(w) /\ Captured(worker[w].job.of) # {}
  <2> PICK k \in Payment : /\ worker' = [worker EXCEPT ![w].step = "check", ![w].payment = k]
                           /\ For[k] = worker[w].job.of /\ Paid(k)
    BY <1>1, LatestIsFound DEF FindCaptured, Done, Rest
  <2>1. "check" \in Step
    BY DEF Step
  <2>2. /\ worker' \in [Worker -> Handler] /\ OthersRest(w)
        /\ worker'[w].step = "check" /\ worker'[w].job = worker[w].job /\ worker'[w].payment = k
    BY <2>1, FoundMoves, Zenon
  <2>3. PaymentFound(w)'
    BY <2>2 DEF PaymentFound, MoneyStays, Paid
  <2>4. Owed(worker[w].job)'
    <3> PICK j : j = worker[w].job
      OBVIOUS
    <3>1. Owed(j)'
      BY <1>0, Handlers, OwedStays DEF HandlerSound
    <3> QED BY <2>2, <3>1 DEF Owed, Doomed
  <2> QED BY <1>0, <2>2, <2>3, <2>4 DEF Moved, HandlerSound, At
<1>2. CASE InsertRefund(w)
  <2> PICK r \in Refund : /\ refund[r].status = "NONE"
                          /\ refund' = [refund EXCEPT ![r].of = worker[w].payment,
                                                      ![r].status = "PENDING"]
                          /\ worker' = [worker EXCEPT ![w].step = "provider", ![w].refund = r]
    BY <1>2 DEF InsertRefund
  <2>1. worker \in [Worker -> Handler]
    BY Handlers DEF Handler
  <2> DEFINE next == [worker[w] EXCEPT !.step = "provider", !.refund = r]
             row == [refund[r] EXCEPT !.of = worker[w].payment, !.status = "PENDING"]
  <2>2. next \in Handler /\ next.step = "provider" /\ next.job = worker[w].job /\ next.refund = r
    BY <2>1 DEF Handler, Step
  <2>3. worker' = [worker EXCEPT ![w] = next] /\ refund' = [refund EXCEPT ![r] = row]
    OBVIOUS
  <2>4. row.status = "PENDING"
    BY Rows
  <2> HIDE DEF next, row
  <2>5. worker' \in [Worker -> Handler] /\ OthersRest(w) /\ worker'[w] = next
    BY <2>2, <2>3, Replaced, Zenon
  <2>6. refund'[r].status # "NONE"
    BY <2>3, <2>4, Rows
  <2>7. Owed(worker[w].job)'
    <3> PICK j : j = worker[w].job
      OBVIOUS
    <3>1. Owed(j)'
      BY <1>0, Handlers, OwedStays DEF HandlerSound
    <3> QED BY <2>2, <2>5, <3>1 DEF Owed, Doomed
  <2> QED BY <1>0, <2>2, <2>5, <2>6, <2>7 DEF Moved, HandlerSound, At
<1>3. CASE CheckExisting(w)
  <2>1. PaymentFound(w) /\ (Rest(w) \/ Goto(w, "insert"))
    BY <1>0, <1>3 DEF CheckExisting, HandlerSound, Done
  <2>2. MayGo(w, "insert") /\ "insert" \in Step
    BY <1>0, <2>1 DEF MayGo, Step
  <2> QED BY <2>1, <2>2, RestStays, GotoStays DEF Moved
<1>4. CASE AskProvider(w)
  <2>1. /\ worker[w].refund \in Refund /\ refund[worker[w].refund].status # "NONE"
        /\ Goto(w, "attach")
    BY <1>0, <1>4 DEF AskProvider, HandlerSound
  <2>2. MayGo(w, "attach") /\ "attach" \in Step
    BY <1>0, <2>1 DEF MayGo, Step
  <2> QED BY <2>1, <2>2, GotoStays
<1>5. CASE Rest(w)
  BY <1>5, RestStays DEF Moved
<1> QED BY <1>1, <1>2, <1>3, <1>4, <1>5 DEF RefundStep, FindCaptured, AttachRefund, Done

(* The steps of a payout handler keep it sound. *)
LEMMA PayoutHandlers ==
  ASSUME EscrowInvariant, BookingGoesOn, MoneyStays, NEW w \in Worker, PayoutStep(w)
  PROVE  Moved(w)
<1>0. /\ HandlerSound(w) /\ payout \in [Booking -> PayoutStatus \cup {"NONE"}]
      /\ worker[w].job.name \in {"create-payout", "execute-payout"}
      /\ worker[w].job.of \in Booking
  BY Rows, Handlers
     DEF PayoutStep, ReadCompleted, FindPaid, SplitEscrow, EnqueueTransfer, ReadPayout, Transfer,
         MarkInTransit, Settle, TransferFailed, At
<1>1. CASE ReadCompleted(w) /\ ~Rest(w)
  <2>1. MayGo(w, "find") /\ Goto(w, "find") /\ "find" \in Step
    BY <1>1 DEF ReadCompleted, Done, At, MayGo, Step
  <2> QED BY <2>1, GotoStays
<1>2. CASE FindPaid(w) /\ ~Rest(w)
  <2> PICK k \in Payment : /\ worker' = [worker EXCEPT ![w].step = "split", ![w].payment = k]
                           /\ For[k] = worker[w].job.of /\ Paid(k)
    BY <1>2, LatestIsFound DEF FindPaid, Done
  <2>1. "split" \in Step /\ worker[w].job.name = "create-payout"
    BY <1>2 DEF Step, FindPaid, At
  <2>2. /\ worker' \in [Worker -> Handler] /\ OthersRest(w)
        /\ worker'[w].step = "split" /\ worker'[w].job = worker[w].job /\ worker'[w].payment = k
    <3>1. worker' = [worker EXCEPT ![w].step = "split", ![w].payment = k]
      OBVIOUS
    <3> QED BY ONLY EscrowInvariant, w \in Worker, k \in Payment, <2>1, <3>1, FoundMoves
  <2>3. PaymentFound(w)'
    BY <2>2 DEF PaymentFound, MoneyStays, Paid
  <2>4. booking[worker[w].job.of] = "COMPLETED"
    BY <1>0, <1>2 DEF FindPaid, HandlerSound
  <2>5. booking'[worker[w].job.of] = "COMPLETED"
    BY <1>0, <2>4 DEF BookingGoesOn
  <2>6. Owed(worker[w].job)'
    BY <2>1, <2>2 DEF Owed
  <2> QED BY <2>1, <2>2, <2>3, <2>5, <2>6 DEF Moved, HandlerSound, At
<1>3. CASE SplitEscrow(w) /\ ~Rest(w)
  <2>1. Goto(w, "enqueue") /\ payout'[worker[w].job.of] # "NONE"
    BY <1>0, <1>3 DEF SplitEscrow, Done
  <2>2. MayGo(w, "enqueue") /\ "enqueue" \in Step
    BY <1>3, <2>1 DEF SplitEscrow, At, MayGo, Step
  <2> QED BY <2>1, <2>2, GotoStays
<1>4. CASE ReadPayout(w) /\ ~Rest(w)
  <2>1. Goto(w, "transfer") /\ MayGo(w, "transfer") /\ "transfer" \in Step
    BY <1>4 DEF ReadPayout, Done, At, MayGo, Step
  <2> QED BY <2>1, GotoStays
<1>5. CASE Transfer(w)
  <2>1. Goto(w, "inTransit") /\ MayGo(w, "inTransit") /\ "inTransit" \in Step
    BY <1>5 DEF Transfer, At, MayGo, Step
  <2> QED BY <2>1, GotoStays
<1>6. CASE MarkInTransit(w) /\ ~Rest(w)
  <2>1. worker[w].job.of \in sent'
    BY <1>0, <1>6 DEF MarkInTransit, HandlerSound, MoneyStays
  <2>2. Goto(w, "settle") /\ MayGo(w, "settle") /\ "settle" \in Step
    BY <1>6, <2>1 DEF MarkInTransit, Done, At, MayGo, Step
  <2> QED BY <2>2, GotoStays
<1>7. CASE Rest(w)
  BY <1>7, RestStays DEF Moved
<1>8. ASSUME EnqueueTransfer(w) \/ Settle(w) \/ TransferFailed(w)
      PROVE  Rest(w)
  BY <1>8 DEF EnqueueTransfer, Settle, TransferFailed, Done, Throw
<1> QED BY <1>1, <1>2, <1>3, <1>4, <1>5, <1>6, <1>7, <1>8 DEF PayoutStep

(* A job is taken only when the queue holds it. *)
LEMMA TakenHandlers ==
  ASSUME EscrowInvariant, BookingGoesOn, MoneyStays, NEW w \in Worker, NEW j \in Job, TakeJob(w, j)
  PROVE  Moved(w)
<1>1. queue[j] > 0
  <2>1. Running(j) \in Nat
    <3> DEFINE R == {v \in Worker : worker[v].job = j}
    <3>1. R \subseteq Worker /\ IsFiniteSet(Worker)
      BY Constants
    <3>2. IsFiniteSet(R)
      BY <3>1, FS_Subset
    <3> QED BY <3>2, FS_CardinalityType DEF Running
  <2>2. queue[j] \in 0 .. Copies /\ Copies \in Nat
    BY Rows, Constants
  <2> QED BY <2>1, <2>2 DEF TakeJob
<1>2. Owed(j)'
  BY <1>1, OwedStays DEF EscrowInvariant, QueueSound
<1>3. FirstStep(j) \in Step
  BY DEF FirstStep, Step
<1>4. worker \in [Worker -> Handler] /\ worker' = [worker EXCEPT ![w].job = j, ![w].step = FirstStep(j)]
  BY Handlers DEF Handler, TakeJob
<1> DEFINE next == [worker[w] EXCEPT !.job = j, !.step = FirstStep(j)]
<1>5. next \in Handler /\ next.job = j /\ next.step = FirstStep(j)
  BY <1>3, <1>4 DEF Handler
<1>6. worker' = [worker EXCEPT ![w] = next]
  BY <1>4
<1> HIDE DEF next
<1>7. worker' \in [Worker -> Handler] /\ OthersRest(w) /\ worker'[w] = next
  BY <1>5, <1>6, Replaced, Zenon
<1>8. /\ j.name = "create-refund" => FirstStep(j) = "find"
      /\ j.name = "create-payout" => FirstStep(j) = "booking"
      /\ j.name = "execute-payout" => FirstStep(j) = "payout"
  BY DEF FirstStep
<1>9. Owed(worker[w].job)'
  BY <1>2, <1>5, <1>7 DEF Owed, Doomed
<1> QED BY <1>5, <1>7, <1>8, <1>9 DEF Moved, HandlerSound, At

(* A crash, or a step that throws. *)
LEMMA ThrownHandlers ==
  ASSUME EscrowInvariant, BookingGoesOn, MoneyStays, NEW w \in Worker,
         WorkerCrash(w) \/ StepThrows(w)
  PROVE  Moved(w)
<1>1. \/ Rest(w)
      \/ worker[w].job.name = "process-webhook" /\ Goto(w, "failed")
      \/ worker[w].job.name = "execute-payout" /\ Goto(w, "transferFailed")
  BY DEF WorkerCrash, StepThrows, Throw
<1>2. {"failed", "transferFailed"} \subseteq Step
  BY DEF Step
<1>3. CASE worker[w].job.name = "process-webhook" /\ Goto(w, "failed")
  <2>1. MayGo(w, "failed")
    BY <1>3 DEF MayGo
  <2> QED BY <1>2, <1>3, <2>1, GotoStays
<1>4. CASE worker[w].job.name = "execute-payout" /\ Goto(w, "transferFailed")
  <2>1. MayGo(w, "transferFailed")
    BY <1>4 DEF MayGo
  <2> QED BY <1>2, <1>4, <2>1, GotoStays
<1>5. CASE Rest(w)
  BY <1>5, RestStays DEF Moved
<1> QED BY <1>1, <1>3, <1>4, <1>5

(* Every step keeps every handler sound. *)
LEMMA HandlersStep ==
  ASSUME EscrowInvariant, [Next]_vars, BookingGoesOn, MoneyStays
  PROVE  worker' \in [Worker -> Handler] /\ HandlersSound'
<1>1. CASE UNCHANGED worker
  <2>1. worker' \in [Worker -> Handler]
    BY <1>1, Handlers DEF Handler, EscrowInvariant, TypeOK
  <2>2. \A v \in Worker : HandlerSound(v)'
    BY <1>1, UnmovedStays
  <2> QED BY <2>1, <2>2 DEF HandlersSound
<1>2. ASSUME NEW w \in Worker, Moved(w)
      PROVE  worker' \in [Worker -> Handler] /\ HandlersSound'
  <2>1. ASSUME NEW v \in Worker
        PROVE  HandlerSound(v)'
    <3>1. CASE v = w
      BY <1>2, <3>1 DEF Moved
    <3>2. CASE v # w
      <4>1. worker'[v] = worker[v]
        BY <1>2, <3>2 DEF Moved, OthersRest
      <4> QED BY <4>1, UnmovedStays
    <3> QED BY <3>1, <3>2
  <2> QED BY <1>2, <2>1 DEF Moved, HandlersSound
<1>3. ASSUME NEW w \in Worker,
             (\E j \in Job : TakeJob(w, j)) \/ WorkerStep(w) \/ WorkerCrash(w) \/ StepThrows(w)
      PROVE  Moved(w)
  <2>1. CASE \E j \in Job : TakeJob(w, j)
    BY <2>1, TakenHandlers
  <2>2. CASE WorkerStep(w)
    BY <2>2, WebhookHandlers, RefundHandlers, PayoutHandlers DEF WorkerStep
  <2>3. CASE WorkerCrash(w) \/ StepThrows(w)
    BY <2>3, ThrownHandlers
  <2> QED BY <1>3, <2>1, <2>2, <2>3
<1>4. ASSUME \/ \E b \in Booking : BookingStep(b) \/ AdminStep(b)
             \/ \E k \in Payment : PaymentStep(k)
             \/ \E r \in Refund : RefundEnds(r)
             \/ \E e \in Event : RecordEvent(e) \/ EnqueueEvent(e)
             \/ UNCHANGED vars
      PROVE  UNCHANGED worker
  BY <1>4 DEF BookingStep, HoldLapses, ConfirmCall, ExpireHold, Cancel, Complete, AdminStep,
              HoldPayout, ReleasePayout, RetryPayout, Requeue, PaymentStep, CreateIdempotent,
              CreateIntent, AttachProviderIntent, GuestPays, PaymentFails, RefundEnds,
              RecordEvent, EnqueueEvent, vars
<1> QED BY <1>1, <1>2, <1>3, <1>4 DEF Next
-----------------------------------------------------------------------------
(* The inductive invariant. *)
LEMMA EscrowStarts ==
  ASSUME Init
  PROVE  EscrowInvariant
<1>1. TypeOK
  <2>1. Idle \in Handler
    BY DEF Idle, Handler, Step
  <2>2. worker \in [Worker -> Handler]
    BY <2>1 DEF Init
  <2>3. queue \in [Job -> 0 .. Copies]
    BY Constants DEF Init
  <2>4. /\ booking \in [Booking -> BookingStatus] /\ lapsed \subseteq Booking
        /\ payment \in [Payment -> PaymentStatus \cup {"NONE"}]
        /\ intent \in [Payment -> {"none", "open", "failed", "captured"}]
        /\ refund \in [Refund -> [of : Payment \cup {Nil},
                                  status : {"NONE", "PENDING", "SUCCEEDED"},
                                  attached : BOOLEAN]]
        /\ refunded \subseteq Refund
    BY DEF Init, BookingStatus
  <2>5. /\ payout \in [Booking -> PayoutStatus \cup {"NONE"}] /\ sent \subseteq Booking
        /\ ledger \in [LedgerGroup -> Nat]
        /\ events \subseteq Event /\ intake \subseteq events
        /\ inbox \in [Event -> {"NONE", "RECEIVED", "PROCESSING", "PROCESSED", "FAILED"}]
    BY DEF Init
  <2> QED BY <2>2, <2>3, <2>4, <2>5 DEF TypeOK, Handler
<1>2. QueueSound
  BY DEF Init, QueueSound
<1>3. HandlersSound
  BY DEF Init, HandlersSound, HandlerSound, Idle, At, Owed
<1>4. RefundsSound
  BY DEF Init, RefundsSound
<1>5. /\ \A k \in Payment : In(k) = 0 /\ Back(k) = 0 /\ Out(k) = 0
      /\ \A b \in Booking : Settled(b) = 0
  BY GroupKinds DEF Init, In, Back, Out, Settled
<1>6. PaymentBooks /\ SplitBooks /\ PayoutBooks
  BY <1>5 DEF Init, PaymentBooks, SplitBooks, PayoutBooks, Split, Paid
<1> QED BY <1>1, <1>2, <1>3, <1>4, <1>6 DEF EscrowInvariant

(* Every step preserves the inductive invariant. *)
LEMMA EscrowStep ==
  ASSUME EscrowInvariant, [Next]_vars
  PROVE  EscrowInvariant'
<1>1. BookingGoesOn
  BY BookingMoves
<1>2. MoneyGoesOn /\ MoneyStays /\ MoneyTypes'
  BY MoneyMoves, MoneyStaysStep
<1>3. QueueGoesOn
  BY <1>1, <1>2, QueueMoves
<1>4. worker' \in [Worker -> Handler] /\ HandlersSound'
  BY <1>1, <1>2, HandlersStep
<1>5. TypeOK'
  BY <1>1, <1>2, <1>3, <1>4, EventTypes
     DEF TypeOK, BookingGoesOn, MoneyTypes, QueueGoesOn, Handler
<1>6. QueueSound'
  BY <1>1, <1>2, <1>3, QueueStep
<1>7. RefundsSound' /\ PaymentBooks' /\ SplitBooks' /\ PayoutBooks'
  BY <1>1, <1>2, RefundsStep, BooksStep
<1> QED BY <1>4, <1>5, <1>6, <1>7 DEF EscrowInvariant

(* The invariant the escrow's promises rest on: jobs, handlers, rows and   *)
(* ledger groups are about doomed bookings when they return money and      *)
(* about completed ones when they pay a host.                              *)
THEOREM EscrowInvariantHolds == Spec => []EscrowInvariant
<1>1. Init => EscrowInvariant
  BY EscrowStarts
<1>2. EscrowInvariant /\ [Next]_vars => EscrowInvariant'
  BY EscrowStep
<1> QED BY <1>1, <1>2, PTL DEF Spec

(* Rows, jobs and handlers keep their shape under every fault.             *)
THEOREM EscrowTypes == Spec => []TypeOK
<1>1. EscrowInvariant => TypeOK
  BY DEF EscrowInvariant
<1> QED BY <1>1, EscrowInvariantHolds, PTL

(* The ledger tells what the tables of payments, refunds and payouts tell, *)
(* for any number of bookings and payments and every fault.                *)
THEOREM BooksTellTables == Spec => []LedgerTellsTables
<1>1. ASSUME EscrowInvariant
      PROVE  LedgerTellsTables
  <2>1. ASSUME NEW k \in Payment
        PROVE  Cardinality(RefundsOf(k, "SUCCEEDED")) = IF payment[k] = "REFUNDED" THEN 1 ELSE 0
    <3>1. CASE payment[k] = "REFUNDED"
      <4>1. PICK r \in Refund : refund[r].of = k /\ refund[r].status = "SUCCEEDED"
        BY <1>1, <3>1 DEF EscrowInvariant, RefundsSound
      <4>2. RefundsOf(k, "SUCCEEDED") = {r}
        BY <1>1, <4>1 DEF EscrowInvariant, RefundsSound, RefundsOf
      <4>3. Cardinality({r}) = 1
        BY FS_Singleton
      <4> QED BY <3>1, <4>2, <4>3
    <3>2. CASE payment[k] # "REFUNDED"
      <4>1. RefundsOf(k, "SUCCEEDED") = {}
        BY <1>1, <3>2 DEF EscrowInvariant, RefundsSound, RefundsOf
      <4>2. Cardinality({}) = 0
        BY FS_EmptySet
      <4> QED BY <3>2, <4>1, <4>2
    <3> QED BY <3>1, <3>2
  <2>2. ASSUME NEW b \in Booking
        PROVE  Cardinality({k \in PaymentsOf(b) : Out(k) = 1}) = IF payout[b] = "NONE" THEN 0 ELSE 1
    <3> DEFINE K == {k \in PaymentsOf(b) : Out(k) = 1}
    <3>1. CASE payout[b] # "NONE"
      <4>1. PICK k \in Payment : For[k] = b /\ Split(k)
        BY <1>1, <3>1 DEF EscrowInvariant, SplitBooks
      <4>2. K = {k}
        BY <1>1, <4>1 DEF EscrowInvariant, SplitBooks, Split, PaymentsOf
      <4>3. Cardinality({k}) = 1
        BY FS_Singleton
      <4> QED BY <3>1, <4>2, <4>3
    <3>2. CASE payout[b] = "NONE"
      <4>1. K = {}
        BY <1>1, <3>2 DEF EscrowInvariant, SplitBooks, Split, PaymentsOf
      <4>2. Cardinality({}) = 0
        BY FS_EmptySet
      <4> QED BY <3>2, <4>1, <4>2
    <3> QED BY <3>1, <3>2
  <2>3. \A k \in Payment : /\ In(k) = IF Paid(k) THEN 1 ELSE 0
                           /\ Back(k) = IF payment[k] = "REFUNDED" THEN 1 ELSE 0
                           /\ Out(k) <= 1
    BY <1>1 DEF EscrowInvariant, PaymentBooks, SplitBooks
  <2>4. \A b \in Booking : Settled(b) = IF payout[b] = "PAID" THEN 1 ELSE 0
    BY <1>1 DEF EscrowInvariant, PayoutBooks
  <2>5. \A b \in Booking : \A k \in PaymentsOf(b) : Out(k) <= 1
    BY <2>3 DEF PaymentsOf
  <2> QED BY <2>1, <2>2, <2>3, <2>4, <2>5
          DEF LedgerTellsTables, In, Back, Out, Settled, Paid
<1> QED BY <1>1, EscrowInvariantHolds, PTL

(* A booking's money never leaves both to the host and to the guest.       *)
THEOREM NeverBothWays == Spec => []OneWayOut
<1>1. ASSUME EscrowInvariant
      PROVE  OneWayOut
  <2>1. ASSUME NEW b \in sent, NEW r \in refunded, refund[r].of \in PaymentsOf(b)
        PROVE  FALSE
    <3>1. b \in Booking /\ r \in Refund
      BY <1>1, Rows
    <3>2. booking[b] = "COMPLETED"
      BY <1>1, <3>1 DEF EscrowInvariant, PayoutBooks, SplitBooks
    <3>3. Doomed(b)
      BY <1>1, <2>1, <3>1 DEF EscrowInvariant, RefundsSound, PaymentsOf
    <3> QED BY <3>2, <3>3 DEF Doomed
  <2> QED BY <2>1 DEF OneWayOut, RefundAccepted
<1> QED BY <1>1, EscrowInvariantHolds, PTL

(* A host is paid for a completed stay only, out of captured money.        *)
THEOREM HostsArePaidFromEscrow == Spec => []HostPaidFromEscrow
<1>1. ASSUME EscrowInvariant
      PROVE  HostPaidFromEscrow
  <2>1. ASSUME NEW b \in sent
        PROVE  /\ booking[b] = "COMPLETED"
               /\ \E k \in PaymentsOf(b) :
                     payment[k] = "CAPTURED" /\ ledger[<<"SPLIT", k>>] = 1
    <3>1. b \in Booking /\ payout[b] # "NONE"
      BY <1>1, Rows DEF EscrowInvariant, PayoutBooks
    <3>2. PICK k \in Payment : For[k] = b /\ Split(k)
      BY <1>1, <3>1 DEF EscrowInvariant, SplitBooks
    <3>3. booking[b] = "COMPLETED" /\ payment[k] = "CAPTURED"
      BY <1>1, <3>2 DEF EscrowInvariant, SplitBooks
    <3> QED BY <3>2, <3>3 DEF Split, Out, PaymentsOf
  <2>2. \A b \in Booking : payout[b] \in {"IN_TRANSIT", "PAID"} => b \in sent
    BY <1>1 DEF EscrowInvariant, PayoutBooks
  <2> QED BY <2>1, <2>2 DEF HostPaidFromEscrow
<1> QED BY <1>1, EscrowInvariantHolds, PTL
-----------------------------------------------------------------------------
(* The refinement of EscrowAccount: a stage follows from the three groups  *)
(* of a payment, and each posting moves one stage.                         *)
Where(in, back, out) ==
    IF in = 0 THEN "guest" ELSE IF back = 1 THEN "returned"
    ELSE IF out = 1 THEN "host" ELSE "escrow"

Counts(k) ==
    /\ In(k) \in {0, 1} /\ Back(k) \in {0, 1} /\ Out(k) \in {0, 1}
    /\ In(k) = 0 => Back(k) = 0 /\ Out(k) = 0
    /\ Back(k) = 0 \/ Out(k) = 0

(* Nothing returned is split, nothing is returned or split before it is in.*)
LEMMA CountsHold ==
  ASSUME EscrowInvariant, NEW k \in Payment
  PROVE  Counts(k)
<1>1. /\ In(k) = IF Paid(k) THEN 1 ELSE 0
      /\ Back(k) = IF payment[k] = "REFUNDED" THEN 1 ELSE 0
      /\ Out(k) \in {0, 1}
      /\ Out(k) = 1 => payment[k] = "CAPTURED"
  BY DEF EscrowInvariant, PaymentBooks, SplitBooks, Split
<1> QED BY <1>1 DEF Counts, Paid

(* The same, after a step. *)
LEMMA CountsHoldNext ==
  ASSUME EscrowInvariant', NEW k \in Payment
  PROVE  Counts(k)'
<1>1. /\ In(k)' = IF Paid(k)' THEN 1 ELSE 0
      /\ Back(k)' = IF payment'[k] = "REFUNDED" THEN 1 ELSE 0
      /\ Out(k)' \in {0, 1}
      /\ Out(k)' = 1 => payment'[k] = "CAPTURED"
  BY DEF EscrowInvariant, PaymentBooks, SplitBooks, Split
<1> QED BY <1>1 DEF Counts, Paid

(* The stage of a payment is read off its three counts. *)
LEMMA StageIsWhere ==
  ASSUME NEW k \in Payment
  PROVE  /\ Counts(k) => Stage(k) = Where(In(k), Back(k), Out(k))
         /\ Counts(k)' => Stage(k)' = Where(In(k)', Back(k)', Out(k)')
<1>1. ASSUME Counts(k)
      PROVE  Stage(k) = Where(In(k), Back(k), Out(k))
  <2>1. Stage(k) = CASE <<In(k), Back(k), Out(k)>> = <<0, 0, 0>> -> "guest"
                     [] <<In(k), Back(k), Out(k)>> = <<1, 0, 0>> -> "escrow"
                     [] <<In(k), Back(k), Out(k)>> = <<1, 1, 0>> -> "returned"
                     [] <<In(k), Back(k), Out(k)>> = <<1, 0, 1>> -> "host"
                     [] OTHER -> "broken"
    BY Zenon DEF Stage, In, Back, Out
  <2> QED BY <1>1, <2>1 DEF Counts, Where
<1>2. ASSUME Counts(k)'
      PROVE  Stage(k)' = Where(In(k)', Back(k)', Out(k)')
  <2>1. Stage(k)' = CASE <<In(k)', Back(k)', Out(k)'>> = <<0, 0, 0>> -> "guest"
                      [] <<In(k)', Back(k)', Out(k)'>> = <<1, 0, 0>> -> "escrow"
                      [] <<In(k)', Back(k)', Out(k)'>> = <<1, 1, 0>> -> "returned"
                      [] <<In(k)', Back(k)', Out(k)'>> = <<1, 0, 1>> -> "host"
                      [] OTHER -> "broken"
    BY Zenon DEF Stage, In, Back, Out
  <2> QED BY <1>2, <2>1 DEF Counts, Where
<1> QED BY <1>1, <1>2

(* One payment moves to another stage. *)
LEMMA StagesMove ==
  ASSUME NEW k \in Payment, NEW at, Stage(k)' = at,
         \A j \in Payment : j # k => Stage(j)' = Stage(j)
  PROVE  Stages' = [Stages EXCEPT ![k] = at]
<1>1. Stages' = [j \in Payment |-> Stage(j)']
  BY Zenon DEF Stages
<1>2. [Stages EXCEPT ![k] = at] = [j \in Payment |-> IF j = k THEN at ELSE Stage(j)]
  BY Zenon DEF Stages
<1>3. \A j \in Payment : Stage(j)' = IF j = k THEN at ELSE Stage(j)
  OBVIOUS
<1> QED BY <1>1, <1>2, <1>3

(* A move of money is a step of the account, or none. *)
LEMMA AccountStep ==
  ASSUME EscrowInvariant, EscrowInvariant', MoneyGoesOn
  PROVE  Account!Next \/ Stages' = Stages
<1>0. /\ For \in [Payment -> Booking] /\ ledger \in [LedgerGroup -> Nat]
      /\ RefundsSound /\ PaymentBooks /\ SplitBooks
  BY Rows, Constants DEF EscrowInvariant
<1>1. \A k \in Payment : /\ Counts(k) /\ Stage(k) = Where(In(k), Back(k), Out(k))
                         /\ Counts(k)' /\ Stage(k)' = Where(In(k)', Back(k)', Out(k)')
  BY CountsHold, CountsHoldNext, StageIsWhere
<1>2. ASSUME NEW k \in Payment
      PROVE  Stages[k] = Stage(k)
  BY DEF Stages
<1>3. ASSUME ledger' = ledger
      PROVE  Stages' = Stages
  BY <1>3 DEF Stages, Stage
<1>4. ASSUME NEW k \in Payment, ~Paid(k), PostGroup(<<"CAPTURE", k>>)
      PROVE  Account!Next
  <2>1. /\ In(k)' = In(k) + 1 /\ Back(k)' = Back(k) /\ Out(k)' = Out(k)
        /\ \A j \in Payment : j # k => In(j)' = In(j) /\ Back(j)' = Back(j) /\ Out(j)' = Out(j)
    BY <1>0, <1>4, GroupPosted DEF OthersStay
  <2>2. In(k) = 0
    BY <1>0, <1>4 DEF PaymentBooks
  <2>3. Stage(k) = "guest" /\ Stage(k)' = "escrow"
    BY <1>1, <2>1, <2>2 DEF Counts, Where
  <2>4. \A j \in Payment : j # k => Stage(j)' = Stage(j)
    BY <1>1, <2>1
  <2>5. Stages' = [Stages EXCEPT ![k] = "escrow"]
    BY <2>3, <2>4, StagesMove
  <2> QED BY <1>2, <2>3, <2>5 DEF Account!Next, Account!Deposit
<1>5. ASSUME NEW k \in Payment, NEW r \in Refund, refund[r].of = k, refund[r].status = "PENDING",
             payment[k] # "REFUNDED", PostGroup(<<"REFUND", k>>)
      PROVE  Account!Next
  <2>1. /\ Back(k)' = Back(k) + 1 /\ In(k)' = In(k) /\ Out(k)' = Out(k)
        /\ \A j \in Payment : j # k => In(j)' = In(j) /\ Back(j)' = Back(j) /\ Out(j)' = Out(j)
    BY <1>0, <1>5, GroupPosted DEF OthersStay
  <2>2. Paid(k) /\ Doomed(For[k])
    BY <1>0, <1>5 DEF RefundsSound
  <2>3. \A j \in Payment : For[j] = For[k] => Out(j) = 0
    BY <1>0, <2>2 DEF SplitBooks, Split, Doomed
  <2>4. In(k) = 1 /\ Back(k) = 0 /\ Out(k) = 0
    BY <1>0, <1>5, <2>2, <2>3 DEF PaymentBooks
  <2>5. Stage(k) = "escrow" /\ Stage(k)' = "returned"
    BY <1>1, <2>1, <2>4 DEF Counts, Where
  <2>6. \A j \in Payment : j # k => Stage(j)' = Stage(j)
    BY <1>1, <2>1
  <2>7. Stages' = [Stages EXCEPT ![k] = "returned"]
    BY <2>5, <2>6, StagesMove
  <2>8. \A j \in Payment : For[j] = For[k] => Stages[j] # "host"
    BY <1>1, <1>2, <2>3 DEF Where
  <2> QED BY <1>2, <2>5, <2>7, <2>8 DEF Account!Next, Account!Return, Account!Siblings
<1>6. ASSUME NEW k \in Payment, Paid(k), booking[For[k]] = "COMPLETED", payout[For[k]] = "NONE",
             PostGroup(<<"SPLIT", k>>)
      PROVE  Account!Next
  <2>1. /\ Out(k)' = Out(k) + 1 /\ In(k)' = In(k) /\ Back(k)' = Back(k)
        /\ \A j \in Payment : j # k => In(j)' = In(j) /\ Back(j)' = Back(j) /\ Out(j)' = Out(j)
    BY <1>0, <1>6, GroupPosted DEF OthersStay
  <2>2. \A j \in Payment : For[j] = For[k] => Out(j) = 0
    BY <1>0, <1>6 DEF SplitBooks, Split
  <2>3. \A j \in Payment : For[j] = For[k] => Back(j) = 0
    <3>1. \A j \in Payment : For[j] = For[k] => payment[j] # "REFUNDED"
      BY <1>0, <1>6 DEF RefundsSound, Doomed
    <3> QED BY <1>0, <3>1 DEF PaymentBooks
  <2>4. In(k) = 1 /\ Back(k) = 0 /\ Out(k) = 0
    BY <1>0, <1>6, <2>2, <2>3 DEF PaymentBooks
  <2>5. Stage(k) = "escrow" /\ Stage(k)' = "host"
    BY <1>1, <2>1, <2>4 DEF Counts, Where
  <2>6. \A j \in Payment : j # k => Stage(j)' = Stage(j)
    BY <1>1, <2>1
  <2>7. Stages' = [Stages EXCEPT ![k] = "host"]
    BY <2>5, <2>6, StagesMove
  <2>8. \A j \in Payment : For[j] = For[k] => Stages[j] \notin {"host", "returned"}
    BY <1>1, <1>2, <2>2, <2>3 DEF Where
  <2> QED BY <1>2, <2>5, <2>7, <2>8 DEF Account!Next, Account!Release, Account!Siblings
<1>7. ASSUME NEW b \in Booking, PostGroup(<<"PAYOUT", b>>)
      PROVE  Stages' = Stages
  <2>1. \A j \in Payment : In(j)' = In(j) /\ Back(j)' = Back(j) /\ Out(j)' = Out(j)
    BY <1>0, <1>7, GroupPosted DEF OthersStay
  <2>2. \A j \in Payment : Stage(j)' = Stage(j)
    BY <1>1, <2>1
  <2> QED BY <2>2, Zenon DEF Stages
<1> QED BY <1>3, <1>4, <1>5, <1>6, <1>7, BookChanges

(* The services' postings implement the escrow account: money enters once, *)
(* leaves once and never in both directions, whatever is retried, crashes  *)
(* or arrives twice.                                                       *)
THEOREM LedgerIsAnEscrowAccount == Spec => ImplementsEscrow
<1>1. Init => Account!Init
  <2> SUFFICES ASSUME Init PROVE Account!Init
    OBVIOUS
  <2>1. \A k \in Payment : Stage(k) = "guest"
    <3>1. ASSUME NEW k \in Payment
          PROVE  In(k) = 0 /\ Back(k) = 0 /\ Out(k) = 0
      BY GroupKinds DEF Init, In, Back, Out
    <3> QED BY <3>1, StageIsWhere DEF Counts, Where
  <2> QED BY <2>1, Zenon DEF Stages, Account!Init
<1>2. EscrowInvariant /\ EscrowInvariant' /\ [Next]_vars => [Account!Next]_Stages
  BY MoneyMoves, AccountStep
<1> QED BY <1>1, <1>2, EscrowInvariantHolds, PTL DEF Spec, ImplementsEscrow, Account!Spec

(* So the postings of a booking keep the account's promise: with one       *)
(* payment gone to the host, no other of its payments goes anywhere.       *)
THEOREM AccountGoesOneWay == Spec => []Account!OneDirection
<1>1. Account!Init => Account!TypeOK /\ Account!OneDirection
  BY DEF Account!Init, Account!TypeOK, Account!OneDirection
<1>2. ASSUME Account!TypeOK, Account!OneDirection, [Account!Next]_Stages
      PROVE  Account!TypeOK' /\ Account!OneDirection'
  <2>1. ASSUME NEW k \in Payment, Account!Deposit(k)
        PROVE  Account!TypeOK' /\ Account!OneDirection'
    BY <1>2, <2>1 DEF Account!Deposit, Account!TypeOK, Account!OneDirection
  <2>2. ASSUME NEW k \in Payment, Account!Return(k)
        PROVE  Account!TypeOK' /\ Account!OneDirection'
    BY <1>2, <2>2 DEF Account!Return, Account!Siblings, Account!TypeOK, Account!OneDirection
  <2>3. ASSUME NEW k \in Payment, Account!Release(k)
        PROVE  Account!TypeOK' /\ Account!OneDirection'
    BY <1>2, <2>3 DEF Account!Release, Account!Siblings, Account!TypeOK, Account!OneDirection
  <2>4. CASE UNCHANGED Stages
    BY <1>2, <2>4 DEF Account!TypeOK, Account!OneDirection
  <2> QED BY <1>2, <2>1, <2>2, <2>3, <2>4 DEF Account!Next
<1> QED BY <1>1, <1>2, LedgerIsAnEscrowAccount, PTL DEF ImplementsEscrow, Account!Spec
===============================================================================
