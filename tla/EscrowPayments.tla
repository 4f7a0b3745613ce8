---------------------------- MODULE EscrowPayments ----------------------------
(***************************************************************************)
(* The money of the bookings: PaymentService, WebhookService,              *)
(* RefundService, PayoutService and EscrowAdminService over their tables,  *)
(* with the payment provider and the payments queue around them.           *)
(*                                                                         *)
(* A handler of the queue's worker is a process of its own: every database *)
(* statement or transaction, provider call and queue.add is one step, so   *)
(* webhooks, jobs, retries, crashes and the booking's own life interleave  *)
(* between any two of them.  A booking's status changes by compare-and-    *)
(* swap, which BookingCalendar models in detail; CHECKED_IN is part of     *)
(* CONFIRMED here, since no money moves at check-in.                       *)
(***************************************************************************)
EXTENDS Integers, FiniteSets

CONSTANTS Booking, \* bookings, holding a unit and awaiting payment
          Payment, \* payments, numbered in the order of their creation
          For,     \* the booking each payment is for
          Refund,  \* rows of refunds; the id is the provider's idempotency key
          Worker,  \* concurrent handlers of the payments queue
          Nil,     \* no payment, no refund, no event
          Settles, \* the provider settles transfers synchronously (MOCK)
          Copies,  \* bound: how many copies of one job are told apart
          Faults   \* what may go wrong; see Fault

Fault == {"crash",       \* a process dies between two steps
          "stalled",     \* BullMQ hands a running job to a second worker
          "exhausted",   \* a job fails its last attempt
          "error",       \* a statement, provider call or queue.add throws
          "declined",    \* the provider gives up a refund it had accepted
          "intentRetry", \* the guest pays an intent that failed before
          "confirmCall", \* a booking is confirmed through its endpoint
          "admin"}       \* an operator holds, releases and retries payouts

ASSUME EscrowAssumption ==
  /\ Payment \subseteq Nat
  /\ \A K \in SUBSET Payment : K # {} => \E k \in K : \A j \in K : j <= k
  /\ For \in [Payment -> Booking]
  /\ IsFiniteSet(Worker)
  /\ Nil \notin Payment \cup Refund
  /\ Settles \in BOOLEAN
  /\ Copies \in Nat \ {0}
  /\ Faults \subseteq Fault

VARIABLES
  booking,  \* bookings.status
  lapsed,   \* bookings whose hold_expires_at has passed
  payment,  \* payments.status; "NONE" before the row exists
  intent,   \* the provider's payment intent
  refund,   \* refunds: the payment, the status, provider_refund_id set or not
  refunded, \* refunds the provider has accepted
  payout,   \* payouts.status of the booking; "NONE" before the row exists
  sent,     \* bookings whose transfer the provider has made
  ledger,   \* how often each balanced group was posted to ledger_entries
  events,   \* webhooks the provider emits, each delivered at least once
  inbox,    \* payment_webhook_events.processing_status
  intake,   \* events recorded by an HTTP handler that has not enqueued them
  queue,    \* how many jobs of each kind wait, run or are to be retried
  worker    \* what each handler is doing

vars == <<booking, lapsed, payment, intent, refund, refunded, payout, sent, ledger,
          events, inbox, intake, queue, worker>>
-----------------------------------------------------------------------------
BookingStatus == {"PENDING_PAYMENT", "CONFIRMED", "COMPLETED", "CANCELLED",
                  "EXPIRED", "REFUNDED"}

PaymentStatus == {"INITIATED", "REQUIRES_ACTION", "CAPTURED", "FAILED", "REFUNDED"}

PayoutStatus == {"PENDING", "IN_TRANSIT", "PAID", "FAILED", "ON_HOLD"}

Event == [type : {"PAYMENT_CAPTURED", "PAYMENT_FAILED"}, of : Payment]
         \cup [type : {"REFUND_SUCCEEDED", "REFUND_FAILED"}, of : Refund]

Job == [name : {"process-webhook"}, of : Event, reason : {"none"}]
       \cup [name : {"create-payout", "execute-payout"}, of : Booking,
             reason : {"none"}]
       \cup [name : {"create-refund"}, of : Booking,
             reason : {"cancelled", "hold_expired_after_capture"}]

WebhookJob(e) == [name |-> "process-webhook", of |-> e, reason |-> "none"]
PayoutJob(name, b) == [name |-> name, of |-> b, reason |-> "none"]
RefundJob(b, reason) == [name |-> "create-refund", of |-> b, reason |-> reason]

(* The groups of ledger_entries: each posts balanced legs, so the model    *)
(* keeps only how often a group was posted.                                *)
LedgerGroup == ({"CAPTURE", "REFUND", "SPLIT"} \X Payment) \cup ({"PAYOUT"} \X Booking)

(* LedgerService.postGroup inside the transaction of the state change. *)
PostGroup(group) == ledger' = [ledger EXCEPT ![group] = @ + 1]

Idle == [job |-> [name |-> "none", of |-> Nil, reason |-> "none"],
         step |-> "idle", payment |-> Nil, refund |-> Nil]

Init ==
  /\ booking = [b \in Booking |-> "PENDING_PAYMENT"]
  /\ lapsed = {}
  /\ payment = [k \in Payment |-> "NONE"]
  /\ intent = [k \in Payment |-> "none"]
  /\ refund = [r \in Refund |-> [of |-> Nil, status |-> "NONE", attached |-> FALSE]]
  /\ refunded = {}
  /\ payout = [b \in Booking |-> "NONE"]
  /\ sent = {}
  /\ ledger = [g \in LedgerGroup |-> 0]
  /\ events = {}
  /\ inbox = [e \in Event |-> "NONE"]
  /\ intake = {}
  /\ queue = [j \in Job |-> 0]
  /\ worker = [w \in Worker |-> Idle]

money == <<payment, intent, refund, refunded, payout, sent, ledger>>
hooks == <<events, inbox, intake>>
-----------------------------------------------------------------------------
(* The booking, as its own service and its users drive it. *)

HoldLapses(b) ==
  /\ b \notin lapsed
  /\ lapsed' = lapsed \cup {b}
  /\ UNCHANGED <<booking, money, hooks, queue, worker>>

(* POST bookings/:id/confirm asks for no payment. *)
ConfirmCall(b) ==
  /\ "confirmCall" \in Faults
  /\ booking[b] = "PENDING_PAYMENT" /\ b \notin lapsed
  /\ booking' = [booking EXCEPT ![b] = "CONFIRMED"]
  /\ UNCHANGED <<lapsed, money, hooks, queue, worker>>

(* The expiry job or the sweeper. *)
ExpireHold(b) ==
  /\ booking[b] = "PENDING_PAYMENT" /\ b \in lapsed
  /\ booking' = [booking EXCEPT ![b] = "EXPIRED"]
  /\ UNCHANGED <<lapsed, money, hooks, queue, worker>>

More(n) == IF n < Copies THEN n + 1 ELSE n

Less(n) == IF n = 0 THEN 0 ELSE n - 1

Add(j) == queue' = [queue EXCEPT ![j] = More(@)]

(* queue.add of a request handler after its committed status change: a     *)
(* crash in between, or an error of Redis, loses the job.                  *)
Enqueue(j) == \/ Add(j)
              \/ {"crash", "error"} \cap Faults # {} /\ UNCHANGED queue

Cancel(b) ==
  /\ booking[b] \in {"PENDING_PAYMENT", "CONFIRMED"}
  /\ booking' = [booking EXCEPT ![b] = "CANCELLED"]
  /\ Enqueue(RefundJob(b, "cancelled"))
  /\ UNCHANGED <<lapsed, money, hooks, worker>>

Complete(b) ==
  /\ booking[b] = "CONFIRMED"
  /\ booking' = [booking EXCEPT ![b] = "COMPLETED"]
  /\ Enqueue(PayoutJob("create-payout", b))
  /\ UNCHANGED <<lapsed, money, hooks, worker>>
-----------------------------------------------------------------------------
(* PaymentService.initiate: a retry under the same idempotency key finds   *)
(* the row and goes on where the crashed attempt stopped.                  *)

CreateIdempotent(k) ==
  /\ payment[k] = "NONE"
  /\ \A j \in Payment : j < k => payment[j] # "NONE"
  /\ booking[For[k]] = "PENDING_PAYMENT" /\ For[k] \notin lapsed
  /\ payment' = [payment EXCEPT ![k] = "INITIATED"]
  /\ UNCHANGED <<booking, lapsed, intent, refund, refunded, payout, sent, ledger,
                 hooks, queue, worker>>

CreateIntent(k) ==
  /\ payment[k] = "INITIATED" /\ intent[k] = "none"
  /\ intent' = [intent EXCEPT ![k] = "open"]
  /\ UNCHANGED <<booking, lapsed, payment, refund, refunded, payout, sent, ledger,
                 hooks, queue, worker>>

AttachProviderIntent(k) ==
  /\ payment[k] = "INITIATED" /\ intent[k] # "none"
  /\ payment' = [payment EXCEPT ![k] = "REQUIRES_ACTION"]
  /\ UNCHANGED <<booking, lapsed, intent, refund, refunded, payout, sent, ledger,
                 hooks, queue, worker>>
-----------------------------------------------------------------------------
(* The provider. *)

Emit(e) == events' = events \cup {e} /\ UNCHANGED <<inbox, intake>>

(* The guest has the client action only once initiate has attached it. *)
GuestPays(k) ==
  /\ payment[k] \notin {"NONE", "INITIATED"}
  /\ intent[k] = "open" \/ (intent[k] = "failed" /\ "intentRetry" \in Faults)
  /\ intent' = [intent EXCEPT ![k] = "captured"]
  /\ Emit([type |-> "PAYMENT_CAPTURED", of |-> k])
  /\ UNCHANGED <<booking, lapsed, payment, refund, refunded, payout, sent, ledger,
                 queue, worker>>

PaymentFails(k) ==
  /\ payment[k] \notin {"NONE", "INITIATED"}
  /\ intent[k] = "open"
  /\ intent' = [intent EXCEPT ![k] = "failed"]
  /\ Emit([type |-> "PAYMENT_FAILED", of |-> k])
  /\ UNCHANGED <<booking, lapsed, payment, refund, refunded, payout, sent, ledger,
                 queue, worker>>

(* An accepted refund ends, well or badly. *)
RefundEnds(r) ==
  /\ r \in refunded
  /\ \A e \in events : e.of # r
  /\ \/ Emit([type |-> "REFUND_SUCCEEDED", of |-> r])
     \/ "declined" \in Faults /\ Emit([type |-> "REFUND_FAILED", of |-> r])
  /\ UNCHANGED <<booking, lapsed, money, queue, worker>>
-----------------------------------------------------------------------------
(* WebhookService.intake: a redelivery of a recorded event changes nothing. *)

RecordEvent(e) ==
  /\ e \in events /\ inbox[e] = "NONE"
  /\ inbox' = [inbox EXCEPT ![e] = "RECEIVED"]
  /\ intake' = intake \cup {e}
  /\ UNCHANGED <<booking, lapsed, money, events, queue, worker>>

EnqueueEvent(e) ==
  /\ e \in intake
  /\ intake' = intake \ {e}
  /\ Enqueue(WebhookJob(e))
  /\ UNCHANGED <<booking, lapsed, money, events, inbox, worker>>
-----------------------------------------------------------------------------
(* The worker of the payments queue. *)

At(w, name, step) == worker[w].job.name = name /\ worker[w].step = step

Goto(w, step) == worker' = [worker EXCEPT ![w].step = step]

Rest(w) == worker' = [worker EXCEPT ![w] = Idle]

Drop(j) == queue' = [queue EXCEPT ![j] = Less(@)]

(* The handler returns: BullMQ removes the job. *)
Done(w) == Rest(w) /\ Drop(worker[w].job)

(* The handler throws: the job waits for its next attempt, if it has one. *)
Throw(w) == /\ Rest(w)
            /\ \/ UNCHANGED queue
               \/ "exhausted" \in Faults /\ Drop(worker[w].job)

Running(j) == Cardinality({v \in Worker : worker[v].job = j})

(* Mutant: dispatch has no branch for execute-payout. *)
FirstStep_NoPayout(j) ==
  CASE j.name = "process-webhook" -> "claim"
    [] j.name = "create-refund" -> "find"
    [] j.name = "create-payout" -> "booking"
    [] OTHER -> "unknown"

(* PaymentWorker.dispatch. *)
FirstStep(j) ==
  CASE j.name = "process-webhook" -> "claim"
    [] j.name = "create-refund" -> "find"
    [] j.name = "create-payout" -> "booking"
    [] OTHER -> "payout"

TakeJob(w, j) ==
  /\ worker[w] = Idle
  /\ queue[j] > (IF "stalled" \in Faults THEN 0 ELSE Running(j))
  /\ worker' = [worker EXCEPT ![w].job = j, ![w].step = FirstStep(j)]
  /\ UNCHANGED <<booking, lapsed, money, hooks, queue>>

(* The worker dies; BullMQ finds the job stalled and gives it out again,   *)
(* as it does the job of a handler that threw.                             *)
WorkerCrash(w) ==
  /\ "crash" \in Faults /\ worker[w] # Idle
  /\ Throw(w)
  /\ UNCHANGED <<booking, lapsed, money, hooks>>

(* A step throws: process marks the event FAILED before it rethrows,       *)
(* executePayout the payout, and the other handlers let the error pass.    *)
StepThrows(w) ==
  /\ "error" \in Faults /\ worker[w] # Idle
  /\ \/ /\ worker[w].job.name = "process-webhook"
        /\ worker[w].step \notin {"claim", "failed"}
        /\ Goto(w, "failed") /\ UNCHANGED queue
     \/ /\ worker[w].job.name = "execute-payout"
        /\ worker[w].step \in {"transfer", "inTransit", "settle"}
        /\ Goto(w, "transferFailed") /\ UNCHANGED queue
     \/ /\ \/ worker[w].job.name \in {"create-refund", "create-payout"}
           \/ worker[w].step \in {"claim", "failed", "payout", "transferFailed"}
        /\ Throw(w)
  /\ UNCHANGED <<booking, lapsed, money, hooks>>
-----------------------------------------------------------------------------
(* process-webhook: WebhookService.process *)

SetInbox(e, status) == /\ inbox' = [inbox EXCEPT ![e] = status]
                       /\ UNCHANGED <<events, intake>>

ClaimEvent(w) ==
  LET e == worker[w].job.of IN
  /\ At(w, "process-webhook", "claim")
  /\ \/ /\ inbox[e] \in {"RECEIVED", "FAILED"}
        /\ SetInbox(e, "PROCESSING")
        /\ Goto(w, "apply") /\ UNCHANGED queue
     \/ /\ inbox[e] \notin {"RECEIVED", "FAILED"}
        /\ Done(w) /\ UNCHANGED hooks
  /\ UNCHANGED <<booking, lapsed, money>>

Applies(w, type) == /\ At(w, "process-webhook", "apply")
                    /\ worker[w].job.of.type = type

(* Mutant: markCaptured without its list of expected states. *)
Open_NotRefunded == {k \in Payment : payment[k] \notin {"NONE", "REFUNDED"}}

(* Mutant: REQUIRES_ACTION is forgotten in the list of expected states. *)
Open_InitiatedOnly == {k \in Payment : payment[k] = "INITIATED"}

(* Payments a capture or a failure may still change. *)
Open == {k \in Payment : payment[k] \in {"INITIATED", "REQUIRES_ACTION"}}

(* The transaction of applyCapture. *)
ApplyCapture(w) ==
  LET k == worker[w].job.of.of IN
  /\ Applies(w, "PAYMENT_CAPTURED")
  /\ \/ /\ k \in Open
        /\ payment' = [payment EXCEPT ![k] = "CAPTURED"]
        /\ PostGroup(<<"CAPTURE", k>>)
     \/ k \notin Open /\ UNCHANGED <<payment, ledger>>
  /\ Goto(w, "read")
  /\ UNCHANGED <<booking, lapsed, intent, refund, refunded, payout, sent, hooks, queue>>

ApplyFailure(w) ==
  LET k == worker[w].job.of.of IN
  /\ Applies(w, "PAYMENT_FAILED")
  /\ payment' = [payment EXCEPT ![k] = IF k \in Open THEN "FAILED" ELSE @]
  /\ Goto(w, "mark")
  /\ UNCHANGED <<booking, lapsed, intent, refund, refunded, payout, sent, ledger,
                 hooks, queue>>

(* The transaction of applyRefund: the row is found by the provider's      *)
(* reference, so an unattached row is not found; the CHECK                 *)
(* payments_refund_within_amount rolls back a second full refund.          *)
ApplyRefund(w) ==
  LET r == worker[w].job.of.of
      k == refund[r].of
      found == refund[r].attached /\ refund[r].status = "PENDING"
  IN
  /\ Applies(w, "REFUND_SUCCEEDED")
  /\ \/ /\ found /\ payment[k] # "REFUNDED"
        /\ refund' = [refund EXCEPT ![r].status = "SUCCEEDED"]
        /\ payment' = [payment EXCEPT ![k] = "REFUNDED"]
        /\ PostGroup(<<"REFUND", k>>)
        /\ Goto(w, "read")
     \/ /\ found /\ payment[k] = "REFUNDED"
        /\ Goto(w, "failed") /\ UNCHANGED <<refund, payment, ledger>>
     \/ /\ ~found
        /\ Goto(w, "read") /\ UNCHANGED <<refund, payment, ledger>>
  /\ UNCHANGED <<booking, lapsed, intent, refunded, payout, sent, hooks, queue>>

(* A failed refund is logged for manual follow-up. *)
ApplyRefundFailure(w) ==
  /\ Applies(w, "REFUND_FAILED")
  /\ Goto(w, "mark")
  /\ UNCHANGED <<booking, lapsed, money, hooks, queue>>

(* The booking of the event a handler processes. *)
Concerns(w) == LET e == worker[w].job.of IN
  IF e.type = "PAYMENT_CAPTURED" THEN For[e.of] ELSE For[refund[e.of].of]

(* getById in confirmBookingIdempotent and at the end of applyRefund. *)
ReadBooking(w) ==
  LET status == booking[Concerns(w)]
      capture == worker[w].job.of.type = "PAYMENT_CAPTURED"
  IN
  /\ At(w, "process-webhook", "read")
  /\ Goto(w, CASE capture /\ status = "PENDING_PAYMENT" -> "assert"
               [] ~capture /\ status = "CANCELLED" -> "markRefunded"
               [] OTHER -> "mark")
  /\ UNCHANGED <<booking, lapsed, money, hooks, queue>>

(* BookingService.confirm reads the booking again and asserts the          *)
(* transition; confirmBookingIdempotent swallows InvalidTransitionError.   *)
AssertConfirm(w) ==
  /\ At(w, "process-webhook", "assert")
  /\ Goto(w, IF booking[Concerns(w)] = "PENDING_PAYMENT" THEN "cas" ELSE "mark")
  /\ UNCHANGED <<booking, lapsed, money, hooks, queue>>

HoldAlive(b) == booking[b] = "PENDING_PAYMENT" /\ b \notin lapsed

ConfirmCas(w) ==
  LET b == Concerns(w) IN
  /\ At(w, "process-webhook", "cas")
  /\ \/ /\ HoldAlive(b)
        /\ booking' = [booking EXCEPT ![b] = "CONFIRMED"]
        /\ Goto(w, "mark")
     \/ ~HoldAlive(b) /\ Goto(w, "answer") /\ UNCHANGED booking
  /\ UNCHANGED <<lapsed, money, hooks, queue>>

(* Mutant: every lost compare-and-swap is taken for an expired hold. *)
HoldExpired_AnyLoss(b) == TRUE

HoldExpired(b) == \/ booking[b] = "EXPIRED"
                  \/ booking[b] = "PENDING_PAYMENT" /\ b \in lapsed

(* The lost compare-and-swap is read again: HoldExpiredError asks for a    *)
(* refund, StaleStateError fails the event.                                *)
AnswerConfirm(w) ==
  LET b == Concerns(w) IN
  /\ At(w, "process-webhook", "answer")
  /\ \/ /\ HoldExpired(b)
        /\ Add(RefundJob(b, "hold_expired_after_capture"))
        /\ Goto(w, "mark")
     \/ ~HoldExpired(b) /\ Goto(w, "failed") /\ UNCHANGED queue
  /\ UNCHANGED <<booking, lapsed, money, hooks>>

MarkRefunded(w) ==
  LET b == Concerns(w) IN
  /\ At(w, "process-webhook", "markRefunded")
  /\ \/ /\ booking[b] = "CANCELLED"
        /\ booking' = [booking EXCEPT ![b] = "REFUNDED"]
        /\ Goto(w, "mark")
     \/ booking[b] # "CANCELLED" /\ Goto(w, "failed") /\ UNCHANGED booking
  /\ UNCHANGED <<lapsed, money, hooks, queue>>

MarkProcessed(w) ==
  /\ At(w, "process-webhook", "mark")
  /\ SetInbox(worker[w].job.of, "PROCESSED")
  /\ Done(w)
  /\ UNCHANGED <<booking, lapsed, money>>

FailEvent(w) ==
  /\ At(w, "process-webhook", "failed")
  /\ SetInbox(worker[w].job.of, "FAILED")
  /\ Throw(w)
  /\ UNCHANGED <<booking, lapsed, money>>
-----------------------------------------------------------------------------
(* create-refund: RefundService.createForBooking *)

(* Mutant: any attempt that has not failed counts as captured. *)
Captured_NotFailed(b) ==
  {k \in Payment : For[k] = b /\ payment[k] \notin {"NONE", "FAILED"}}

(* Mutant: only bookings that still stand have a captured payment. *)
Captured_Standing(b) ==
  {k \in Payment : /\ For[k] = b /\ payment[k] = "CAPTURED"
                   /\ booking[b] \in {"CONFIRMED", "COMPLETED"}}

Captured(b) == {k \in Payment : For[k] = b /\ payment[k] = "CAPTURED"}

Latest(K) == CHOOSE k \in K : \A j \in K : j <= k

FindCaptured(w) ==
  LET K == Captured(worker[w].job.of) IN
  /\ At(w, "create-refund", "find")
  /\ \/ /\ K # {}
        /\ worker' = [worker EXCEPT ![w].step = "check", ![w].payment = Latest(K)]
        /\ UNCHANGED queue
     \/ K = {} /\ Done(w)
  /\ UNCHANGED <<booking, lapsed, money, hooks>>

HasPendingOrDoneRefund(k) ==
  \E r \in Refund : refund[r].of = k /\ refund[r].status \in {"PENDING", "SUCCEEDED"}

CheckExisting(w) ==
  LET exists == HasPendingOrDoneRefund(worker[w].payment) IN
  /\ At(w, "create-refund", "check")
  /\ \/ ~exists /\ Goto(w, "insert") /\ UNCHANGED queue
     \/ exists /\ Done(w)
  /\ UNCHANGED <<booking, lapsed, money, hooks>>

InsertRefund(w) ==
  /\ At(w, "create-refund", "insert")
  /\ \E r \in Refund :
       /\ refund[r].status = "NONE"
       /\ refund' = [refund EXCEPT ![r].of = worker[w].payment, ![r].status = "PENDING"]
       /\ worker' = [worker EXCEPT ![w].step = "provider", ![w].refund = r]
  /\ UNCHANGED <<booking, lapsed, payment, intent, refunded, payout, sent, ledger,
                 hooks, queue>>

(* provider.createRefund, idempotent per row of refunds. *)
AskProvider(w) ==
  /\ At(w, "create-refund", "provider")
  /\ refunded' = refunded \cup {worker[w].refund}
  /\ Goto(w, "attach")
  /\ UNCHANGED <<booking, lapsed, payment, intent, refund, payout, sent, ledger,
                 hooks, queue>>

AttachRefund(w) ==
  /\ At(w, "create-refund", "attach")
  /\ refund' = [refund EXCEPT ![worker[w].refund].attached = TRUE]
  /\ Done(w)
  /\ UNCHANGED <<booking, lapsed, payment, intent, refunded, payout, sent, ledger, hooks>>
-----------------------------------------------------------------------------
(* create-payout: PayoutService.createForBooking *)

ReadCompleted(w) ==
  LET completed == booking[worker[w].job.of] = "COMPLETED" IN
  /\ At(w, "create-payout", "booking")
  /\ \/ completed /\ Goto(w, "find") /\ UNCHANGED queue
     \/ ~completed /\ Done(w)
  /\ UNCHANGED <<booking, lapsed, money, hooks>>

FindPaid(w) ==
  LET K == Captured(worker[w].job.of) IN
  /\ At(w, "create-payout", "find")
  /\ \/ /\ K # {}
        /\ worker' = [worker EXCEPT ![w].step = "split", ![w].payment = Latest(K)]
        /\ UNCHANGED queue
     \/ K = {} /\ Done(w)
  /\ UNCHANGED <<booking, lapsed, money, hooks>>

(* Mutant: the payout row of an earlier attempt does not stop the split. *)
SplitEscrow_Again(w) ==
  LET b == worker[w].job.of IN
  /\ At(w, "create-payout", "split")
  /\ payout' = [payout EXCEPT ![b] = IF @ = "NONE" THEN "PENDING" ELSE @]
  /\ PostGroup(<<"SPLIT", worker[w].payment>>)
  /\ Goto(w, "enqueue") /\ UNCHANGED queue
  /\ UNCHANGED <<booking, lapsed, payment, intent, refund, refunded, sent, hooks>>

(* createIfAbsent and the SPLIT group, in one transaction. *)
SplitEscrow(w) ==
  LET b == worker[w].job.of IN
  /\ At(w, "create-payout", "split")
  /\ \/ /\ payout[b] = "NONE"
        /\ payout' = [payout EXCEPT ![b] = "PENDING"]
        /\ PostGroup(<<"SPLIT", worker[w].payment>>)
        /\ Goto(w, "enqueue") /\ UNCHANGED queue
     \/ payout[b] # "NONE" /\ Done(w) /\ UNCHANGED <<payout, ledger>>
  /\ UNCHANGED <<booking, lapsed, payment, intent, refund, refunded, sent, hooks>>

(* Mutant: the transfer is never scheduled. *)
EnqueueTransfer_Forgotten(w) ==
  /\ At(w, "create-payout", "enqueue")
  /\ Done(w)
  /\ UNCHANGED <<booking, lapsed, money, hooks>>

EnqueueTransfer(w) ==
  LET j == worker[w].job IN
  /\ At(w, "create-payout", "enqueue")
  /\ queue' = [queue EXCEPT ![j] = Less(@),
                            ![PayoutJob("execute-payout", j.of)] = More(@)]
  /\ Rest(w)
  /\ UNCHANGED <<booking, lapsed, money, hooks>>
-----------------------------------------------------------------------------
(* execute-payout: PayoutService.executePayout *)

SetPayout(b, status) ==
  /\ payout' = [payout EXCEPT ![b] = status]
  /\ UNCHANGED <<payment, intent, refund, refunded, sent>>

ReadPayout(w) ==
  LET pending == payout[worker[w].job.of] = "PENDING" IN
  /\ At(w, "execute-payout", "payout")
  /\ \/ pending /\ Goto(w, "transfer") /\ UNCHANGED queue
     \/ ~pending /\ Done(w)
  /\ UNCHANGED <<booking, lapsed, money, hooks>>

(* provider.createTransfer, idempotent per payout. *)
Transfer(w) ==
  /\ At(w, "execute-payout", "transfer")
  /\ sent' = sent \cup {worker[w].job.of}
  /\ Goto(w, "inTransit")
  /\ UNCHANGED <<booking, lapsed, payment, intent, refund, refunded, payout, ledger,
                 hooks, queue>>

MarkInTransit(w) ==
  LET b == worker[w].job.of IN
  /\ At(w, "execute-payout", "inTransit")
  /\ \/ payout[b] = "PENDING" /\ SetPayout(b, "IN_TRANSIT")
     \/ payout[b] # "PENDING" /\ UNCHANGED <<payout, payment, intent, refund, refunded, sent>>
  /\ \/ payout[b] = "PENDING" /\ Settles /\ Goto(w, "settle") /\ UNCHANGED queue
     \/ ~(payout[b] = "PENDING" /\ Settles) /\ Done(w)
  /\ UNCHANGED <<booking, lapsed, ledger, hooks>>

(* The transaction of settle. *)
Settle(w) ==
  LET b == worker[w].job.of IN
  /\ At(w, "execute-payout", "settle")
  /\ \/ payout[b] = "IN_TRANSIT" /\ SetPayout(b, "PAID") /\ PostGroup(<<"PAYOUT", b>>)
     \/ payout[b] # "IN_TRANSIT" /\ UNCHANGED money
  /\ Done(w)
  /\ UNCHANGED <<booking, lapsed, hooks>>

TransferFailed(w) ==
  LET b == worker[w].job.of IN
  /\ At(w, "execute-payout", "transferFailed")
  /\ SetPayout(b, IF payout[b] \in {"PENDING", "IN_TRANSIT"} THEN "FAILED" ELSE payout[b])
  /\ Throw(w)
  /\ UNCHANGED <<booking, lapsed, ledger, hooks>>
-----------------------------------------------------------------------------
(* EscrowAdminService: hold, release and retry. *)

HoldPayout(b) ==
  /\ "admin" \in Faults /\ payout[b] = "PENDING"
  /\ SetPayout(b, "ON_HOLD")
  /\ UNCHANGED <<booking, lapsed, ledger, hooks, queue, worker>>

(* release, from ON_HOLD, and retry, from FAILED *)
Requeue(b, from) ==
  LET j == PayoutJob("execute-payout", b) IN
  /\ "admin" \in Faults /\ payout[b] = from
  /\ SetPayout(b, "PENDING")
  /\ Enqueue(j)
  /\ UNCHANGED <<booking, lapsed, ledger, hooks, worker>>

ReleasePayout(b) == Requeue(b, "ON_HOLD")
RetryPayout(b) == Requeue(b, "FAILED")
-----------------------------------------------------------------------------
WebhookStep(w) ==
  \/ ClaimEvent(w) \/ ApplyCapture(w) \/ ApplyFailure(w) \/ ApplyRefund(w)
  \/ ApplyRefundFailure(w) \/ ReadBooking(w) \/ AssertConfirm(w) \/ ConfirmCas(w)
  \/ AnswerConfirm(w) \/ MarkRefunded(w) \/ MarkProcessed(w) \/ FailEvent(w)

RefundStep(w) == \/ FindCaptured(w) \/ CheckExisting(w) \/ InsertRefund(w)
                 \/ AskProvider(w) \/ AttachRefund(w)

PayoutStep(w) == \/ ReadCompleted(w) \/ FindPaid(w) \/ SplitEscrow(w)
                 \/ EnqueueTransfer(w) \/ ReadPayout(w) \/ Transfer(w)
                 \/ MarkInTransit(w) \/ Settle(w) \/ TransferFailed(w)

WorkerStep(w) == WebhookStep(w) \/ RefundStep(w) \/ PayoutStep(w)

BookingStep(b) == \/ HoldLapses(b) \/ ConfirmCall(b) \/ ExpireHold(b)
                  \/ Cancel(b) \/ Complete(b)

AdminStep(b) == HoldPayout(b) \/ ReleasePayout(b) \/ RetryPayout(b)

PaymentStep(k) == \/ CreateIdempotent(k) \/ CreateIntent(k) \/ AttachProviderIntent(k)
                  \/ GuestPays(k) \/ PaymentFails(k)

Next ==
  \/ \E b \in Booking : BookingStep(b) \/ AdminStep(b)
  \/ \E k \in Payment : PaymentStep(k)
  \/ \E r \in Refund : RefundEnds(r)
  \/ \E e \in Event : RecordEvent(e) \/ EnqueueEvent(e)
  \/ \E w \in Worker : \/ \E j \in Job : TakeJob(w, j)
                       \/ WorkerStep(w) \/ WorkerCrash(w) \/ StepThrows(w)

Spec == Init /\ [][Next]_vars

(* The worker keeps taking jobs and running them, the provider delivers    *)
(* every webhook and ends every refund, and the sweeper runs.  Users,      *)
(* operators and faults owe nothing.                                       *)
Fairness ==
  /\ \A w \in Worker : WF_vars(WorkerStep(w))
  /\ \A j \in Job : SF_vars(\E w \in Worker : TakeJob(w, j))
  /\ \A e \in Event : WF_vars(RecordEvent(e)) /\ WF_vars(EnqueueEvent(e))
  /\ \A r \in Refund : WF_vars(RefundEnds(r))
  /\ \A b \in Booking : WF_vars(ExpireHold(b))

FairSpec == Spec /\ Fairness
-----------------------------------------------------------------------------
(* The rows and messages have the shape their tables and queues give them. *)
Step == {"idle", "claim", "apply", "read", "assert", "cas", "answer", "markRefunded",
         "mark", "failed", "find", "check", "insert", "provider", "attach", "booking",
         "split", "enqueue", "payout", "transfer", "inTransit", "settle",
         "transferFailed"}

TypeOK ==
  /\ booking \in [Booking -> BookingStatus]
  /\ lapsed \subseteq Booking
  /\ payment \in [Payment -> PaymentStatus \cup {"NONE"}]
  /\ intent \in [Payment -> {"none", "open", "failed", "captured"}]
  /\ refund \in [Refund -> [of : Payment \cup {Nil},
                            status : {"NONE", "PENDING", "SUCCEEDED"},
                            attached : BOOLEAN]]
  /\ refunded \subseteq Refund
  /\ payout \in [Booking -> PayoutStatus \cup {"NONE"}]
  /\ sent \subseteq Booking
  /\ ledger \in [LedgerGroup -> Nat]
  /\ events \subseteq Event
  /\ inbox \in [Event -> {"NONE", "RECEIVED", "PROCESSING", "PROCESSED", "FAILED"}]
  /\ intake \subseteq events
  /\ queue \in [Job -> 0 .. Copies]
  /\ worker \in [Worker -> [job : Job \cup {Idle.job}, step : Step,
                            payment : Payment \cup {Nil}, refund : Refund \cup {Nil}]]

PaymentsOf(b) == {k \in Payment : For[k] = b}
RefundsOf(k, status) == {r \in Refund : refund[r].of = k /\ refund[r].status = status}
InEscrow(b) == \E k \in PaymentsOf(b) : payment[k] = "CAPTURED"
RefundAccepted(b) == \E r \in refunded : refund[r].of \in PaymentsOf(b)

(* The ledger tells what the tables tell, whatever is redelivered, retried *)
(* or crashes between two steps: a payment has its CAPTURE group exactly   *)
(* when it was captured, its REFUND group exactly when one refund          *)
(* succeeded, and a booking one SPLIT group with its payout row and a      *)
(* PAYOUT group when the payout is PAID.                                   *)
LedgerTellsTables ==
  /\ \A k \in Payment :
       /\ ledger[<<"CAPTURE", k>>] =
            IF payment[k] \in {"CAPTURED", "REFUNDED"} THEN 1 ELSE 0
       /\ ledger[<<"REFUND", k>>] = IF payment[k] = "REFUNDED" THEN 1 ELSE 0
       /\ ledger[<<"REFUND", k>>] = Cardinality(RefundsOf(k, "SUCCEEDED"))
  /\ \A b \in Booking :
       /\ Cardinality({k \in PaymentsOf(b) : ledger[<<"SPLIT", k>>] = 1}) =
            IF payout[b] = "NONE" THEN 0 ELSE 1
       /\ \A k \in PaymentsOf(b) : ledger[<<"SPLIT", k>>] <= 1
       /\ ledger[<<"PAYOUT", b>>] = IF payout[b] = "PAID" THEN 1 ELSE 0

(* The provider never both transfers a booking's money to the host and     *)
(* accepts a refund of it to the guest: cancellations, late captures,      *)
(* completions and the retries of all their jobs never meet.               *)
OneWayOut == \A b \in sent : ~RefundAccepted(b)

(* A transfer is made only for a completed stay, out of a captured and     *)
(* unrefunded payment that was split; and a payout counts as moving or     *)
(* paid only after its transfer.                                           *)
HostPaidFromEscrow ==
  /\ \A b \in sent :
       /\ booking[b] = "COMPLETED"
       /\ \E k \in PaymentsOf(b) : payment[k] = "CAPTURED" /\ ledger[<<"SPLIT", k>>] = 1
  /\ \A b \in Booking : payout[b] \in {"IN_TRANSIT", "PAID"} => b \in sent

(* Where the money of a payment is, as the ledger tells it. *)
Stage(k) ==
  LET in == ledger[<<"CAPTURE", k>>]
      back == ledger[<<"REFUND", k>>]
      out == ledger[<<"SPLIT", k>>]
  IN CASE <<in, back, out>> = <<0, 0, 0>> -> "guest"
       [] <<in, back, out>> = <<1, 0, 0>> -> "escrow"
       [] <<in, back, out>> = <<1, 1, 0>> -> "returned"
       [] <<in, back, out>> = <<1, 0, 1>> -> "host"
       [] OTHER -> "broken"

Stages == [k \in Payment |-> Stage(k)]

Account == INSTANCE EscrowAccount WITH stage <- Stages

(* Every posting of the services is a step of the abstract escrow account: *)
(* money enters once and leaves once, never in both directions.            *)
ImplementsEscrow == Account!Spec
-----------------------------------------------------------------------------
(* What must eventually happen, under FairSpec. *)

(* A payment the provider has captured reaches the books, and its booking  *)
(* is decided: confirmed, or given up.                                     *)
CaptureReconciled ==
  \A k \in Payment :
    intent[k] = "captured" ~> /\ payment[k] \in {"CAPTURED", "REFUNDED"}
                              /\ booking[For[k]] # "PENDING_PAYMENT"

(* A create-refund job that finds captured money gets a refund accepted by *)
(* the provider.                                                           *)
RefundJobRefunds ==
  \A b \in Booking :
    /\ \E j \in Job : j.name = "create-refund" /\ j.of = b /\ queue[j] > 0
    /\ InEscrow(b)
    ~> RefundAccepted(b)

(* The host of a completed stay is paid.  Rows here are of stays that leave *)
(* the host something (Pricing.SplitPosts): the split of any other is       *)
(* refused by the payouts table, however often its job is tried.            *)
CompletedStayPaid ==
  \A b \in Booking : booking[b] = "COMPLETED" ~> payout[b] = "PAID"
-----------------------------------------------------------------------------
(* What comments and documents of the repository say and the code does not *)
(* keep: each is refuted by a run of its own.                              *)

(* ledger.service.ts: no payment is captured without its escrow entry, so  *)
(* a confirmed booking has money in escrow.                                *)
ConfirmedIsPaid ==
  \A b \in Booking : booking[b] \in {"CONFIRMED", "COMPLETED"} =>
    \E k \in PaymentsOf(b) : ledger[<<"CAPTURE", k>>] = 1

(* payment.worker.ts: every handler is idempotent, so that at-least-once   *)
(* delivery is safe: the provider refunds a payment once.                  *)
RefundedOnce ==
  \A k \in Payment : Cardinality({r \in refunded : refund[r].of = k}) <= 1
=============================================================================
