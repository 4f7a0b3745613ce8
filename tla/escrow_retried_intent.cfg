\* ledger.service.ts: no payment is captured without its escrow entry.
SPECIFICATION Spec
CONSTANTS
  b1 = b1
  r1 = r1
  r2 = r2
  w1 = w1
  w2 = w2
  Nil = Nil
  Booking <- OneBooking
  Payment <- OnePayment
  Refund <- OneRefund
  Worker <- OneWorker
  For <- AllForOne
  Settles = TRUE
  Copies = 2
  Faults = {"intentRetry"}
SYMMETRY Symmetry
INVARIANTS ConfirmedIsPaid
CHECK_DEADLOCK FALSE
