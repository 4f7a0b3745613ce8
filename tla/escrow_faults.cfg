\* One payment of one booking, two handlers, and every fault of one payment: crashes,
\* errors, stalled and exhausted jobs, declined refunds, operators, direct confirmations.
SPECIFICATION Spec
CONSTANTS
  b1 = b1
  r1 = r1
  r2 = r2
  w1 = w1
  w2 = w2
  Nil = Nil
  Booking <- OneBooking
  Payment <- OnePayment
  Refund <- OneRefund
  Worker <- TwoWorkers
  For <- AllForOne
  Settles = TRUE
  Copies = 2
  Faults = {"crash", "error", "stalled", "exhausted", "declined", "admin",
            "confirmCall"}
SYMMETRY Symmetry
INVARIANTS TypeOK LedgerTellsTables
PROPERTIES ImplementsEscrow
CHECK_DEADLOCK FALSE
