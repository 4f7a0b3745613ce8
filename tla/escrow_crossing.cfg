\* Two payments of one booking, intents that fail and are paid on a retry, and direct
\* confirmations, with two handlers: the ways out of escrow cross.
SPECIFICATION Spec
CONSTANTS
  b1 = b1
  r1 = r1
  r2 = r2
  w1 = w1
  w2 = w2
  Nil = Nil
  Booking <- OneBooking
  Payment <- TwoPayments
  Refund <- OneRefund
  Worker <- TwoWorkers
  For <- AllForOne
  Settles = TRUE
  Copies = 2
  Faults = {"intentRetry", "confirmCall"}
SYMMETRY Symmetry
INVARIANTS OneWayOut HostPaidFromEscrow
CHECK_DEADLOCK FALSE
