\* Liveness without faults; no symmetry.
SPECIFICATION FairSpec
CONSTANTS
  b1 = b1
  r1 = r1
  r2 = r2
  w1 = w1
  w2 = w2
  Nil = Nil
  Booking <- OneBooking
  Payment <- OnePayment
  Refund <- TwoRefunds
  Worker <- TwoWorkers
  For <- AllForOne
  Settles = TRUE
  Copies = 2
  Faults = {}
PROPERTIES CaptureReconciled RefundJobRefunds CompletedStayPaid
CHECK_DEADLOCK FALSE
