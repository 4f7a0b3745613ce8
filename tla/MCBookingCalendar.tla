-------------------------- MODULE MCBookingCalendar --------------------------
(* Instances of BookingCalendar for TLC. *)
EXTENDS BookingCalendar, TLC

CONSTANTS b1, b2, k1, c1, c2, c3, u1, sweep

(* Two adjacent windows: a cleaning buffer of one cell makes them collide, *)
(* so bookings overlap without being equal, and a host block of the first  *)
(* window leaves the second one free.                                      *)
MCStays == {[from |-> 1, to |-> 2], [from |-> 2, to |-> 3]}

MCCell == 1 .. 3

MCSymmetry == Permutations(Booking) \cup Permutations(Caller)
=============================================================================
