------------------------------ MODULE MCGuestApp ------------------------------
(* A small instance of GuestApp for TLC. *)
EXTENDS GuestApp, TLC

CONSTANTS here, near, far, wide, q1, q2, h1, h2, t1, t2, r1, r2, p1, p2, p3, u1, u2,
          e1, e2, b1, y1, guest, host, admin, d1, d2

MCMargin == [v \in View |-> CASE v = here -> {here, near}
                              [] v = near -> {here, near, far}
                              [] v = far -> {near, far}
                              [] OTHER -> {v}]

MCUnitOf == [p \in Photo |-> IF p = p3 THEN u2 ELSE u1]

MCGuestOf == [b \in Booking |-> guest]
MCHostOf == [b \in Booking |-> host]

MCSymmetry == Permutations(Request) \cup Permutations(Desk)
===============================================================================
