-------------------------- MODULE ExclusiveCalendar --------------------------
(***************************************************************************)
(* What the calendar of a rental unit promises, whoever writes to it: an   *)
(* owner (a booking or a host block) takes its whole window at once or not *)
(* at all, takes it only while every cell of it is free, and keeps it      *)
(* until it gives the whole window back.  Nothing is said of locks,        *)
(* constraints, transactions or clocks: BookingCalendar shows that the     *)
(* code's layers implement this.                                           *)
(***************************************************************************)
CONSTANTS Owner,   \* whatever can occupy a unit: bookings and host blocks
          Unit,    \* rental units
          Cell     \* instants of the calendar

VARIABLE occupied  \* triples <<owner, unit, cell>>

Occupancy == Owner \X Unit \X Cell

OwnersIn(S) == {x[1] : x \in S}

TypeOK == occupied \subseteq Occupancy

Init == occupied = {}

Free(u, cells) == \A x \in occupied : ~(x[2] = u /\ x[3] \in cells)

Occupy(o, u, cells) ==
  /\ o \notin OwnersIn(occupied)
  /\ Free(u, cells)
  /\ occupied' = occupied \cup ({o} \X {u} \X cells)

Vacate(S) == occupied' = {x \in occupied : x[1] \notin S}

Next ==
  \/ \E S \in SUBSET Owner : Vacate(S)
  \/ \E o \in Owner, u \in Unit, cells \in SUBSET Cell : Occupy(o, u, cells)

Spec == Init /\ [][Next]_occupied

(* No instant of a unit ever has two occupants. *)
Exclusive ==
  \A x, y \in occupied : x[2] = y[2] /\ x[3] = y[3] => x[1] = y[1]
=============================================================================
