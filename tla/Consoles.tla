------------------------------- MODULE Consoles -------------------------------
(***************************************************************************)
(* The pages on which guests, hosts and administrators act on bookings and *)
(* payouts.  A page offers buttons for the status it was rendered with;    *)
(* pressing one is a server action, which calls the API, which decides on  *)
(* the row as it is by then, for the account whose cookie came along.      *)
(* What the reader is told depends on an answer that may get lost.         *)
(***************************************************************************)
EXTENDS Naturals

CONSTANTS
    Booking, Payout,   \* rows
    GuestOf, HostOf,   \* the parties of each booking
    User, Admin,       \* accounts, and which of them administrate
    Desk,              \* browsers; each has one server action at a time
    NoRow,
    MaxEntries         \* bound on the compensating entries of a behaviour

ASSUME ConsoleAssumption ==
    /\ Booking \cap Payout = {} /\ NoRow \notin Booking \cup Payout
    /\ GuestOf \in [Booking -> User] /\ HostOf \in [Booking -> User]
    /\ MaxEntries \in Nat

VARIABLES
    area,     \* what the browsers are at: "stays" or "money"
    status,   \* bookings.status and payouts.status
    paid,     \* the bookings whose payment was captured in time
    jobs,     \* how often a row's money was put on the payments queue
    entries,  \* compensating entries in the ledger
    desk,     \* the page of each browser, and what its reader was told last
    call,     \* its server action
    stepped   \* history: in which role a row was last moved, cancelling apart

consoleVars == <<area, status, paid, jobs, entries, desk, call, stepped>>

Row == Booking \cup Payout
BookingStatus == {"PENDING_PAYMENT", "CONFIRMED", "CHECKED_IN", "COMPLETED",
                  "CANCELLED", "EXPIRED", "REFUNDED"}
PayoutStatus == {"PENDING", "ON_HOLD", "IN_TRANSIT", "PAID", "FAILED"}
RowStatus == BookingStatus \cup PayoutStatus
StayButton == {"cancel", "check-in", "complete"}
PayoutButton == {"hold", "release", "retry"}
Button == StayButton \cup PayoutButton
Role == {"GUEST", "HOST", "ADMIN"}
ConsolePage == {"/bookings", "/host/bookings", "/admin/escrow"}

Told == [what : {"nothing", "failed", "done"}, press : Button \cup {"adjust"},
         row : Row \cup {NoRow}, refund : BOOLEAN]
Untold == [what |-> "nothing", press |-> "adjust", row |-> NoRow, refund |-> FALSE]
NoCall == [at |-> "none", press |-> "adjust", row |-> NoRow, by |-> "none",
           saw |-> "unlisted", refund |-> FALSE, heard |-> TRUE]

(* The toast of a success, from the key in the URL of the redirect; of a   *)
(* failure, from the state the action returned.                            *)
Announced(c) == [what |-> "done", press |-> c.press, row |-> c.row, refund |-> c.refund]
Reported == [Untold EXCEPT !.what = "failed"]

ConsoleTypeOK ==
    /\ area \in {"stays", "money"}
    /\ status \in [Row -> RowStatus]
    /\ \A b \in Booking : status[b] \in BookingStatus
    /\ \A p \in Payout : status[p] \in PayoutStatus
    /\ paid \subseteq Booking
    /\ jobs \in [Row -> 0..2] /\ entries \in 0..MaxEntries
    /\ desk \in [Desk -> [page : ConsolePage \cup {"closed"},
                          shown : [Row -> RowStatus \cup {"unlisted"}], told : Told]]
    /\ call \in [Desk -> [at : {"none", "sent", "read", "owes", "done", "failed"},
                          press : Button \cup {"adjust"}, row : Row \cup {NoRow},
                          by : User \cup {"none"}, saw : RowStatus \cup {"unlisted"},
                          refund : BOOLEAN, heard : BOOLEAN]]
    /\ stepped \in [Row -> Role \cup {"nobody"}]

ClosedDesk == [page |-> "closed", shown |-> [r \in Row |-> "unlisted"], told |-> Untold]

(* A hold that was placed, a payout that was created. *)
ConsoleInit(areas) ==
    /\ area \in areas
    /\ status = [r \in Row |-> IF r \in Booking THEN "PENDING_PAYMENT" ELSE "PENDING"]
    /\ paid = {} /\ jobs = [r \in Row |-> 0] /\ entries = 0
    /\ desk = [d \in Desk |-> ClosedDesk]
    /\ call = [d \in Desk |-> NoCall]
    /\ stepped = [r \in Row |-> "nobody"]

-----------------------------------------------------------------------------
(* What a row offers, by the status it was rendered with. *)

(* canGuestCancel. *)
GuestButtons(s) == IF s \in {"PENDING_PAYMENT", "CONFIRMED"} THEN {"cancel"} ELSE {}

HostButtons(s) ==
    {k \in StayButton : \/ k = "check-in" /\ s = "CONFIRMED"
                        \/ k = "complete" /\ s = "CHECKED_IN"
                        \/ k = "cancel" /\ s \in {"CONFIRMED", "PENDING_PAYMENT"}}

PayoutControls(s) ==
    {k \in PayoutButton : \/ k = "hold" /\ s = "PENDING"
                          \/ k = "release" /\ s = "ON_HOLD"
                          \/ k = "retry" /\ s = "FAILED"}

Buttons(p, s) == CASE p = "/bookings" -> GuestButtons(s)
                   [] p = "/host/bookings" -> HostButtons(s)
                   [] p = "/admin/escrow" -> PayoutControls(s)
                   [] OTHER -> {}

(* The rows of each page, as they are when account u renders it. *)
GuestRows(u) == {b \in Booking : GuestOf[b] = u}
HostRows(u) == {b \in Booking : HostOf[b] = u}
EscrowRows(u) == IF u \in Admin THEN Payout ELSE {}

Rendered(p, u) ==
    LET rows == CASE p = "/bookings" -> GuestRows(u)
                  [] p = "/host/bookings" -> HostRows(u)
                  [] OTHER -> EscrowRows(u)
    IN [r \in Row |-> IF r \in rows THEN status[r] ELSE "unlisted"]

(* A page that lists nothing offers nothing, and is left out. *)
OpensPage(d, p, u) ==
    /\ call[d] = NoCall
    /\ p = "/admin/escrow" <=> area = "money"
    /\ \E r \in Row : Rendered(p, u)[r] # "unlisted"
    /\ desk' = [desk EXCEPT ![d] = [page |-> p, shown |-> Rendered(p, u), told |-> Untold]]
    /\ UNCHANGED <<area, status, paid, jobs, entries, call, stepped>>

(* The panel of a cancellation says "Your payment will be refunded in      *)
(* full", or "Cancel and refund?", of what the page knows as paid.         *)
SaysRefund(k, s) == k = "cancel" /\ s = "CONFIRMED"

(* The confirmation before it is local to the page.  The button is dead    *)
(* while its action is pending; the cookie is the browser's, and may be    *)
(* another account's than the one the page was rendered for.               *)
Presses(d, r, k, u) ==
    /\ call[d] = NoCall /\ desk[d].page # "closed"
    /\ k \in Buttons(desk[d].page, desk[d].shown[r])
    /\ call' = [call EXCEPT ![d] = [NoCall EXCEPT !.at = "sent", !.press = k, !.row = r,
                    !.by = u, !.refund = SaysRefund(k, desk[d].shown[r])]]
    /\ desk' = [desk EXCEPT ![d].told = Untold]
    /\ UNCHANGED <<area, status, paid, jobs, entries, stepped>>

-----------------------------------------------------------------------------
(* The form of an adjustment, and the three places that judge it.          *)
LedgerAccount == {"PROVIDER_CLEARING", "PLATFORM_ESCROW", "PLATFORM_REVENUE",
                  "HOST_PAYABLE", "TAX_PAYABLE", "GUEST_REFUND_CLEARING"}
Form == [from : LedgerAccount \cup {"other"}, to : LedgerAccount \cup {"other"},
         amount : {"whole", "zero", "fraction"}, currency : {"code", "lower", "other"},
         reason : {"short", "fit", "long"}, booking : {"none", "uuid", "other"}]

(* adjustAction, which trims and upper-cases first. *)
Normalized(f) == [f EXCEPT !.currency = IF f.currency = "lower" THEN "code" ELSE @]

ActionAccepts(f) ==
    /\ {f.from, f.to} \subseteq LedgerAccount /\ f.from # f.to
    /\ f.amount = "whole" /\ Normalized(f).currency = "code" /\ f.reason # "short"

(* adjustSchema of the controller. *)
SchemaAccepts(f) ==
    /\ {f.from, f.to} \subseteq LedgerAccount /\ f.amount = "whole"
    /\ f.currency = "code" /\ f.reason = "fit" /\ f.booking # "other"

(* EscrowAdminService.adjust. *)
AdjustAccepts(f) ==
    /\ {f.from, f.to} \subseteq LedgerAccount /\ f.from # f.to
    /\ f.amount = "whole" /\ f.currency = "code" /\ f.reason # "short"

(* What the API will say to the forms the action sends on. *)
Verdicts == {SchemaAccepts(Normalized(f)) /\ AdjustAccepts(Normalized(f)) :
                f \in {f \in Form : ActionAccepts(f)}}

SubmitsForm(d, u) ==
    /\ call[d] = NoCall /\ desk[d].page = "/admin/escrow"
    /\ \E fit \in Verdicts :
         call' = [call EXCEPT ![d] = [NoCall EXCEPT !.by = u,
                     !.at = IF fit /\ u \in Admin THEN "sent" ELSE "failed"]]
    /\ desk' = [desk EXCEPT ![d].told = Untold]
    /\ UNCHANGED <<area, status, paid, jobs, entries, stepped>>

(* The form itself or a reason too short: the action asks nobody. *)
RefusesAtOnce(d) ==
    /\ call[d] = NoCall /\ desk[d].page = "/admin/escrow"
    /\ desk' = [desk EXCEPT ![d].told = Reported]
    /\ UNCHANGED <<area, status, paid, jobs, entries, call, stepped>>

(* The group and its two legs are one transaction. *)
PostsEntry(d) ==
    /\ call[d].at = "sent" /\ call[d].press = "adjust"
    /\ entries < MaxEntries
    /\ entries' = entries + 1
    /\ call' = [call EXCEPT ![d].at = "done"]
    /\ UNCHANGED <<area, status, paid, jobs, desk, stepped>>

-----------------------------------------------------------------------------
(* The API. *)

(* authorizeActor: the role of the token's account on this booking. *)
ActorOn(b, u) == CASE u \in Admin -> "ADMIN"
                   [] u \notin Admin /\ GuestOf[b] = u -> "GUEST"
                   [] u \notin Admin /\ GuestOf[b] # u /\ HostOf[b] = u -> "HOST"
                   [] OTHER -> "nobody"

(* Mutant: whoever is a party to the booking may record its steps. *)
AnyPartyMay(k, role) == role # "nobody"

(* requireHostOrAdmin on all but a cancellation. *)
May(k, role) == role # "nobody" /\ (role = "GUEST" => k = "cancel")

(* Where booking_fsm_transitions, or the UPDATE of a payout, lets it start. *)
From(k) == CASE k = "cancel" -> {"PENDING_PAYMENT", "CONFIRMED", "CHECKED_IN"}
             [] k = "check-in" -> {"CONFIRMED"}
             [] k = "complete" -> {"CONFIRMED", "CHECKED_IN"}
             [] k = "hold" -> {"PENDING"}
             [] k = "release" -> {"ON_HOLD"}
             [] OTHER -> {"FAILED"}

GoesTo(k) == CASE k = "cancel" -> "CANCELLED"
               [] k = "check-in" -> "CHECKED_IN"
               [] k = "complete" -> "COMPLETED"
               [] k = "hold" -> "ON_HOLD"
               [] OTHER -> "PENDING"

(* The steps that end by putting money on the queue. *)
SetsMoneyGoing == {"cancel", "complete", "release", "retry"}

Fails(d) == call' = [call EXCEPT ![d].at = "failed"]

(* The controller and the first half of the service: parties never change, *)
(* so the role and the row are read as one.                                *)
ReadsBooking(d) ==
    /\ call[d].at = "sent" /\ call[d].row \in Booking
    /\ LET b == call[d].row  k == call[d].press IN
         IF May(k, ActorOn(b, call[d].by)) /\ status[b] \in From(k)
         THEN call' = [call EXCEPT ![d].at = "read", ![d].saw = status[b]]
         ELSE Fails(d)
    /\ UNCHANGED <<area, status, paid, jobs, entries, desk, stepped>>

Moves(d, r, role) ==
    LET k == call[d].press IN
    /\ status' = [status EXCEPT ![r] = GoesTo(k)]
    /\ stepped' = [stepped EXCEPT ![r] = IF k = "cancel" THEN @ ELSE role]
    /\ call' = [call EXCEPT ![d].at = IF k \in SetsMoneyGoing THEN "owes" ELSE "done"]

(* Mutant: the UPDATE names the row only. *)
NotCompared(r, s) == TRUE

(* The compare-and-swap's WHERE. *)
Unchanged(r, s) == status[r] = s

(* The second half; a row that moved meanwhile is a StaleStateError.       *)
WritesBooking(d) ==
    /\ call[d].at = "read"
    /\ LET b == call[d].row IN
         IF Unchanged(b, call[d].saw)
         THEN Moves(d, b, ActorOn(b, call[d].by))
         ELSE Fails(d) /\ UNCHANGED <<status, stepped>>
    /\ UNCHANGED <<area, paid, jobs, entries, desk>>

(* hold, release and retry: one UPDATE decides. *)
MovesPayout(d) ==
    /\ call[d].at = "sent" /\ call[d].row \in Payout
    /\ LET p == call[d].row IN
         IF call[d].by \in Admin /\ status[p] \in From(call[d].press)
         THEN Moves(d, p, "ADMIN")
         ELSE Fails(d) /\ UNCHANGED <<status, stepped>>
    /\ UNCHANGED <<area, paid, jobs, entries, desk>>

(* queue.add; the count saturates. *)
QueuesMoney(d) ==
    /\ call[d].at = "owes"
    /\ jobs' = [jobs EXCEPT ![call[d].row] = IF @ = 2 THEN 2 ELSE @ + 1]
    /\ call' = [call EXCEPT ![d].at = "done"]
    /\ UNCHANGED <<area, status, paid, entries, desk, stepped>>

(* The request does not arrive, is throttled, or its token is no good; the *)
(* API fails on the way; or its answer is lost or cannot be read: to the   *)
(* server action these are all one.                                        *)
CallFails(d) ==
    /\ call[d].at \in {"sent", "read", "owes", "done"}
    /\ Fails(d)
    /\ UNCHANGED <<area, status, paid, jobs, entries, desk, stepped>>

(* The reader goes elsewhere while the action is pending. *)
WalksOff(d) ==
    /\ call[d] # NoCall /\ call[d].heard
    /\ call' = [call EXCEPT ![d].heard = FALSE]
    /\ desk' = [desk EXCEPT ![d] = ClosedDesk]
    /\ UNCHANGED <<area, status, paid, jobs, entries, stepped>>

(* finish: the page is rendered anew and the success announced there.      *)
HearsSuccess(d) ==
    /\ call[d].at = "done" /\ call[d].heard
    /\ desk' = [desk EXCEPT ![d].shown = Rendered(desk[d].page, call[d].by),
                            ![d].told = Announced(call[d])]
    /\ call' = [call EXCEPT ![d] = NoCall]
    /\ UNCHANGED <<area, status, paid, jobs, entries, stepped>>

(* A failure comes back to the control, on a page as old as before.        *)
HearsFailure(d) ==
    /\ call[d].at = "failed" /\ call[d].heard
    /\ desk' = [desk EXCEPT ![d].told = Reported]
    /\ call' = [call EXCEPT ![d] = NoCall]
    /\ UNCHANGED <<area, status, paid, jobs, entries, stepped>>

EndsUnheard(d) ==
    /\ call[d].at \in {"done", "failed"} /\ ~call[d].heard
    /\ call' = [call EXCEPT ![d] = NoCall]
    /\ UNCHANGED <<area, status, paid, jobs, entries, desk, stepped>>

-----------------------------------------------------------------------------
(* What moves the rows from elsewhere: the capture, the expiry, the refund *)
(* and the payout worker.                                                  *)
Otherwise(r, from, to) ==
    /\ status[r] \in from
    /\ status' = [status EXCEPT ![r] = to]
    /\ UNCHANGED <<area, jobs, entries, desk, call, stepped>>

PaymentArrives(b) ==
    /\ area = "stays"
    /\ Otherwise(b, {"PENDING_PAYMENT"}, "CONFIRMED") /\ paid' = paid \cup {b}
HoldRunsOut(b) ==
    /\ area = "stays"
    /\ Otherwise(b, {"PENDING_PAYMENT"}, "EXPIRED") /\ UNCHANGED paid
RefundSettles(b) ==
    /\ area = "stays" /\ b \in paid
    /\ Otherwise(b, {"CANCELLED", "COMPLETED"}, "REFUNDED") /\ UNCHANGED paid
PayoutMoves(p) ==
    /\ area = "money" /\ UNCHANGED paid
    /\ \/ Otherwise(p, {"PENDING"}, "IN_TRANSIT")
       \/ Otherwise(p, {"IN_TRANSIT"}, "PAID")
       \/ Otherwise(p, {"PENDING", "IN_TRANSIT"}, "FAILED")

ConsoleNext ==
    \/ \E d \in Desk :
         \/ \E u \in User : \/ \E p \in ConsolePage : OpensPage(d, p, u)
                            \/ \E r \in Row, k \in Button : Presses(d, r, k, u)
                            \/ SubmitsForm(d, u)
         \/ RefusesAtOnce(d) \/ PostsEntry(d) \/ ReadsBooking(d) \/ WritesBooking(d) \/ MovesPayout(d)
         \/ QueuesMoney(d) \/ CallFails(d) \/ WalksOff(d)
         \/ HearsSuccess(d) \/ HearsFailure(d) \/ EndsUnheard(d)
    \/ \E b \in Booking : PaymentArrives(b) \/ HoldRunsOut(b) \/ RefundSettles(b)
    \/ \E p \in Payout : PayoutMoves(p)

-----------------------------------------------------------------------------
(* What a booking may have become since a step on it was done. *)
Since(k) == CASE k = "cancel" -> {"CANCELLED", "REFUNDED"}
              [] k = "complete" -> {"COMPLETED", "REFUNDED"}
              [] OTHER -> {"CHECKED_IN", "COMPLETED", "CANCELLED", "REFUNDED"}

ToldIsDone ==
    \A d \in Desk : desk[d].told.what = "done" =>
       LET t == desk[d].told IN
       /\ t.press \in StayButton => status[t.row] \in Since(t.press)
       /\ t.press \in SetsMoneyGoing => jobs[t.row] > 0
       /\ t.press = "adjust" => entries > 0
       /\ t.refund => t.row \in paid

MoneySetGoingOnce == \A b \in Booking : jobs[b] <= 1

StepsOfTheRightParty ==
    /\ \A b \in Booking : stepped[b] # "GUEST"
    /\ \A p \in Payout : stepped[p] \in {"ADMIN", "nobody"}

OneRuleForAdjustments ==
    \A f \in Form : LET g == Normalized(f) IN
       SchemaAccepts(g) /\ AdjustAccepts(g)
         <=> ActionAccepts(f) /\ f.reason # "long" /\ f.booking # "other"

(* However old the page, whoever is signed in by the time of the press,    *)
(* and whichever answers get lost: what a reader is told was done, is      *)
(* done, and its money on the queue ("payout queued"); a refund that was   *)
(* promised is of a payment that was made; pressing again sets no money of *)
(* a booking going a second time; no guest records arrivals or releases    *)
(* payouts; and the console refuses adjustments by the API's own rule, but *)
(* for what only the API checks.                                           *)
ConsolesKeepTheirWord ==
    ToldIsDone /\ MoneySetGoingOnce /\ StepsOfTheRightParty /\ OneRuleForAdjustments
===============================================================================
