---------------------------- MODULE ConsolesProofs ----------------------------
(***************************************************************************)
(* Why the pages that decide on bookings and payouts keep their word: the  *)
(* inductive invariant of Consoles and that every step keeps it.           *)
(***************************************************************************)
EXTENDS Consoles, TLAPS

(* Where the money of a booking has been set going, or is about to be, or  *)
(* would have been had the API not failed.                                 *)
Settled == {"CANCELLED", "COMPLETED", "REFUNDED"}

(* A button is for rows of one kind, and the form for none. *)
FitsRow(k, r) ==
    /\ k \in StayButton <=> r \in Booking
    /\ k \in PayoutButton <=> r \in Payout

(* What is so once a step is done; the queue apart. *)
Stands(k, r, refund) ==
    /\ FitsRow(k, r)
    /\ k \in StayButton => status[r] \in Since(k)
    /\ refund => r \in paid

PaidIfConfirmed == \A b \in Booking : status[b] = "CONFIRMED" => b \in paid

(* A page may be old, but what it calls confirmed was paid. *)
PageShows(d) ==
    /\ desk[d].page = "/admin/escrow" => \A b \in Booking : desk[d].shown[b] = "unlisted"
    /\ desk[d].page # "/admin/escrow" => \A p \in Payout : desk[d].shown[p] = "unlisted"
    /\ \A b \in Booking : desk[d].shown[b] = "CONFIRMED" => b \in paid

(* An action comes from somebody, on a page unless the reader left it. *)
CallIsFromPage(d) ==
    call[d].at # "none" =>
       call[d].by \in User /\ (call[d].heard => desk[d].page \in ConsolePage)

CallIsAuthorized(d) ==
    LET c == call[d] IN
    /\ FitsRow(c.press, c.row)
    /\ c.refund => c.row \in paid
    /\ c.at = "read" =>
         /\ c.row \in Booking /\ c.saw \in From(c.press)
         /\ May(c.press, ActorOn(c.row, c.by))
    /\ c.at = "owes" => c.row \in Row /\ c.press \in SetsMoneyGoing
    /\ c.at \in {"owes", "done"} => Stands(c.press, c.row, c.refund)
    /\ c.at = "done" /\ c.press \in SetsMoneyGoing => jobs[c.row] > 0
    /\ c.at = "done" /\ c.press = "adjust" => entries > 0

ToldStands(d) ==
    LET t == desk[d].told IN
    t.what = "done" =>
       /\ Stands(t.press, t.row, t.refund)
       /\ t.press \in SetsMoneyGoing => jobs[t.row] > 0
       /\ t.press = "adjust" => entries > 0

(* The money of a booking: one action owes it, or it is queued, or neither. *)
Owes(d, b) == call[d].at = "owes" /\ call[d].row = b

OwedOrQueued(b) ==
    /\ jobs[b] # 0 => jobs[b] = 1 /\ status[b] \in Settled
    /\ \A d \in Desk : Owes(d, b) =>
         /\ jobs[b] = 0 /\ status[b] \in Settled
         /\ \A e \in Desk : Owes(e, b) => e = d

ConsoleInvariant ==
    /\ ConsoleTypeOK
    /\ PaidIfConfirmed
    /\ \A d \in Desk : CallIsFromPage(d)
    /\ \A d \in Desk : PageShows(d) /\ CallIsAuthorized(d) /\ ToldStands(d)
    /\ \A b \in Booking : OwedOrQueued(b)
    /\ StepsOfTheRightParty

-----------------------------------------------------------------------------
(* Types, and what one action does to the calls and the pages. *)
CallAt == {"none", "sent", "read", "owes", "done", "failed"}
Calls == [at : CallAt, press : Button \cup {"adjust"}, row : Row \cup {NoRow},
          by : User \cup {"none"}, saw : RowStatus \cup {"unlisted"},
          refund : BOOLEAN, heard : BOOLEAN]
Shown == [Row -> RowStatus \cup {"unlisted"}]
Pages == [page : ConsolePage \cup {"closed"}, shown : Shown, told : Told]

(* The type invariant, with its records named. *)
LEMMA ConsoleTyped ==
  ASSUME ConsoleTypeOK
  PROVE  call \in [Desk -> Calls] /\ desk \in [Desk -> Pages] /\ status \in [Row -> RowStatus]
  BY DEF ConsoleTypeOK, Calls, Pages, Shown, CallAt

(* The records nothing has happened to. *)
LEMMA DeskAtRest ==
  /\ NoCall \in Calls /\ NoCall.at = "none" /\ NoCall.press = "adjust" /\ NoCall.row = NoRow
  /\ NoCall.refund = FALSE /\ NoCall.heard = TRUE
  /\ Untold \in Told /\ Reported \in Told /\ Untold.what = "nothing" /\ Reported.what = "failed"
  /\ ClosedDesk \in Pages /\ ClosedDesk.page = "closed" /\ ClosedDesk.told = Untold
  /\ \A r \in Row : ClosedDesk.shown[r] = "unlisted"
<1>1. NoCall \in Calls /\ NoCall.at = "none" /\ NoCall.press = "adjust" /\ NoCall.row = NoRow
      /\ NoCall.refund = FALSE /\ NoCall.heard = TRUE
  BY DEF NoCall, Calls, CallAt
<1>2. Untold \in Told /\ Reported \in Told /\ Untold.what = "nothing" /\ Reported.what = "failed"
  BY DEF Untold, Reported, Told
<1>3. ClosedDesk.page = "closed" /\ ClosedDesk.told = Untold
      /\ ClosedDesk.shown = [r \in Row |-> "unlisted"]
  BY DEF ClosedDesk
<1>4. [r \in Row |-> "unlisted"] \in Shown
  BY DEF Shown
<1>5. ClosedDesk \in Pages
  BY <1>2, <1>4 DEF ClosedDesk, Pages
<1> QED BY <1>1, <1>2, <1>3, <1>5

(* Another row of a table of calls, or of pages. *)
LEMMA OneCall ==
  ASSUME ConsoleTypeOK, NEW d \in Desk, NEW c \in Calls, call' = [call EXCEPT ![d] = c]
  PROVE  call' \in [Desk -> Calls] /\ call'[d] = c /\ \A e \in Desk \ {d} : call'[e] = call[e]
  BY ConsoleTyped

LEMMA OnePage ==
  ASSUME ConsoleTypeOK, NEW d \in Desk, NEW p \in Pages, desk' = [desk EXCEPT ![d] = p]
  PROVE  desk' \in [Desk -> Pages] /\ desk'[d] = p /\ \A e \in Desk \ {d} : desk'[e] = desk[e]
  BY ConsoleTyped

(* What most steps of a call leave as it was. *)
Carries(c, e) == /\ c.press = e.press /\ c.row = e.row /\ c.by = e.by
                 /\ c.refund = e.refund /\ c.heard = e.heard

(* A call moves on. *)
LEMMA CallMovesOn ==
  ASSUME ConsoleTypeOK, NEW d \in Desk, NEW a \in CallAt, call' = [call EXCEPT ![d].at = a]
  PROVE  /\ call' \in [Desk -> Calls] /\ call'[d].at = a /\ call'[d].saw = call[d].saw
         /\ Carries(call'[d], call[d]) /\ \A e \in Desk \ {d} : call'[e] = call[e]
<1>1. call[d] \in Calls
  BY ConsoleTyped
<1> DEFINE c == [call[d] EXCEPT !.at = a]
<1>2. c \in Calls /\ c.at = a /\ c.saw = call[d].saw /\ Carries(c, call[d])
  BY <1>1 DEF Calls, Carries
<1>3. call' = [call EXCEPT ![d] = c]
  OBVIOUS
<1> HIDE DEF c
<1> QED BY <1>2, <1>3, OneCall

(* A reader is told something on a page that stays. *)
LEMMA ToldMovesOn ==
  ASSUME ConsoleTypeOK, NEW d \in Desk, NEW t \in Told, desk' = [desk EXCEPT ![d].told = t]
  PROVE  /\ desk' \in [Desk -> Pages] /\ desk'[d].told = t
         /\ desk'[d].page = desk[d].page /\ desk'[d].shown = desk[d].shown
         /\ \A e \in Desk \ {d} : desk'[e] = desk[e]
<1>1. desk[d] \in Pages
  BY ConsoleTyped
<1> DEFINE p == [desk[d] EXCEPT !.told = t]
<1>2. p \in Pages /\ p.told = t /\ p.page = desk[d].page /\ p.shown = desk[d].shown
  BY <1>1 DEF Pages
<1>3. desk' = [desk EXCEPT ![d] = p]
  OBVIOUS
<1> HIDE DEF p
<1> QED BY <1>2, <1>3, OnePage

(* A page lists the rows of one kind, as they are. *)
LEMMA RenderedRows ==
  ASSUME ConsoleTypeOK, NEW p \in ConsolePage, NEW u \in User
  PROVE  /\ Rendered(p, u) \in Shown
         /\ p = "/admin/escrow" => \A b \in Booking : Rendered(p, u)[b] = "unlisted"
         /\ p # "/admin/escrow" => \A y \in Payout : Rendered(p, u)[y] = "unlisted"
         /\ \A r \in Row : Rendered(p, u)[r] \in {status[r], "unlisted"}
  BY ConsoleAssumption DEF Rendered, Shown, ConsoleTypeOK, ConsolePage, GuestRows, HostRows,
     EscrowRows, Row
-----------------------------------------------------------------------------
(* What a step does to the rows: a booking goes on along its course, and   *)
(* what was paid, queued or posted stays so.                               *)
GoesOn(s, t) ==
    \/ s = t
    \/ s = "PENDING_PAYMENT" /\ t \in {"CONFIRMED", "EXPIRED", "CANCELLED"}
    \/ s = "CONFIRMED" /\ t \in {"CHECKED_IN", "COMPLETED", "CANCELLED"}
    \/ s = "CHECKED_IN" /\ t \in {"COMPLETED", "CANCELLED"}
    \/ s \in {"COMPLETED", "CANCELLED"} /\ t = "REFUNDED"

RowsGoOn ==
    /\ \A b \in Booking : GoesOn(status[b], status'[b])
    /\ PaidIfConfirmed'
    /\ paid \subseteq paid'
    /\ \A r \in Row : jobs[r] > 0 => jobs'[r] > 0
    /\ entries > 0 => entries' > 0
    /\ StepsOfTheRightParty'

(* A step writes a row from where the transition table lets it start. *)
Writes(d, r) ==
    LET k == call[d].press IN
    /\ status[r] \in From(k)
    /\ status' = [status EXCEPT ![r] = GoesTo(k)]
    /\ call'[d].at = IF k \in SetsMoneyGoing THEN "owes" ELSE "done"
    /\ Carries(call'[d], call[d])

(* What a step may do to the call of one browser. *)
CallGoesOn(d) ==
    LET c == call[d]  n == call'[d] IN
    \/ n = c
    \/ n = NoCall
    \/ n.at = "sent" /\ \E r \in Row, k \in Button :
          /\ k \in Buttons(desk[d].page, desk[d].shown[r])
          /\ n.press = k /\ n.row = r /\ n.refund = SaysRefund(k, desk[d].shown[r])
    \/ n.at \in {"sent", "failed"} /\ n.press = "adjust" /\ n.row = NoRow /\ n.refund = FALSE
    \/ /\ n.press = c.press /\ n.row = c.row /\ n.by = c.by /\ n.refund = c.refund
       /\ \/ n.at = "failed"
          \/ n.at = c.at /\ n.saw = c.saw
          \/ c.press = "adjust" /\ n.at = "done" /\ entries' > 0
          \/ /\ n.at = "read" /\ n.row \in Booking /\ n.saw \in From(n.press)
             /\ May(n.press, ActorOn(n.row, n.by))
          \/ c.row \in Row /\ Writes(d, c.row)
          \/ c.at = "owes" /\ n.at = "done" /\ jobs'[c.row] > 0

(* What a step may do to the page of one browser. *)
PageGoesOn(d) ==
    LET p == desk[d]  n == desk'[d] IN
    \/ n = p
    \/ n = ClosedDesk
    \/ /\ n.shown = p.shown /\ n.page = p.page /\ n.told.what # "done"
    \/ /\ \E u \in User : n.page \in ConsolePage /\ n.shown = Rendered(n.page, u)
       /\ \/ n.told.what # "done"
          \/ call[d].at = "done" /\ n.told = Announced(call[d])

(* The money of the bookings: a step writes a row and owes, or pays a debt, *)
(* or does neither.                                                         *)
DebtsGoOn ==
    \/ jobs' = jobs /\ \A d \in Desk, b \in Booking : Owes(d, b)' => Owes(d, b)
    \/ /\ jobs' = jobs
       /\ \E d \in Desk : /\ call[d].row \in Row /\ Writes(d, call[d].row)
                          /\ \A e \in Desk \ {d}, b \in Booking : Owes(e, b)' => Owes(e, b)
    \/ \E d \in Desk :
          /\ call[d].at = "owes" /\ call'[d].at = "done"
          /\ jobs' = [jobs EXCEPT ![call[d].row] = IF @ = 2 THEN 2 ELSE @ + 1]
          /\ \A e \in Desk \ {d} : call'[e] = call[e]

AllGoOn ==
    /\ ConsoleTypeOK' /\ RowsGoOn /\ DebtsGoOn
    /\ \A d \in Desk : CallIsFromPage(d)'
    /\ \A d \in Desk : CallGoesOn(d) /\ PageGoesOn(d)

(* A step that leaves the rows alone and hands no call a debt. *)
LEMMA RowsRest ==
  ASSUME ConsoleInvariant, UNCHANGED <<area, status, paid, jobs, entries, stepped>>
  PROVE  RowsGoOn
  BY DEF RowsGoOn, GoesOn, ConsoleInvariant, PaidIfConfirmed, StepsOfTheRightParty

(* The type of what such a step leaves. *)
LEMMA TypeRests ==
  ASSUME ConsoleTypeOK, UNCHANGED <<area, status, paid, jobs, entries, stepped>>,
         desk' \in [Desk -> Pages], call' \in [Desk -> Calls]
  PROVE  ConsoleTypeOK'
  BY DEF ConsoleTypeOK, Calls, Pages, Shown, CallAt

(* The browsers a step is not about. *)
Elsewhere(d) == \A e \in Desk \ {d} : call'[e] = call[e] /\ desk'[e] = desk[e]

LEMMA OthersRest ==
  ASSUME NEW d \in Desk, Elsewhere(d), CallGoesOn(d), PageGoesOn(d)
  PROVE  \A e \in Desk : CallGoesOn(e) /\ PageGoesOn(e)
  BY DEF Elsewhere, CallGoesOn, PageGoesOn

(* A step between a reader and the browser. *)
LEMMA DeskSteps ==
  ASSUME ConsoleInvariant, UNCHANGED <<area, status, paid, jobs, entries, stepped>>,
         desk' \in [Desk -> Pages], call' \in [Desk -> Calls],
         NEW d \in Desk, Elsewhere(d), CallGoesOn(d), PageGoesOn(d),
         CallIsFromPage(d)',
         call'[d].at = "owes" => call[d].at = "owes" /\ call'[d].row = call[d].row
  PROVE  AllGoOn
<1>1. ConsoleTypeOK'
  BY TypeRests DEF ConsoleInvariant
<1>2. RowsGoOn
  BY RowsRest
<1>3. \A e \in Desk, b \in Booking : Owes(e, b)' => Owes(e, b)
  BY DEF Owes, Elsewhere
<1>4. DebtsGoOn
  BY <1>3 DEF DebtsGoOn
<1>5. \A e \in Desk : CallIsFromPage(e)'
  BY DEF Elsewhere, CallIsFromPage, ConsoleInvariant
<1> QED BY <1>1, <1>2, <1>4, <1>5, OthersRest DEF AllGoOn

LEMMA OpensPageGoesOn ==
  ASSUME ConsoleInvariant, NEW d \in Desk, NEW p \in ConsolePage, NEW u \in User,
         OpensPage(d, p, u)
  PROVE  AllGoOn
<1>1. ConsoleTypeOK /\ Rendered(p, u) \in Shown
  BY RenderedRows DEF ConsoleInvariant
<1> DEFINE n == [page |-> p, shown |-> Rendered(p, u), told |-> Untold]
<1>2. n \in Pages /\ n.page = p /\ n.shown = Rendered(p, u) /\ n.told.what # "done"
  BY <1>1, DeskAtRest DEF Pages
<1>3. desk' = [desk EXCEPT ![d] = n] /\ call' = call
  BY DEF OpensPage
<1> HIDE DEF n
<1>4. desk' \in [Desk -> Pages] /\ desk'[d] = n /\ Elsewhere(d)
  BY <1>1, <1>2, <1>3, OnePage DEF Elsewhere
<1>5. PageGoesOn(d)
  BY <1>2, <1>4 DEF PageGoesOn
<1>6. CallGoesOn(d) /\ call' \in [Desk -> Calls]
  BY <1>1, <1>3, ConsoleTyped DEF CallGoesOn
<1>7. UNCHANGED <<area, status, paid, jobs, entries, stepped>>
  BY DEF OpensPage
<1>8. CallIsFromPage(d)'
  BY <1>3, DeskAtRest DEF CallIsFromPage, OpensPage
<1> QED BY <1>8, <1>3, <1>4, <1>5, <1>6, <1>7, DeskSteps

LEMMA PressesGoesOn ==
  ASSUME ConsoleInvariant, NEW d \in Desk, NEW r \in Row, NEW k \in Button, NEW u \in User,
         Presses(d, r, k, u)
  PROVE  AllGoOn
<1>1. ConsoleTypeOK
  BY DEF ConsoleInvariant
<1> DEFINE says == SaysRefund(k, desk[d].shown[r])
           n == [NoCall EXCEPT !.at = "sent", !.press = k, !.row = r, !.by = u, !.refund = says]
<1>2. says \in BOOLEAN
  BY DEF SaysRefund
<1>3. n \in Calls /\ n.at = "sent" /\ n.press = k /\ n.row = r /\ n.refund = says /\ n.by = u
  BY <1>2 DEF NoCall, Calls, CallAt
<1>4. call' = [call EXCEPT ![d] = n] /\ k \in Buttons(desk[d].page, desk[d].shown[r])
  BY DEF Presses
<1> HIDE DEF n
<1>5. call' \in [Desk -> Calls] /\ call'[d] = n /\ \A e \in Desk \ {d} : call'[e] = call[e]
  BY <1>1, <1>3, <1>4, OneCall
<1>6. desk' = [desk EXCEPT ![d].told = Untold]
      /\ UNCHANGED <<area, status, paid, jobs, entries, stepped>>
  BY DEF Presses
<1>7. /\ desk' \in [Desk -> Pages] /\ desk'[d].told = Untold
      /\ desk'[d].page = desk[d].page /\ desk'[d].shown = desk[d].shown
      /\ \A e \in Desk \ {d} : desk'[e] = desk[e]
  BY <1>1, <1>6, DeskAtRest, ToldMovesOn
<1>8. CallGoesOn(d)
  BY <1>3, <1>4, <1>5 DEF CallGoesOn
<1>9. PageGoesOn(d)
  BY <1>7, DeskAtRest DEF PageGoesOn
<1>10. Elsewhere(d)
  BY <1>5, <1>7 DEF Elsewhere
<1>11. desk[d].page \in ConsolePage
  BY <1>1, ConsoleTyped DEF Presses, Pages
<1>12. CallIsFromPage(d)'
  BY <1>3, <1>5, <1>7, <1>11 DEF CallIsFromPage
<1> QED BY <1>12, <1>3, <1>5, <1>6, <1>7, <1>8, <1>9, <1>10, DeskSteps

LEMMA SubmitsFormGoesOn ==
  ASSUME ConsoleInvariant, NEW d \in Desk, NEW u \in User, SubmitsForm(d, u)
  PROVE  AllGoOn
<1>1. ConsoleTypeOK
  BY DEF ConsoleInvariant
<1>2. PICK a \in {"sent", "failed"} : call' = [call EXCEPT ![d] = [NoCall EXCEPT !.by = u, !.at = a]]
  BY DEF SubmitsForm
<1> DEFINE n == [NoCall EXCEPT !.by = u, !.at = a]
<1>3. n \in Calls /\ n.at = a /\ n.press = "adjust" /\ n.row = NoRow /\ n.refund = FALSE /\ n.by = u
  BY DEF NoCall, Calls, CallAt
<1>4. call' = [call EXCEPT ![d] = n]
  BY <1>2
<1> HIDE DEF n
<1>5. call' \in [Desk -> Calls] /\ call'[d] = n /\ \A e \in Desk \ {d} : call'[e] = call[e]
  BY <1>1, <1>3, <1>4, OneCall
<1>6. desk' = [desk EXCEPT ![d].told = Untold]
      /\ UNCHANGED <<area, status, paid, jobs, entries, stepped>>
  BY DEF SubmitsForm
<1>7. /\ desk' \in [Desk -> Pages] /\ desk'[d].told = Untold
      /\ desk'[d].page = desk[d].page /\ desk'[d].shown = desk[d].shown
      /\ \A e \in Desk \ {d} : desk'[e] = desk[e]
  BY <1>1, <1>6, DeskAtRest, ToldMovesOn
<1>8. CallGoesOn(d)
  BY <1>3, <1>5 DEF CallGoesOn
<1>9. PageGoesOn(d)
  BY <1>7, DeskAtRest DEF PageGoesOn
<1>10. Elsewhere(d)
  BY <1>5, <1>7 DEF Elsewhere
<1>11. desk[d].page \in ConsolePage
  BY <1>1, ConsoleTyped DEF SubmitsForm, Pages, ConsolePage
<1>12. CallIsFromPage(d)'
  BY <1>3, <1>5, <1>7, <1>11 DEF CallIsFromPage
<1> QED BY <1>12, <1>3, <1>5, <1>6, <1>7, <1>8, <1>9, <1>10, DeskSteps

(* A call fails, for whatever reason. *)
LEMMA FailsGoesOn ==
  ASSUME ConsoleInvariant, NEW d \in Desk, Fails(d), call[d].at # "none",
         UNCHANGED <<area, status, paid, jobs, entries, desk, stepped>>
  PROVE  AllGoOn
<1>1. ConsoleTypeOK /\ CallIsFromPage(d)
  BY DEF ConsoleInvariant
<1>2. call' = [call EXCEPT ![d].at = "failed"] /\ desk' = desk /\ call[d].at # "none"
      /\ UNCHANGED <<area, status, paid, jobs, entries, stepped>>
  BY DEF Fails
<1>3. /\ call' \in [Desk -> Calls] /\ call'[d].at = "failed" /\ Carries(call'[d], call[d])
      /\ \A e \in Desk \ {d} : call'[e] = call[e]
  BY <1>1, <1>2, CallMovesOn DEF CallAt
<1>4. Elsewhere(d) /\ desk' \in [Desk -> Pages] /\ PageGoesOn(d) /\ CallGoesOn(d)
  BY <1>1, <1>2, <1>3, ConsoleTyped DEF Elsewhere, PageGoesOn, CallGoesOn, Carries
<1>5. CallIsFromPage(d)'
  BY <1>1, <1>2, <1>3 DEF CallIsFromPage, Carries
<1> QED BY <1>2, <1>3, <1>4, <1>5, DeskSteps

LEMMA WalksOffGoesOn ==
  ASSUME ConsoleInvariant, NEW d \in Desk, WalksOff(d)
  PROVE  AllGoOn
<1>1. ConsoleTypeOK /\ CallIsFromPage(d) /\ call[d] \in Calls
  BY ConsoleTyped DEF ConsoleInvariant
<1> DEFINE n == [call[d] EXCEPT !.heard = FALSE]
<1>2. call' = [call EXCEPT ![d] = n] /\ desk' = [desk EXCEPT ![d] = ClosedDesk]
      /\ UNCHANGED <<area, status, paid, jobs, entries, stepped>>
  BY DEF WalksOff
<1>3. n \in Calls /\ n.at = call[d].at /\ n.saw = call[d].saw /\ n.press = call[d].press
      /\ n.row = call[d].row /\ n.by = call[d].by /\ n.refund = call[d].refund /\ ~n.heard
  BY <1>1 DEF Calls
<1> HIDE DEF n
<1>4. call' \in [Desk -> Calls] /\ call'[d] = n /\ \A e \in Desk \ {d} : call'[e] = call[e]
  BY <1>1, <1>2, <1>3, OneCall
<1>5. desk' \in [Desk -> Pages] /\ desk'[d] = ClosedDesk /\ \A e \in Desk \ {d} : desk'[e] = desk[e]
  BY <1>1, <1>2, DeskAtRest, OnePage
<1>6. Elsewhere(d) /\ PageGoesOn(d) /\ CallGoesOn(d)
  BY <1>3, <1>4, <1>5 DEF Elsewhere, PageGoesOn, CallGoesOn
<1>7. CallIsFromPage(d)'
  BY <1>1, <1>3, <1>4 DEF CallIsFromPage
<1> QED BY <1>2, <1>3, <1>4, <1>5, <1>6, <1>7, DeskSteps

LEMMA HearsSuccessGoesOn ==
  ASSUME ConsoleInvariant, NEW d \in Desk, HearsSuccess(d)
  PROVE  AllGoOn
<1>1. ConsoleTypeOK /\ CallIsFromPage(d) /\ call[d] \in Calls /\ desk[d] \in Pages
  BY ConsoleTyped DEF ConsoleInvariant
<1>2. call[d].at = "done" /\ call[d].by \in User /\ desk[d].page \in ConsolePage
  BY <1>1 DEF HearsSuccess, CallIsFromPage
<1> DEFINE seen == Rendered(desk[d].page, call[d].by)
           n == [desk[d] EXCEPT !.shown = seen, !.told = Announced(call[d])]
<1>3. seen \in Shown /\ Announced(call[d]) \in Told
  BY <1>1, <1>2, RenderedRows DEF Announced, Told, Calls
<1>4. desk' = [desk EXCEPT ![d] = n] /\ call' = [call EXCEPT ![d] = NoCall]
      /\ UNCHANGED <<area, status, paid, jobs, entries, stepped>>
  BY DEF HearsSuccess
<1>5. n \in Pages /\ n.page = desk[d].page /\ n.shown = seen /\ n.told = Announced(call[d])
  BY <1>1, <1>3 DEF Pages
<1> HIDE DEF n
<1>6. call' \in [Desk -> Calls] /\ call'[d] = NoCall /\ \A e \in Desk \ {d} : call'[e] = call[e]
  BY <1>1, <1>4, DeskAtRest, OneCall
<1>7. desk' \in [Desk -> Pages] /\ desk'[d] = n /\ \A e \in Desk \ {d} : desk'[e] = desk[e]
  BY <1>1, <1>4, <1>5, OnePage
<1>8. Elsewhere(d) /\ PageGoesOn(d) /\ CallGoesOn(d)
  BY <1>2, <1>5, <1>6, <1>7 DEF Elsewhere, PageGoesOn, CallGoesOn
<1>9. CallIsFromPage(d)'
  BY <1>6, DeskAtRest DEF CallIsFromPage
<1> QED BY <1>4, <1>6, <1>7, <1>8, <1>9, DeskAtRest, DeskSteps

(* The three ways to end without a success to tell. *)
LEMMA QuietEndGoesOn ==
  ASSUME ConsoleInvariant, NEW d \in Desk, RefusesAtOnce(d) \/ HearsFailure(d) \/ EndsUnheard(d)
  PROVE  AllGoOn
<1>1. ConsoleTypeOK
  BY DEF ConsoleInvariant
<1>2. UNCHANGED <<area, status, paid, jobs, entries, stepped>>
  BY DEF RefusesAtOnce, HearsFailure, EndsUnheard
<1>3. call' \in [Desk -> Calls] /\ call'[d] = NoCall /\ \A e \in Desk \ {d} : call'[e] = call[e]
  <2>1. (call' = call /\ call[d] = NoCall) \/ call' = [call EXCEPT ![d] = NoCall]
    BY DEF RefusesAtOnce, HearsFailure, EndsUnheard
  <2> QED BY <1>1, <2>1, DeskAtRest, OneCall, ConsoleTyped
<1>4. desk' = desk \/ desk' = [desk EXCEPT ![d].told = Reported]
  BY DEF RefusesAtOnce, HearsFailure, EndsUnheard
<1>5. desk' \in [Desk -> Pages] /\ PageGoesOn(d) /\ \A e \in Desk \ {d} : desk'[e] = desk[e]
  <2>1. CASE desk' = desk
    BY <1>1, <2>1, ConsoleTyped DEF PageGoesOn
  <2>2. CASE desk' = [desk EXCEPT ![d].told = Reported]
    BY <1>1, <2>2, DeskAtRest, ToldMovesOn DEF PageGoesOn
  <2> QED BY <1>4, <2>1, <2>2
<1>6. Elsewhere(d) /\ CallGoesOn(d) /\ CallIsFromPage(d)'
  BY <1>3, <1>5, DeskAtRest DEF Elsewhere, CallGoesOn, CallIsFromPage
<1> QED BY <1>2, <1>3, <1>5, <1>6, DeskAtRest, DeskSteps
(* An API that works on the call of one browser: whose it is stays. *)
LEMMA ApiCarries ==
  ASSUME ConsoleInvariant, NEW d \in Desk, call[d].at # "none", desk' = desk,
         Carries(call'[d], call[d]), \A e \in Desk \ {d} : call'[e] = call[e]
  PROVE  Elsewhere(d) /\ PageGoesOn(d) /\ \A e \in Desk : CallIsFromPage(e)'
  BY DEF Elsewhere, PageGoesOn, CallIsFromPage, Carries, ConsoleInvariant

LEMMA PostsEntryGoesOn ==
  ASSUME ConsoleInvariant, NEW d \in Desk, PostsEntry(d)
  PROVE  AllGoOn
<1>1. ConsoleTypeOK /\ entries \in 0..MaxEntries /\ MaxEntries \in Nat
  BY ConsoleAssumption DEF ConsoleInvariant, ConsoleTypeOK
<1>2. /\ call' = [call EXCEPT ![d].at = "done"] /\ call[d].at = "sent" /\ call[d].press = "adjust"
      /\ entries' = entries + 1 /\ entries < MaxEntries
      /\ UNCHANGED <<area, status, paid, jobs, desk, stepped>>
  BY DEF PostsEntry
<1>3. /\ call' \in [Desk -> Calls] /\ call'[d].at = "done" /\ Carries(call'[d], call[d])
      /\ \A e \in Desk \ {d} : call'[e] = call[e]
  BY <1>1, <1>2, CallMovesOn DEF CallAt
<1>4. entries' > 0 /\ entries' \in 0..MaxEntries
  BY <1>1, <1>2
<1>5. ConsoleTypeOK'
  BY <1>1, <1>2, <1>3, <1>4 DEF ConsoleTypeOK, Calls, CallAt
<1>6. RowsGoOn
  BY <1>2, <1>4 DEF RowsGoOn, GoesOn, ConsoleInvariant, PaidIfConfirmed, StepsOfTheRightParty
<1>7. DebtsGoOn
  <2>1. \A e \in Desk, b \in Booking : Owes(e, b)' => Owes(e, b)
    BY <1>3 DEF Owes
  <2> QED BY <1>2, <2>1 DEF DebtsGoOn
<1>8. CallGoesOn(d)
  BY <1>2, <1>3, <1>4 DEF CallGoesOn, Carries
<1>9. Elsewhere(d) /\ PageGoesOn(d) /\ \A e \in Desk : CallIsFromPage(e)'
  BY <1>2, <1>3, ApiCarries
<1> QED BY <1>5, <1>6, <1>7, <1>8, <1>9, OthersRest DEF AllGoOn

LEMMA ReadsBookingGoesOn ==
  ASSUME ConsoleInvariant, NEW d \in Desk, ReadsBooking(d)
  PROVE  AllGoOn
<1>1. /\ ConsoleTypeOK /\ call[d] \in Calls /\ call[d].at = "sent" /\ call[d].row \in Booking
      /\ UNCHANGED <<area, status, paid, jobs, entries, desk, stepped>>
  BY ConsoleTyped DEF ConsoleInvariant, ReadsBooking
<1>2. CASE Fails(d)
  BY <1>1, <1>2, FailsGoesOn
<1>3. CASE /\ May(call[d].press, ActorOn(call[d].row, call[d].by))
           /\ status[call[d].row] \in From(call[d].press)
           /\ call' = [call EXCEPT ![d].at = "read", ![d].saw = status[call[d].row]]
  <2> DEFINE now == status[call[d].row]
             n == [call[d] EXCEPT !.at = "read", !.saw = now]
  <2>1. now \in RowStatus
    BY <1>1, ConsoleTyped DEF Row
  <2>2. call' = [call EXCEPT ![d] = n]
    BY <1>1, <1>3, ConsoleTyped
  <2>3. n \in Calls /\ n.at = "read" /\ n.saw = now /\ Carries(n, call[d])
    BY <1>1, <2>1 DEF Calls, CallAt, Carries
  <2> HIDE DEF n
  <2>4. call' \in [Desk -> Calls] /\ call'[d] = n /\ \A e \in Desk \ {d} : call'[e] = call[e]
    BY <1>1, <2>2, <2>3, OneCall
  <2>5. CallGoesOn(d)
    BY <1>1, <1>3, <2>3, <2>4 DEF CallGoesOn, Carries
  <2>6. Elsewhere(d) /\ PageGoesOn(d) /\ CallIsFromPage(d)'
    BY <1>1, <2>3, <2>4, ApiCarries
  <2>7. desk' \in [Desk -> Pages]
    BY <1>1, ConsoleTyped
  <2> QED BY <1>1, <2>3, <2>4, <2>5, <2>6, <2>7, DeskSteps
<1> QED BY <1>2, <1>3 DEF ReadsBooking

(* Where the buttons lead, within the kind of their rows. *)
LEMMA ButtonsLead ==
  /\ \A k \in StayButton, s \in BookingStatus :
       s \in From(k) => GoesTo(k) \in BookingStatus /\ GoesOn(s, GoesTo(k))
  /\ \A k \in PayoutButton : GoesTo(k) \in PayoutStatus
  /\ \A k \in Button : GoesTo(k) # "CONFIRMED"
  BY DEF StayButton, PayoutButton, Button, From, GoesTo, BookingStatus, PayoutStatus, GoesOn

(* The write of a step on a booking, and of one on a payout. *)
LEMMA MovesGoesOn ==
  ASSUME ConsoleInvariant, NEW d \in Desk, NEW role \in Role, call[d].row \in Row,
         Moves(d, call[d].row, role), call[d].at # "none",
         status[call[d].row] \in From(call[d].press),
         call[d].row \in Booking /\ role = "GUEST" => call[d].press = "cancel",
         call[d].row \in Payout => role = "ADMIN",
         UNCHANGED <<area, paid, jobs, entries, desk>>
  PROVE  AllGoOn
<1> DEFINE r == call[d].row
           k == call[d].press
           a == IF k \in SetsMoneyGoing THEN "owes" ELSE "done"
<1>1. /\ ConsoleTypeOK /\ status \in [Row -> RowStatus] /\ FitsRow(k, r) /\ r \in Row /\ a \in CallAt
      /\ k \in Button
  BY ConsoleTyped DEF ConsoleInvariant, CallIsAuthorized, FitsRow, CallAt, Row, Button
<1>2. /\ status' = [status EXCEPT ![r] = GoesTo(k)] /\ call' = [call EXCEPT ![d].at = a]
      /\ stepped' = [stepped EXCEPT ![r] = IF k = "cancel" THEN @ ELSE role]
  BY DEF Moves
<1>3. /\ call' \in [Desk -> Calls] /\ call'[d].at = a /\ Carries(call'[d], call[d])
      /\ \A e \in Desk \ {d} : call'[e] = call[e]
  BY <1>1, <1>2, CallMovesOn
<1>4. /\ r \in Booking => /\ k \in StayButton /\ GoesTo(k) \in BookingStatus
                          /\ GoesOn(status[r], GoesTo(k))
      /\ r \in Payout => GoesTo(k) \in PayoutStatus
      /\ GoesTo(k) # "CONFIRMED"
  BY <1>1, ButtonsLead DEF FitsRow, ConsoleTypeOK
<1>5. \A b \in Booking : b # r => status'[b] = status[b]
  BY <1>1, <1>2 DEF Row
<1>6. ConsoleTypeOK'
  <2>1. status' \in [Row -> RowStatus] /\ (\A b \in Booking : status'[b] \in BookingStatus)
        /\ \A p \in Payout : status'[p] \in PayoutStatus
    BY <1>1, <1>2, <1>4, ConsoleAssumption DEF ConsoleTypeOK, Row, RowStatus
  <2>2. stepped' \in [Row -> Role \cup {"nobody"}]
    BY <1>1, <1>2 DEF ConsoleTypeOK
  <2> QED BY <1>1, <1>3, <2>1, <2>2 DEF ConsoleTypeOK, Calls, CallAt
<1>7. RowsGoOn
  <2>1. \A b \in Booking : GoesOn(status[b], status'[b])
    BY <1>1, <1>2, <1>4, <1>5 DEF GoesOn, Row
  <2>2. PaidIfConfirmed'
    BY <1>1, <1>2, <1>4, <1>5 DEF PaidIfConfirmed, ConsoleInvariant, Row
  <2>3. StepsOfTheRightParty'
    BY <1>1, <1>2, <1>4, ConsoleAssumption DEF StepsOfTheRightParty, ConsoleInvariant, ConsoleTypeOK,
       FitsRow, StayButton, PayoutButton, Row
  <2> QED BY <2>1, <2>2, <2>3 DEF RowsGoOn
<1>8. Writes(d, r)
  BY <1>2, <1>3 DEF Writes
<1>9. DebtsGoOn
  <2>1. \A e \in Desk \ {d}, b \in Booking : Owes(e, b)' => Owes(e, b)
    BY <1>3 DEF Owes
  <2> QED BY <1>1, <1>8, <2>1 DEF DebtsGoOn
<1>10. CallGoesOn(d)
  BY <1>1, <1>3, <1>8 DEF CallGoesOn, Carries
<1>11. Elsewhere(d) /\ PageGoesOn(d) /\ \A e \in Desk : CallIsFromPage(e)'
  BY <1>3, ApiCarries
<1> QED BY <1>6, <1>7, <1>9, <1>10, <1>11, OthersRest DEF AllGoOn
LEMMA WritesBookingGoesOn ==
  ASSUME ConsoleInvariant, NEW d \in Desk, WritesBooking(d)
  PROVE  AllGoOn
<1>1. /\ call[d].at = "read" /\ call[d].row \in Booking /\ call[d].saw \in From(call[d].press)
      /\ May(call[d].press, ActorOn(call[d].row, call[d].by))
      /\ UNCHANGED <<area, paid, jobs, entries, desk>>
  BY DEF WritesBooking, ConsoleInvariant, CallIsAuthorized
<1>2. CASE Fails(d) /\ UNCHANGED <<status, stepped>>
  BY <1>1, <1>2, FailsGoesOn
<1>3. CASE /\ Unchanged(call[d].row, call[d].saw)
           /\ Moves(d, call[d].row, ActorOn(call[d].row, call[d].by))
  <2>1. PICK role : role = ActorOn(call[d].row, call[d].by)
    OBVIOUS
  <2>2. role \in Role /\ (role = "GUEST" => call[d].press = "cancel")
    BY <1>1, <2>1 DEF May, ActorOn, Role
  <2>3. Moves(d, call[d].row, role) /\ status[call[d].row] \in From(call[d].press)
    BY <1>1, <1>3, <2>1 DEF Unchanged
  <2> QED BY <1>1, <2>2, <2>3, MovesGoesOn, ConsoleAssumption DEF Row
<1> QED BY <1>2, <1>3 DEF WritesBooking

LEMMA MovesPayoutGoesOn ==
  ASSUME ConsoleInvariant, NEW d \in Desk, MovesPayout(d)
  PROVE  AllGoOn
<1>1. /\ call[d].at = "sent" /\ call[d].row \in Payout
      /\ UNCHANGED <<area, paid, jobs, entries, desk>>
  BY DEF MovesPayout
<1>2. CASE Fails(d) /\ UNCHANGED <<status, stepped>>
  BY <1>1, <1>2, FailsGoesOn
<1>3. CASE status[call[d].row] \in From(call[d].press) /\ Moves(d, call[d].row, "ADMIN")
  BY <1>1, <1>3, MovesGoesOn, ConsoleAssumption DEF Row, Role
<1> QED BY <1>2, <1>3 DEF MovesPayout

LEMMA QueuesMoneyGoesOn ==
  ASSUME ConsoleInvariant, NEW d \in Desk, QueuesMoney(d)
  PROVE  AllGoOn
<1>1. PICK r : r = call[d].row
  OBVIOUS
<1>2. /\ ConsoleTypeOK /\ r \in Row /\ call[d].at = "owes"
      /\ jobs' = [jobs EXCEPT ![r] = IF @ = 2 THEN 2 ELSE @ + 1]
      /\ call' = [call EXCEPT ![d].at = "done"]
      /\ UNCHANGED <<area, status, paid, entries, desk, stepped>>
  BY <1>1 DEF QueuesMoney, ConsoleInvariant, CallIsAuthorized
<1>3. jobs \in [Row -> 0..2] /\ jobs' \in [Row -> 0..2] /\ jobs'[r] > 0
      /\ \A q \in Row : jobs[q] > 0 => jobs'[q] > 0
  <2>1. jobs \in [Row -> 0..2]
    BY <1>2 DEF ConsoleTypeOK
  <2> QED BY <1>2, <2>1
<1>4. /\ call' \in [Desk -> Calls] /\ call'[d].at = "done" /\ Carries(call'[d], call[d])
      /\ \A e \in Desk \ {d} : call'[e] = call[e]
  BY <1>2, CallMovesOn DEF CallAt
<1>5. ConsoleTypeOK'
  BY <1>2, <1>3, <1>4 DEF ConsoleTypeOK, Calls, CallAt
<1>6. RowsGoOn
  BY <1>2, <1>3 DEF RowsGoOn, GoesOn, ConsoleInvariant, PaidIfConfirmed, StepsOfTheRightParty
<1>7. DebtsGoOn
  BY <1>1, <1>2, <1>4 DEF DebtsGoOn
<1>8. CallGoesOn(d)
  BY <1>1, <1>2, <1>3, <1>4 DEF CallGoesOn, Carries
<1>9. Elsewhere(d) /\ PageGoesOn(d) /\ \A e \in Desk : CallIsFromPage(e)'
  BY <1>2, <1>4, ApiCarries
<1> QED BY <1>5, <1>6, <1>7, <1>8, <1>9, OthersRest DEF AllGoOn

(* What moves the rows from elsewhere. *)
LEMMA OtherwiseGoesOn ==
  ASSUME ConsoleInvariant,
         \/ \E b \in Booking : PaymentArrives(b) \/ HoldRunsOut(b) \/ RefundSettles(b)
         \/ \E p \in Payout : PayoutMoves(p)
  PROVE  AllGoOn
<1>1. /\ ConsoleTypeOK /\ status \in [Row -> RowStatus]
      /\ UNCHANGED <<area, jobs, entries, desk, call, stepped>>
  BY ConsoleTyped DEF ConsoleInvariant, PaymentArrives, HoldRunsOut, RefundSettles, PayoutMoves,
     Otherwise
<1> DEFINE Fine ==
        /\ status' \in [Row -> RowStatus] /\ (\A b \in Booking : status'[b] \in BookingStatus)
        /\ (\A p \in Payout : status'[p] \in PayoutStatus)
        /\ paid \subseteq paid' /\ paid' \subseteq Booking
        /\ \A b \in Booking : /\ GoesOn(status[b], status'[b])
                              /\ status'[b] = "CONFIRMED" => b \in paid'
<1>2. Fine
  <2>1. ASSUME NEW b \in Booking, NEW from, NEW to \in BookingStatus, Otherwise(b, from, to),
               paid' = (IF to = "CONFIRMED" THEN paid \cup {b} ELSE paid),
               \A s \in from : GoesOn(s, to)
        PROVE Fine
    BY <1>1, <2>1, ConsoleAssumption DEF Otherwise, ConsoleTypeOK, Row, RowStatus, GoesOn,
       ConsoleInvariant, PaidIfConfirmed
  <2>2. ASSUME NEW p \in Payout, NEW from, NEW to \in PayoutStatus, Otherwise(p, from, to),
               paid' = paid
        PROVE Fine
    BY <1>1, <2>2, ConsoleAssumption DEF Otherwise, ConsoleTypeOK, Row, RowStatus, GoesOn,
       ConsoleInvariant, PaidIfConfirmed
  <2>3. ASSUME NEW b \in Booking, PaymentArrives(b) \/ HoldRunsOut(b) \/ RefundSettles(b)
        PROVE Fine
    BY <2>1, <2>3 DEF PaymentArrives, HoldRunsOut, RefundSettles, GoesOn, BookingStatus
  <2>4. ASSUME NEW p \in Payout, PayoutMoves(p)
        PROVE Fine
    BY <2>2, <2>4 DEF PayoutMoves, PayoutStatus
  <2> QED BY <2>3, <2>4
<1>3. ConsoleTypeOK'
  BY <1>1, <1>2 DEF ConsoleTypeOK
<1>4. RowsGoOn
  BY <1>1, <1>2 DEF RowsGoOn, PaidIfConfirmed, StepsOfTheRightParty, ConsoleInvariant
<1>5. DebtsGoOn
  BY <1>1 DEF DebtsGoOn, Owes
<1>6. \A d \in Desk : CallGoesOn(d) /\ PageGoesOn(d) /\ CallIsFromPage(d)'
  BY <1>1 DEF CallGoesOn, PageGoesOn, CallIsFromPage, ConsoleInvariant
<1> QED BY <1>3, <1>4, <1>5, <1>6 DEF AllGoOn

(* Every step goes on like that. *)
LEMMA ConsoleGoesOn ==
  ASSUME ConsoleInvariant, ConsoleNext
  PROVE  AllGoOn
<1>1. ASSUME NEW d \in Desk, NEW u \in User,
             \/ \E p \in ConsolePage : OpensPage(d, p, u)
             \/ \E r \in Row, k \in Button : Presses(d, r, k, u)
             \/ SubmitsForm(d, u)
      PROVE  AllGoOn
  BY <1>1, OpensPageGoesOn, PressesGoesOn, SubmitsFormGoesOn
<1>2. ASSUME NEW d \in Desk, CallFails(d)
      PROVE  AllGoOn
  <2>1. call[d].at # "none"
    BY <1>2 DEF CallFails
  <2> QED BY <1>2, <2>1, FailsGoesOn DEF CallFails
<1>3. ASSUME NEW d \in Desk,
             \/ PostsEntry(d) \/ ReadsBooking(d) \/ WritesBooking(d) \/ MovesPayout(d)
             \/ QueuesMoney(d)
      PROVE  AllGoOn
  BY <1>3, PostsEntryGoesOn, ReadsBookingGoesOn, WritesBookingGoesOn, MovesPayoutGoesOn,
     QueuesMoneyGoesOn
<1>4. ASSUME NEW d \in Desk,
             RefusesAtOnce(d) \/ WalksOff(d) \/ HearsSuccess(d) \/ HearsFailure(d) \/ EndsUnheard(d)
      PROVE  AllGoOn
  BY <1>4, QuietEndGoesOn, WalksOffGoesOn, HearsSuccessGoesOn
<1> QED BY <1>1, <1>2, <1>3, <1>4, OtherwiseGoesOn DEF ConsoleNext
-----------------------------------------------------------------------------
(* Each part of the invariant outlives such a step. *)

(* A booking that goes on keeps what was done to it. *)
LEMMA SinceLasts ==
  ASSUME NEW k \in StayButton, NEW s, NEW t, s \in Since(k), GoesOn(s, t)
  PROVE  t \in Since(k)
  BY DEF StayButton, Since, GoesOn

LEMMA StandsOn ==
  ASSUME RowsGoOn, NEW k, NEW r, NEW refund, Stands(k, r, refund)
  PROVE  Stands(k, r, refund)'
<1>1. k \in StayButton => status'[r] \in Since(k)
  BY SinceLasts DEF RowsGoOn, Stands, FitsRow
<1> QED BY <1>1 DEF RowsGoOn, Stands, FitsRow

LEMMA PageStep ==
  ASSUME ConsoleInvariant, AllGoOn, NEW d \in Desk
  PROVE  PageShows(d)'
<1>1. /\ PageShows(d) /\ PageGoesOn(d) /\ paid \subseteq paid' /\ ConsoleTypeOK /\ PaidIfConfirmed
      /\ desk[d] \in Pages
  BY ConsoleTyped DEF ConsoleInvariant, AllGoOn, RowsGoOn
<1>2. CASE desk'[d].shown = desk[d].shown /\ desk'[d].page = desk[d].page
  BY <1>1, <1>2 DEF PageShows
<1>3. CASE desk'[d] = ClosedDesk
  BY <1>1, <1>3, DeskAtRest DEF PageShows, Row
<1>4. ASSUME NEW u \in User, NEW p \in ConsolePage, desk'[d].page = p,
             desk'[d].shown = Rendered(p, u)
      PROVE  PageShows(d)'
  BY <1>1, <1>4, RenderedRows DEF PageShows, PaidIfConfirmed, Row
<1> QED BY <1>1, <1>2, <1>3, <1>4 DEF PageGoesOn

(* A button that is offered fits its row, and one that promises a refund   *)
(* is of a booking that was paid.                                          *)
LEMMA OfferedFits ==
  ASSUME ConsoleInvariant, NEW d \in Desk, NEW r \in Row, NEW k \in Button,
         k \in Buttons(desk[d].page, desk[d].shown[r])
  PROVE  FitsRow(k, r) /\ (SaysRefund(k, desk[d].shown[r]) => r \in paid)
<1>1. PageShows(d) /\ desk[d] \in Pages
  BY ConsoleTyped DEF ConsoleInvariant
<1>2. /\ desk[d].shown[r] # "unlisted"
      /\ desk[d].page = "/admin/escrow" => k \in PayoutButton
      /\ desk[d].page # "/admin/escrow" => k \in StayButton
  BY DEF Buttons, GuestButtons, HostButtons, PayoutControls, StayButton
<1>3. FitsRow(k, r)
  BY <1>1, <1>2, ConsoleAssumption DEF PageShows, FitsRow, Row, StayButton, PayoutButton
<1>4. k = "cancel" => r \in Booking
  BY <1>3 DEF FitsRow, StayButton
<1> QED BY <1>1, <1>3, <1>4 DEF SaysRefund, PageShows

LEMMA NothingFits == FitsRow("adjust", NoRow) /\ FitsRow(NoCall.press, NoCall.row)
  BY DeskAtRest, ConsoleAssumption DEF FitsRow, StayButton, PayoutButton

LEMMA CallStep ==
  ASSUME ConsoleInvariant, AllGoOn, NEW d \in Desk
  PROVE  CallIsAuthorized(d)'
<1>1. /\ CallIsAuthorized(d) /\ CallGoesOn(d) /\ RowsGoOn /\ ConsoleTypeOK /\ call[d] \in Calls
      /\ paid \subseteq paid'
  BY ConsoleTyped DEF ConsoleInvariant, AllGoOn, RowsGoOn
<1> DEFINE c == call[d]
           n == call'[d]
<1>7. PICK k, r, f : k = n.press /\ r = n.row /\ f = n.refund
  OBVIOUS
<1>2. ASSUME n.press = c.press, n.row = c.row, n.by = c.by, n.refund = c.refund,
             n.at = c.at, n.saw = c.saw
      PROVE  CallIsAuthorized(d)'
  <2>1. c.at \in {"owes", "done"} => Stands(k, r, f)'
    BY <1>1, <1>2, <1>7, StandsOn DEF CallIsAuthorized
  <2>2. c.at = "done" /\ c.press \in SetsMoneyGoing => c.row \in Row
    BY <1>1 DEF CallIsAuthorized, SetsMoneyGoing, FitsRow, StayButton, PayoutButton, Row
  <2> QED BY <1>1, <1>2, <1>7, <2>1, <2>2 DEF CallIsAuthorized, RowsGoOn, Stands, FitsRow
<1>3. CASE n = NoCall
  BY <1>3, DeskAtRest, NothingFits DEF CallIsAuthorized
<1>4. ASSUME n.at = "sent", NEW b \in Row, NEW m \in Button,
             m \in Buttons(desk[d].page, desk[d].shown[b]),
             n.press = m, n.row = b, n.refund = SaysRefund(m, desk[d].shown[b])
      PROVE  CallIsAuthorized(d)'
  BY <1>1, <1>4, OfferedFits DEF CallIsAuthorized
<1>5. CASE n.at \in {"sent", "failed"} /\ n.press = "adjust" /\ n.row = NoRow /\ n.refund = FALSE
  BY <1>5, NothingFits DEF CallIsAuthorized
<1>6. CASE /\ n.press = c.press /\ n.row = c.row /\ n.by = c.by /\ n.refund = c.refund
           /\ \/ n.at = "failed"
              \/ n.at = c.at /\ n.saw = c.saw
              \/ c.press = "adjust" /\ n.at = "done" /\ entries' > 0
              \/ /\ n.at = "read" /\ n.row \in Booking /\ n.saw \in From(n.press)
                 /\ May(n.press, ActorOn(n.row, n.by))
              \/ c.row \in Row /\ Writes(d, c.row)
              \/ c.at = "owes" /\ n.at = "done" /\ jobs'[c.row] > 0
  <2>1. FitsRow(n.press, n.row) /\ (n.refund => n.row \in paid')
    BY <1>1, <1>6 DEF CallIsAuthorized
  <2>2. CASE n.at = "failed"
    BY <2>1, <2>2 DEF CallIsAuthorized
  <2>3. CASE n.at = c.at /\ n.saw = c.saw
    BY <1>2, <1>6, <2>3
  <2>4. CASE c.press = "adjust" /\ n.at = "done" /\ entries' > 0
    BY <1>6, <2>1, <2>4 DEF CallIsAuthorized, Stands, FitsRow, StayButton, SetsMoneyGoing
  <2>5. CASE /\ n.at = "read" /\ n.row \in Booking /\ n.saw \in From(n.press)
             /\ May(n.press, ActorOn(n.row, n.by))
    BY <2>1, <2>5 DEF CallIsAuthorized
  <2>6. CASE c.row \in Row /\ Writes(d, c.row)
    <3>1. status'[c.row] = GoesTo(c.press)
      BY <1>1, <2>6, ConsoleTyped DEF Writes
    <3>2. n.at = IF c.press \in SetsMoneyGoing THEN "owes" ELSE "done"
      BY <2>6 DEF Writes
    <3>3. c.press \in StayButton => GoesTo(c.press) \in Since(c.press)
      BY DEF StayButton, GoesTo, Since
    <3>4. c.press # "adjust"
      BY <1>6, <2>1, <2>6 DEF FitsRow, Row, StayButton, PayoutButton
    <3>5. Stands(k, r, f)'
      BY <1>6, <1>7, <2>1, <3>1, <3>3 DEF Stands, FitsRow
    <3> QED BY <1>6, <1>7, <2>1, <2>6, <3>2, <3>4, <3>5 DEF CallIsAuthorized, Stands, FitsRow
  <2>7. CASE c.at = "owes" /\ n.at = "done" /\ jobs'[c.row] > 0
    <3>1. Stands(k, r, f)' /\ c.press \in SetsMoneyGoing
      BY <1>1, <1>6, <1>7, <2>7, StandsOn DEF CallIsAuthorized
    <3> QED BY <1>6, <1>7, <2>1, <2>7, <3>1 DEF CallIsAuthorized, SetsMoneyGoing, Stands, FitsRow
  <2> QED BY <1>6, <2>2, <2>3, <2>4, <2>5, <2>6, <2>7
<1> QED BY <1>1, <1>2, <1>3, <1>4, <1>5, <1>6 DEF CallGoesOn
LEMMA ToldStep ==
  ASSUME ConsoleInvariant, AllGoOn, NEW d \in Desk
  PROVE  ToldStands(d)'
<1>1. /\ ToldStands(d) /\ PageGoesOn(d) /\ RowsGoOn /\ CallIsAuthorized(d)
      /\ call[d] \in Calls /\ desk[d] \in Pages
  BY ConsoleTyped DEF ConsoleInvariant, AllGoOn
<1>2. PICK k, r, f : k = desk'[d].told.press /\ r = desk'[d].told.row /\ f = desk'[d].told.refund
  OBVIOUS
<1>3. \A m \in SetsMoneyGoing : \A q : FitsRow(m, q) => q \in Row
  BY DEF SetsMoneyGoing, FitsRow, StayButton, PayoutButton, Row
<1>4. CASE desk'[d].told.what # "done"
  BY <1>4 DEF ToldStands
<1>5. CASE desk'[d].told = desk[d].told /\ desk'[d].told.what = "done"
  <2>1. Stands(k, r, f) /\ (k \in SetsMoneyGoing => jobs[r] > 0) /\ (k = "adjust" => entries > 0)
    BY <1>1, <1>2, <1>5 DEF ToldStands
  <2>2. Stands(k, r, f)' /\ (k \in SetsMoneyGoing => jobs'[r] > 0) /\ (k = "adjust" => entries' > 0)
    BY <1>1, <1>3, <2>1, StandsOn DEF RowsGoOn, Stands
  <2> QED BY <1>2, <2>2 DEF ToldStands, Stands, FitsRow
<1>6. CASE call[d].at = "done" /\ desk'[d].told = Announced(call[d])
  <2>1. k = call[d].press /\ r = call[d].row /\ f = call[d].refund
    BY <1>2, <1>6 DEF Announced
  <2>2. Stands(k, r, f) /\ (k \in SetsMoneyGoing => jobs[r] > 0) /\ (k = "adjust" => entries > 0)
    BY <1>1, <1>6, <2>1 DEF CallIsAuthorized
  <2>3. Stands(k, r, f)' /\ (k \in SetsMoneyGoing => jobs'[r] > 0) /\ (k = "adjust" => entries' > 0)
    BY <1>1, <1>3, <2>2, StandsOn DEF RowsGoOn, Stands
  <2> QED BY <1>2, <2>3 DEF ToldStands, Stands, FitsRow
<1> QED BY <1>1, <1>4, <1>5, <1>6, DeskAtRest DEF PageGoesOn

(* A row that may be written has not been settled. *)
LEMMA WritesSettles ==
  ASSUME NEW k \in StayButton, NEW s \in From(k)
  PROVE  s \notin Settled /\ (k \in SetsMoneyGoing => GoesTo(k) \in Settled)
  BY DEF StayButton, From, GoesTo, Settled, SetsMoneyGoing

LEMMA DebtStep ==
  ASSUME ConsoleInvariant, AllGoOn, NEW b \in Booking
  PROVE  OwedOrQueued(b)'
<1>1. /\ OwedOrQueued(b) /\ RowsGoOn /\ DebtsGoOn /\ ConsoleTypeOK /\ b \in Row
      /\ \A d \in Desk : CallIsAuthorized(d)
      /\ status \in [Row -> RowStatus] /\ jobs \in [Row -> 0..2]
  BY ConsoleTyped DEF ConsoleInvariant, AllGoOn, ConsoleTypeOK, Row
<1>2. status[b] \in Settled => status'[b] \in Settled
  BY <1>1 DEF RowsGoOn, GoesOn, Settled
<1>3. CASE jobs' = jobs /\ \A d \in Desk : Owes(d, b)' => Owes(d, b)
  BY <1>1, <1>2, <1>3 DEF OwedOrQueued
<1>4. ASSUME jobs' = jobs, NEW d \in Desk, call[d].row \in Row, Writes(d, call[d].row),
             \A e \in Desk \ {d} : Owes(e, b)' => Owes(e, b)
      PROVE  OwedOrQueued(b)'
  <2>1. CASE call[d].row # b
    <3>1. ~Owes(d, b)'
      BY <1>4, <2>1 DEF Owes, Writes, Carries
    <3> QED BY <1>3, <1>4, <3>1
  <2>2. CASE call[d].row = b
    <3>1. call[d].press \in StayButton /\ status[b] \in From(call[d].press)
      BY <1>1, <1>4, <2>2 DEF CallIsAuthorized, FitsRow, Writes
    <3>2. status[b] \notin Settled
      BY <3>1, WritesSettles
    <3>3. jobs[b] = 0 /\ \A e \in Desk : ~Owes(e, b)
      BY <1>1, <3>2 DEF OwedOrQueued
    <3>4. status'[b] = GoesTo(call[d].press)
      BY <1>1, <1>4, <2>2 DEF Writes
    <3>5. Owes(d, b)' => status'[b] \in Settled
      BY <1>4, <3>1, <3>4, WritesSettles DEF Owes, Writes
    <3> QED BY <1>4, <3>3, <3>5 DEF OwedOrQueued
  <2> QED BY <2>1, <2>2
<1>5. ASSUME NEW d \in Desk, call[d].at = "owes", call'[d].at = "done",
             jobs' = [jobs EXCEPT ![call[d].row] = IF @ = 2 THEN 2 ELSE @ + 1],
             \A e \in Desk \ {d} : call'[e] = call[e]
      PROVE  OwedOrQueued(b)'
  <2>1. \A e \in Desk : Owes(e, b)' => Owes(e, b) /\ e # d
    BY <1>5 DEF Owes
  <2>2. CASE call[d].row # b
    <3>1. jobs'[b] = jobs[b]
      BY <1>1, <1>5, <2>2
    <3> QED BY <1>1, <1>2, <2>1, <3>1 DEF OwedOrQueued
  <2>3. CASE call[d].row = b
    <3>1. Owes(d, b) /\ jobs[b] = 0 /\ status[b] \in Settled /\ \A e \in Desk : Owes(e, b) => e = d
      BY <1>1, <1>5, <2>3 DEF OwedOrQueued, Owes
    <3>2. jobs'[b] = 1
      BY <1>1, <1>5, <2>3, <3>1
    <3> QED BY <1>2, <2>1, <3>1, <3>2 DEF OwedOrQueued
  <2> QED BY <2>2, <2>3
<1> QED BY <1>1, <1>3, <1>4, <1>5 DEF DebtsGoOn

(* So the whole of it is inductive. *)
LEMMA ConsoleStep ==
  ASSUME ConsoleInvariant, [ConsoleNext]_consoleVars
  PROVE  ConsoleInvariant'
<1>1. CASE ConsoleNext
  <2>1. AllGoOn
    BY <1>1, ConsoleGoesOn
  <2> QED BY <2>1, PageStep, CallStep, ToldStep, DebtStep DEF ConsoleInvariant, AllGoOn, RowsGoOn
<1>2. CASE UNCHANGED consoleVars
  BY <1>2 DEF consoleVars, ConsoleInvariant, ConsoleTypeOK, PaidIfConfirmed, CallIsFromPage, PageShows,
     CallIsAuthorized, ToldStands, Stands, OwedOrQueued, Owes, StepsOfTheRightParty
<1> QED BY <1>1, <1>2

LEMMA ConsoleStarts ==
  ASSUME NEW areas \in SUBSET {"stays", "money"}, ConsoleInit(areas)
  PROVE  ConsoleInvariant
<1>1. ConsoleTypeOK
  BY DeskAtRest, ConsoleAssumption
     DEF ConsoleInit, ConsoleTypeOK, Row, RowStatus, BookingStatus, PayoutStatus, Pages, Shown, Calls, CallAt
<1>2. \A d \in Desk : desk[d] = ClosedDesk /\ call[d] = NoCall
  BY DEF ConsoleInit
<1>3. \A d \in Desk : CallIsFromPage(d) /\ PageShows(d) /\ CallIsAuthorized(d) /\ ToldStands(d)
  BY <1>2, DeskAtRest, NothingFits DEF CallIsFromPage, PageShows, CallIsAuthorized, ToldStands, Row
<1>4. PaidIfConfirmed /\ StepsOfTheRightParty /\ \A b \in Booking : OwedOrQueued(b)
  BY <1>2, DeskAtRest, ConsoleAssumption
     DEF ConsoleInit, PaidIfConfirmed, StepsOfTheRightParty, OwedOrQueued, Owes, Row
<1> QED BY <1>1, <1>3, <1>4 DEF ConsoleInvariant

(* The three places that judge an adjustment differ where they say so.     *)
LEMMA AdjustmentsAgree == OneRuleForAdjustments
<1> SUFFICES ASSUME NEW f \in Form
             PROVE  LET g == Normalized(f) IN
                    SchemaAccepts(g) /\ AdjustAccepts(g)
                      <=> ActionAccepts(f) /\ f.reason # "long" /\ f.booking # "other"
  BY DEF OneRuleForAdjustments
<1>1. /\ f.currency \in {"code", "lower", "other"} /\ f.reason \in {"short", "fit", "long"}
      /\ f.booking \in {"none", "uuid", "other"}
  BY DEF Form
<1> DEFINE g == Normalized(f)
<1>2. /\ g.from = f.from /\ g.to = f.to /\ g.amount = f.amount /\ g.reason = f.reason
      /\ g.booking = f.booking /\ g.currency = IF f.currency = "lower" THEN "code" ELSE f.currency
  BY DEF Normalized, Form
<1> QED BY <1>1, <1>2 DEF SchemaAccepts, AdjustAccepts, ActionAccepts

(* What the invariant promises. *)
LEMMA ConsolesPromise == ASSUME ConsoleInvariant PROVE ConsolesKeepTheirWord
<1>1. ToldIsDone
  BY DEF ToldIsDone, ConsoleInvariant, ToldStands, Stands
<1>2. MoneySetGoingOnce
  <2> SUFFICES ASSUME NEW b \in Booking PROVE jobs[b] <= 1
    BY DEF MoneySetGoingOnce
  <2>1. jobs[b] = 0 \/ jobs[b] = 1
    BY DEF ConsoleInvariant, OwedOrQueued
  <2> QED BY <2>1
<1>3. StepsOfTheRightParty
  BY DEF ConsoleInvariant
<1> QED BY <1>1, <1>2, <1>3, AdjustmentsAgree DEF ConsolesKeepTheirWord
===============================================================================
