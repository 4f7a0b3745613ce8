----------------------------- MODULE GuestCheckout -----------------------------
(***************************************************************************)
(* A guest holds a unit, pays and is told how it went.  On the phone a     *)
(* controller with asynchronous handlers and a watcher that re-reads the   *)
(* booking; on the site a chain of pages, each rendering what it read.     *)
(* Capture and expiry happen behind both.                                  *)
(***************************************************************************)
EXTENDS Naturals, FiniteSets

CONSTANTS
    Hold,     \* the bookings of this guest, one after the other
    Tap,      \* presses of the pay button whose handler has not returned
    NoHold

ASSUME CheckoutAssumption == NoHold \notin Hold

VARIABLES
    checkout,  \* "app" or "site"
    booked,    \* the bookings table: status of each hold
    captured,  \* holds with a captured payment
    screen,    \* HoldFlowState; on the site, the page
    watch,     \* the phone's watcher
    tap        \* the startPayment handlers of the phone, payAction of the site

checkoutVars == <<checkout, booked, captured, screen, watch, tap>>

At == {"idle", "placing", "active", "confirmed", "expired", "failed",
       "card", "returning", "processing"}
WatchStep == {"off", "fetching", "read", "waiting"}

CheckoutTypeOK ==
    /\ checkout \in {"app", "site"}
    /\ booked \in [Hold -> {"none", "pending", "confirmed", "expired"}]
    /\ captured \subseteq Hold
    /\ screen \in [at : At, hold : Hold \cup {NoHold}, paying : BOOLEAN]
    /\ watch \in [step : WatchStep, hold : Hold \cup {NoHold},
                  saw : {"none", "pending", "confirmed", "expired"}]
    /\ tap \in [Tap -> [step : {"idle", "initiating", "gateway"}, hold : Hold \cup {NoHold}]]

Idle == [at |-> "idle", hold |-> NoHold, paying |-> FALSE]
Off == [step |-> "off", hold |-> NoHold, saw |-> "none"]
Returned == [step |-> "idle", hold |-> NoHold]

CheckoutInit(clients) ==
    /\ checkout \in clients
    /\ booked = [h \in Hold |-> "none"] /\ captured = {}
    /\ screen = Idle /\ watch = Off
    /\ tap = [t \in Tap |-> Returned]

Shows(at, h) == screen' = [at |-> at, hold |-> h, paying |-> FALSE]
Watching(step, h, saw) == watch' = [step |-> step, hold |-> h, saw |-> saw]
TapGoes(t, step, h) == tap' = [tap EXCEPT ![t] = [step |-> step, hold |-> h]]
OnPhone == checkout = "app"

-----------------------------------------------------------------------------
(* What happens behind the client. *)

(* The capture webhook; a hold that lapsed meanwhile is refunded instead.  *)
WebhookConfirms(h) ==
    /\ h \in captured /\ booked[h] = "pending"
    /\ booked' = [booked EXCEPT ![h] = "confirmed"]
    /\ UNCHANGED <<checkout, captured, screen, watch, tap>>

HoldLapses(h) ==
    /\ booked[h] = "pending"
    /\ booked' = [booked EXCEPT ![h] = "expired"]
    /\ UNCHANGED <<checkout, captured, screen, watch, tap>>

-----------------------------------------------------------------------------
(* Placing the hold. *)

PressHold(h) ==
    /\ screen.at = "idle"
    /\ booked[h] = "none"
    /\ Shows("placing", h)
    /\ UNCHANGED <<checkout, booked, captured, watch, tap>>

(* The phone starts watching with the first frame that shows the hold; the *)
(* site redirects to the pay page.                                         *)
HoldPlaced ==
    /\ screen.at = "placing"
    /\ booked' = [booked EXCEPT ![screen.hold] = "pending"]
    /\ Shows("active", screen.hold)
    /\ IF OnPhone THEN Watching("fetching", screen.hold, "none") ELSE UNCHANGED watch
    /\ UNCHANGED <<checkout, captured, tap>>

(* Refused, or placed and the answer lost.                                 *)
HoldNotAnswered ==
    /\ screen.at = "placing"
    /\ \/ UNCHANGED booked
       \/ booked' = [booked EXCEPT ![screen.hold] = "pending"]
    /\ IF OnPhone THEN Shows("failed", screen.hold) ELSE screen' = Idle
    /\ UNCHANGED <<checkout, captured, watch, tap>>

-----------------------------------------------------------------------------
(* Paying.  A handler of the phone writes the screen when its call answers,*)
(* whatever the screen has become since.                                   *)

PressPay(t) ==
    /\ screen.at = "active" /\ ~screen.paying
    /\ tap[t].step = "idle"
    /\ OnPhone \/ \A u \in Tap : tap[u].step = "idle"
    /\ TapGoes(t, "initiating", screen.hold)
    /\ UNCHANGED <<checkout, booked, captured, screen, watch>>

PaymentInitiated(t) ==
    /\ tap[t].step = "initiating"
    /\ booked[tap[t].hold] = "pending"
    /\ TapGoes(t, "gateway", tap[t].hold)
    /\ IF OnPhone
       THEN screen' = [at |-> "active", hold |-> tap[t].hold, paying |-> TRUE]
       ELSE UNCHANGED screen
    /\ UNCHANGED <<checkout, booked, captured, watch>>

(* HOLD_EXPIRED has a screen of its own; the site stays where it is and    *)
(* shows the message.                                                      *)
InitiateRefused(t) ==
    /\ tap[t].step = "initiating"
    /\ TapGoes(t, "idle", NoHold)
    /\ \/ ~OnPhone /\ UNCHANGED screen
       \/ OnPhone /\ booked[tap[t].hold] = "expired" /\ Shows("expired", tap[t].hold)
       \/ OnPhone /\ Shows("failed", tap[t].hold)
    /\ UNCHANGED <<checkout, booked, captured, watch>>

(* Mutant: submitting the payment is taken for its confirmation. *)
SubmittedIsConfirmed(h) == Shows("confirmed", h)

(* PaymentSubmitted: the phone leaves the screen to the watcher.           *)
Submitted(h) == UNCHANGED screen

(* simulateCapture, or the provider's own page: the money moves.           *)
PaymentMade(t) ==
    /\ tap[t].step = "gateway"
    /\ captured' = captured \cup {tap[t].hold}
    /\ TapGoes(t, "idle", NoHold)
    /\ IF OnPhone THEN Submitted(tap[t].hold) ELSE Shows("returning", tap[t].hold)
    /\ UNCHANGED <<checkout, booked, watch>>

(* Not configured, cancelled, or the capture call failed.                  *)
PaymentNotMade(t) ==
    /\ tap[t].step = "gateway"
    /\ TapGoes(t, "idle", NoHold)
    /\ IF OnPhone THEN Shows("failed", tap[t].hold) ELSE UNCHANGED screen
    /\ UNCHANGED <<checkout, booked, captured, watch>>

(* The phone's payment sheet is not there yet: the handler throws what     *)
(* nothing catches.  On the site the secret goes to the card form.         *)
PaymentSheet(t) ==
    /\ tap[t].step = "gateway"
    /\ TapGoes(t, "idle", NoHold)
    /\ IF OnPhone THEN UNCHANGED screen ELSE Shows("card", tap[t].hold)
    /\ UNCHANGED <<checkout, booked, captured, watch>>

(* confirmPayment takes the browser to return_url when it succeeds. *)
CardConfirmed ==
    /\ screen.at = "card"
    /\ captured' = captured \cup {screen.hold}
    /\ Shows("returning", screen.hold)
    /\ UNCHANGED <<checkout, booked, watch, tap>>

(* The confirmation page, first rendered or reloaded. *)
ConfirmationRenders ==
    /\ screen.at \in {"returning", "processing"}
    /\ Shows(IF booked[screen.hold] = "confirmed" THEN "confirmed" ELSE "processing",
             screen.hold)
    /\ UNCHANGED <<checkout, booked, captured, watch, tap>>

-----------------------------------------------------------------------------
(* The phone's watcher: fetch, yield, wait for an event or ten seconds.    *)

WatchReads ==
    /\ watch.step = "fetching"
    /\ Watching("read", watch.hold, booked[watch.hold])
    /\ UNCHANGED <<checkout, booked, captured, screen, tap>>

WatchYields ==
    /\ watch.step = "read"
    /\ IF watch.saw = "pending"
       THEN Watching("waiting", watch.hold, "none") /\ UNCHANGED screen
       ELSE watch' = Off /\ Shows(watch.saw, watch.hold)
    /\ UNCHANGED <<checkout, booked, captured, tap>>

WatchTriggers ==
    /\ watch.step = "waiting"
    /\ Watching("fetching", watch.hold, "none")
    /\ UNCHANGED <<checkout, booked, captured, screen, tap>>

(* getById throws inside the generator: the listener's onError ignores the *)
(* error and the stream is over.                                           *)
WatchFails ==
    /\ watch.step = "fetching"
    /\ watch' = Off
    /\ UNCHANGED <<checkout, booked, captured, screen, tap>>

(* The device's clock passes holdExpiresAt, early or late. *)
CountdownExpires ==
    /\ OnPhone /\ screen.at = "active"
    /\ watch' = Off
    /\ Shows("expired", screen.hold)
    /\ UNCHANGED <<checkout, booked, captured, tap>>

(* reset, from the buttons of the final screens; a new visit on the site.  *)
StartOver ==
    /\ screen.at \in {"confirmed", "expired", "failed", "processing"}
    /\ screen' = Idle
    /\ watch' = Off
    /\ UNCHANGED <<checkout, booked, captured, tap>>

(* The screen is popped: the notifier is disposed with its watcher, and a  *)
(* handler that was waiting for an answer finds it gone.  What it had sent *)
(* is on its way, and the next screen starts a fresh flow.                 *)
LeaveScreen ==
    /\ OnPhone /\ screen.at # "idle"
    /\ screen' = Idle
    /\ watch' = Off
    /\ \/ UNCHANGED booked
       \/ screen.at = "placing" /\ booked' = [booked EXCEPT ![screen.hold] = "pending"]
    /\ \E paid \in SUBSET {h \in Hold : \E t \in Tap :
                              /\ tap[t].hold = h
                              /\ tap[t].step = "gateway" \/ booked[h] = "pending"} :
          captured' = captured \cup paid
    /\ tap' = [t \in Tap |-> Returned]
    /\ UNCHANGED checkout

CheckoutNext ==
    \/ \E h \in Hold : PressHold(h) \/ WebhookConfirms(h) \/ HoldLapses(h)
    \/ HoldPlaced \/ HoldNotAnswered
    \/ \E t \in Tap :
          \/ PressPay(t) \/ PaymentInitiated(t) \/ InitiateRefused(t)
          \/ PaymentMade(t) \/ PaymentNotMade(t) \/ PaymentSheet(t)
    \/ CardConfirmed \/ ConfirmationRenders
    \/ WatchReads \/ WatchYields \/ WatchTriggers \/ WatchFails
    \/ CountdownExpires \/ StartOver \/ LeaveScreen

-----------------------------------------------------------------------------
(* "Booking confirmed" is on a screen only for a booking that is: not for  *)
(* one whose payment was merely submitted, and not for another hold than   *)
(* the one the answer was about.                                           *)
ConfirmedIsBooked == screen.at = "confirmed" => booked[screen.hold] = "confirmed"

(* The watcher's onError: "Polling hiccups are non-fatal; the countdown    *)
(* and retry cover it."  A hold on the phone's screen stays watched.       *)
HiccupsAreNonFatal == OnPhone /\ screen.at = "active" => watch.step # "off"
================================================================================
