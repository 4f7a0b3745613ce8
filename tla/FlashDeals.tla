------------------------------ MODULE FlashDeals ------------------------------
(***************************************************************************)
(* Flash deals on one unit: the rows of flash_deals, the claims that race  *)
(* each other, plain holds and the lifecycle job for them, and the strip   *)
(* of live deals a guest is looking at.                                    *)
(*                                                                         *)
(* A claim is DealService.claim followed by BookingService.createHold with *)
(* the claim hook: read the deal, read the unit, take the Redis lock, then *)
(* one transaction that checks for a conflict, bumps the counter and       *)
(* inserts the booking.  The Redis lock can be lost at any time, so the    *)
(* row lock of the deal and the exclusion constraint of bookings are what  *)
(* serialises two claims in the end.  A refused call changes no row, and   *)
(* may be tried again for the same deal or another.  The actors are hold   *)
(* requests, not guests: nothing keeps a guest from claiming again, here   *)
(* or at another deal.                                                     *)
(*                                                                         *)
(* Other units have other locks, rows and constraints; one unit is enough. *)
(***************************************************************************)
EXTENDS Pricing, FiniteSets

CONSTANTS
    Deal,        \* rows of flash_deals
    Hold,        \* hold requests, each named by the one booking it may place
    Stay,        \* pairwise disjoint stay windows of the unit
    Applicable,  \* Applicable[d]: the stays a deal may be claimed for
    Offers,      \* Offers[d]: the windows and totals the host may ask for
    Quantity,    \* bound on quantity_total
    MaxTime,     \* the clock stops here
    MaxWindow,   \* MAX_DEAL_HOURS
    AppSkew,     \* how far the API's clock is ahead of the database's
    NoDeal,      \* a hold without a deal
    Nobody,      \* the Redis lock is free
    Bases,       \* base prices to quote, in minor units
    Percents,    \* discounts and commission rates to quote, in basis points
    Absent       \* the deal is not on the strip

ASSUME ConstantsAssumption ==
    /\ IsFiniteSet(Deal) /\ IsFiniteSet(Hold) /\ IsFiniteSet(Stay)
    /\ Quantity \in Nat /\ MaxTime \in Nat /\ MaxWindow \in Nat /\ AppSkew \in Nat
    /\ Applicable \in [Deal -> SUBSET Stay]
    /\ Offers \in [Deal -> SUBSET [from : 0 .. MaxTime, to : 0 .. MaxTime, total : 0 .. Quantity]]
    /\ Bases \subseteq Nat /\ Percents \subseteq 0 .. 10000
    /\ NoDeal \notin Deal /\ Nobody \notin Hold /\ Absent \notin Nat

VARIABLES
    now,       \* the database clock
    deal,      \* flash_deals
    unitOpen,  \* unit and property ACTIVE, listing APPROVED
    req,       \* how far each hold request got
    booking,   \* the booking a request placed
    lock,      \* lock:unit:<id> in Redis
    sweep,     \* the lifecycle job and the rows it has yet to tell of
    wire,      \* deal events on their way to the open page
    strip      \* quantity shown for each deal on the open page

vars == <<now, deal, unitOpen, req, booking, lock, sweep, wire, strip>>

DealStatus == {"NONE", "SCHEDULED", "ACTIVE", "SOLD_OUT", "ENDED"}
DealRow == [status : DealStatus, from : 0 .. MaxTime, to : 0 .. MaxTime,
            total : 0 .. Quantity, claimed : 0 .. Quantity]
Step == {"idle", "priced", "locked", "claimed", "inserted", "committed", "answered"}
Request == [step : Step, deal : Deal \cup {NoDeal}, stay : Stay, count : 0 .. Quantity]
BookingRow == [status : {"none", "standing", "released"},
               deal : Deal \cup {NoDeal}, stay : Stay]
Event == [deal : Deal, left : 0 .. Quantity]

TypeOK ==
    /\ now \in 0 .. MaxTime
    /\ deal \in [Deal -> DealRow]
    /\ unitOpen \in BOOLEAN
    /\ req \in [Hold -> Request]
    /\ booking \in [Hold -> BookingRow]
    /\ lock \in Hold \cup {Nobody}
    /\ sweep \in [step : {"idle", "activated", "ended"}, rows : SUBSET Deal]
    /\ wire \subseteq Event
    /\ strip \in [Deal -> (0 .. Quantity) \cup {Absent}]

-----------------------------------------------------------------------------
(* The rows. *)

AppNow == now + AppSkew

Left(d) == deal[d].total - deal[d].claimed

Overlap(d, from, to) == deal[d].from < to /\ from < deal[d].to

(* Mutant: the exclusion constraint covers the rows already ACTIVE only. *)
ActiveWindowTaken(from, to) ==
    \E d \in Deal : deal[d].status = "ACTIVE" /\ Overlap(d, from, to)

(* deals_no_overlap_per_unit holds among rows still SCHEDULED or ACTIVE. *)
WindowTaken(from, to) ==
    \E d \in Deal : deal[d].status \in {"SCHEDULED", "ACTIVE"} /\ Overlap(d, from, to)

(* The row a transaction has updated is locked until it ends. *)
Claiming(d) == {g \in Hold : req[g].deal = d /\ req[g].step \in {"claimed", "inserted"}}

RowFree(d) == Claiming(d) = {}

(* Mutant: the last comparison of the WHERE clause lets one more through. *)
InStockOrJustOut(d) == deal[d].status \in {"ACTIVE", "SOLD_OUT"} /\ deal[d].claimed <= deal[d].total

(* Mutant: tryClaim without its status condition. *)
InStockAnyStatus(d) == deal[d].claimed < deal[d].total

(* The WHERE clause of tryClaim. *)
InStock(d) == deal[d].status = "ACTIVE" /\ deal[d].claimed < deal[d].total

(* quantity_claimed + 1, and fn_flash_deal_sold_out on the way. *)
Bumped(row) ==
    [row EXCEPT !.claimed = @ + 1,
                !.status = IF row.claimed + 1 = row.total /\ @ = "ACTIVE"
                           THEN "SOLD_OUT" ELSE @]

(* The WHERE clause of listActive: what the feed and the strip are read from. *)
Listed(d) ==
    /\ InStock(d)
    /\ deal[d].from <= now /\ now < deal[d].to
    /\ unitOpen

Fresh(s) == [step |-> "idle", deal |-> NoDeal, stay |-> s, count |-> 0]

(* The gateway fans an event out to the pages open at that moment. *)
Published(events) == wire \cup {m \in events : strip[m.deal] # Absent}

StayHeld(s) == \E g \in Hold : booking[g].stay = s /\ booking[g].status = "standing"

-----------------------------------------------------------------------------
Init ==
    /\ now = 0
    /\ deal = [d \in Deal |-> [status |-> "NONE", from |-> 0, to |-> 0,
                               total |-> 0, claimed |-> 0]]
    /\ unitOpen = TRUE
    /\ \E s \in Stay :
          /\ req = [g \in Hold |-> Fresh(s)]
          /\ booking = [g \in Hold |-> [status |-> "none", deal |-> NoDeal, stay |-> s]]
    /\ lock = Nobody
    /\ sweep = [step |-> "idle", rows |-> {}]
    /\ wire = {}
    /\ strip = [d \in Deal |-> Absent]

(* DealService.create: validated, inserted ACTIVE when the API's clock is  *)
(* already past the start, and announced in that case.                     *)
CreateDeal(d, offer) ==
    /\ deal[d].status = "NONE"
    /\ offer.from < offer.to /\ offer.to - offer.from <= MaxWindow /\ offer.total >= 1
    /\ ~WindowTaken(offer.from, offer.to)
    /\ deal' = [deal EXCEPT ![d] =
                  [status |-> IF offer.from <= AppNow THEN "ACTIVE" ELSE "SCHEDULED",
                   from |-> offer.from, to |-> offer.to, total |-> offer.total, claimed |-> 0]]
    /\ wire' = IF offer.from <= AppNow
               THEN Published({[deal |-> d, left |-> offer.total]})
               ELSE wire
    /\ UNCHANGED <<now, unitOpen, req, booking, lock, sweep, strip>>

-----------------------------------------------------------------------------
(* One booking request.                                                    *)

Goes(g, step) == req' = [req EXCEPT ![g].step = step]

(* The fast checks of DealService.claim, on a row read before everything   *)
(* else and with the API's clock.                                          *)
Claimable(d, s) ==
    /\ InStock(d)
    /\ deal[d].from <= AppNow /\ AppNow < deal[d].to
    /\ s \in Applicable[d]

(* The pre-checks, then UnitRepository.findBookable; the quote is computed  *)
(* from what the two reads returned.  A call they refuse leaves no trace.   *)
StartRequest(g, d, s) ==
    /\ req[g].step = "idle"
    /\ d # NoDeal => Claimable(d, s)
    /\ unitOpen
    /\ req' = [req EXCEPT ![g] = [step |-> "priced", deal |-> d, stay |-> s, count |-> 0]]
    /\ UNCHANGED <<now, deal, unitOpen, booking, lock, sweep, wire, strip>>

AcquireLock(g) ==
    /\ req[g].step = "priced"
    /\ lock = Nobody
    /\ lock' = g
    /\ Goes(g, "locked")
    /\ UNCHANGED <<now, deal, unitOpen, booking, sweep, wire, strip>>

LockBusy(g) ==
    /\ req[g].step = "priced"
    /\ lock # Nobody
    /\ req' = [req EXCEPT ![g] = Fresh(@.stay)]
    /\ UNCHANGED <<now, deal, unitOpen, booking, lock, sweep, wire, strip>>

(* The key outlives neither its five seconds nor a restart of Redis. *)
LockExpires ==
    /\ lock # Nobody
    /\ lock' = Nobody
    /\ UNCHANGED <<now, deal, unitOpen, req, booking, sweep, wire, strip>>

AfterRelease(g) == IF lock = g THEN Nobody ELSE lock

(* Mutant: the hook runs on a connection of the pool, so the rollback does *)
(* not undo the claim.                                                     *)
AbandonKeepingClaim(g) ==
    /\ req' = [req EXCEPT ![g] = Fresh(@.stay)]
    /\ lock' = AfterRelease(g)
    /\ deal' = [d \in Deal |->
                  IF d = req[g].deal /\ req[g].step \in {"claimed", "inserted"}
                  THEN Bumped(deal[d]) ELSE deal[d]]
    /\ UNCHANGED <<now, unitOpen, booking, sweep, wire, strip>>

(* The transaction rolls back, the lock is released, the caller gets the   *)
(* error.  Nothing the transaction wrote survives.                         *)
Abandon(g) ==
    /\ req' = [req EXCEPT ![g] = Fresh(@.stay)]
    /\ lock' = AfterRelease(g)
    /\ UNCHANGED <<now, deal, unitOpen, booking, sweep, wire, strip>>

(* The rest runs in one transaction: the conflict check, the claim, the    *)
(* insert.  Only the last two have a row or a constraint behind them.      *)
ConflictFound(g) ==
    /\ req[g].step = "locked"
    /\ StayHeld(req[g].stay)
    /\ Abandon(g)

(* Mutant: the new count is announced by the hook, before the commit. *)
TryClaimAndTell(g) ==
    LET d == req[g].deal
    IN  /\ req[g].step = "locked" /\ d # NoDeal
        /\ ~StayHeld(req[g].stay)
        /\ RowFree(d)
        /\ InStock(d)
        /\ req' = [req EXCEPT ![g].step = "claimed", ![g].count = deal[d].claimed + 1]
        /\ wire' = Published({[deal |-> d, left |-> Left(d) - 1]})
        /\ UNCHANGED <<now, deal, unitOpen, booking, lock, sweep, strip>>

(* tryClaim waits for the row lock and then decides on the committed row:  *)
(* the claim window is not looked at again.                                *)
TryClaim(g) ==
    LET d == req[g].deal
    IN  /\ req[g].step = "locked" /\ d # NoDeal
        /\ ~StayHeld(req[g].stay)
        /\ RowFree(d)
        /\ InStock(d)
        /\ req' = [req EXCEPT ![g].step = "claimed", ![g].count = deal[d].claimed + 1]
        /\ UNCHANGED <<now, deal, unitOpen, booking, lock, sweep, wire, strip>>

LostTheRace(g) ==
    /\ req[g].step = "locked" /\ req[g].deal # NoDeal
    /\ RowFree(req[g].deal)
    /\ ~InStock(req[g].deal)
    /\ Abandon(g)

(* The insert waits for an uncommitted booking of the same stay, and the   *)
(* exclusion constraint then decides.                                      *)
Inserting(g) ==
    /\ req[g].step = IF req[g].deal = NoDeal THEN "locked" ELSE "claimed"
    /\ ~\E h \in Hold : req[h].step = "inserted" /\ req[h].stay = req[g].stay

InsertHold(g) ==
    /\ Inserting(g)
    /\ ~StayHeld(req[g].stay)
    /\ Goes(g, "inserted")
    /\ UNCHANGED <<now, deal, unitOpen, booking, lock, sweep, wire, strip>>

ExclusionViolated(g) ==
    /\ Inserting(g)
    /\ StayHeld(req[g].stay)
    /\ Abandon(g)

Commit(g) ==
    LET d == req[g].deal
    IN  /\ req[g].step = "inserted"
        /\ booking' = [booking EXCEPT ![g] = [status |-> "standing", deal |-> d,
                                              stay |-> req[g].stay]]
        /\ deal' = [e \in Deal |-> IF e = d THEN Bumped(deal[e]) ELSE deal[e]]
        /\ Goes(g, "committed")
        /\ lock' = AfterRelease(g)
        /\ UNCHANGED <<now, unitOpen, sweep, wire, strip>>

(* The connection or the process dies inside the transaction. *)
CommitFails(g) ==
    /\ req[g].step \in {"locked", "claimed", "inserted"}
    /\ Abandon(g)

(* quantityTotal was read before the transaction; the count is its own. *)
ClaimEvent(g) ==
    LET d == req[g].deal
        left == deal[d].total - req[g].count
    IN  [deal |-> d, left |-> IF left > 0 THEN left ELSE 0]

Answer(g) ==
    /\ req[g].step = "committed"
    /\ wire' = IF req[g].deal = NoDeal THEN wire ELSE Published({ClaimEvent(g)})
    /\ req' = [req EXCEPT ![g] = [Fresh(@.stay) EXCEPT !.step = "answered"]]
    /\ UNCHANGED <<now, deal, unitOpen, booking, lock, sweep, strip>>

(* Expiry or a cancellation releases a booking.  Neither path touches       *)
(* flash_deals: a piece once claimed stays claimed.                         *)
BookingReleased(g) ==
    /\ booking[g].status = "standing"
    /\ booking' = [booking EXCEPT ![g].status = "released"]
    /\ UNCHANGED <<now, deal, unitOpen, req, lock, sweep, wire, strip>>

-----------------------------------------------------------------------------
(* The lifecycle job: two statements, then the events, built from the rows *)
(* as they are when their turn comes.                                      *)

ActivateDue ==
    LET due == {d \in Deal : deal[d].status = "SCHEDULED"
                             /\ deal[d].from <= now /\ now < deal[d].to}
    IN  /\ sweep.step = "idle"
        /\ deal' = [d \in Deal |->
                      IF d \in due THEN [deal[d] EXCEPT !.status = "ACTIVE"] ELSE deal[d]]
        /\ sweep' = [step |-> "activated", rows |-> due]
        /\ UNCHANGED <<now, unitOpen, req, booking, lock, wire, strip>>

Over == {d \in Deal : deal[d].status \in {"SCHEDULED", "ACTIVE"} /\ now >= deal[d].to}

(* The job rests once everybody has been told. *)
Telling(rows) == [step |-> IF rows = {} THEN "idle" ELSE "ended", rows |-> rows]

(* The statement waits for the claims in flight on its rows. *)
EndExpired ==
    /\ sweep.step = "activated"
    /\ \A d \in Over : RowFree(d)
    /\ deal' = [d \in Deal |->
                  IF d \in Over THEN [deal[d] EXCEPT !.status = "ENDED"] ELSE deal[d]]
    /\ sweep' = Telling(sweep.rows \cup Over)
    /\ UNCHANGED <<now, unitOpen, req, booking, lock, wire, strip>>

SweepTells(d) ==
    /\ sweep.step = "ended"
    /\ d \in sweep.rows
    /\ wire' = Published({[deal |-> d, left |-> Left(d)]})
    /\ sweep' = Telling(sweep.rows \ {d})
    /\ UNCHANGED <<now, deal, unitOpen, req, booking, lock, strip>>

(* The job fails between two statements; the next tick starts over, and    *)
(* nobody is told of the rows this one had changed.                        *)
SweepFails ==
    /\ sweep.step # "idle"
    /\ sweep' = [step |-> "idle", rows |-> {}]
    /\ UNCHANGED <<now, deal, unitOpen, req, booking, lock, wire, strip>>

-----------------------------------------------------------------------------
(* The strip of deals on an open page: rendered from listActive, then      *)
(* overlaid by whatever event arrives, in whatever order they arrive.      *)

OpenStrip ==
    /\ \A d \in Deal : strip[d] = Absent
    /\ strip' = [d \in Deal |-> IF Listed(d) THEN Left(d) ELSE Absent]
    /\ UNCHANGED <<now, deal, unitOpen, req, booking, lock, sweep, wire>>

Deliver(m) ==
    /\ m \in wire
    /\ wire' = wire \ {m}
    /\ strip' = [strip EXCEPT ![m.deal] = IF @ = Absent THEN Absent ELSE m.left]
    /\ UNCHANGED <<now, deal, unitOpen, req, booking, lock, sweep>>

-----------------------------------------------------------------------------
(* Moderation and the host open and close the unit. *)
UnitToggled ==
    /\ unitOpen' = ~unitOpen
    /\ UNCHANGED <<now, deal, req, booking, lock, sweep, wire, strip>>

Tick ==
    /\ now < MaxTime
    /\ now' = now + 1
    /\ UNCHANGED <<deal, unitOpen, req, booking, lock, sweep, wire, strip>>

RequestStep(g) ==
    \/ AcquireLock(g) \/ LockBusy(g) \/ ConflictFound(g) \/ TryClaim(g)
    \/ LostTheRace(g) \/ InsertHold(g) \/ ExclusionViolated(g) \/ Commit(g) \/ Answer(g)

SweepStep == ActivateDue \/ EndExpired \/ \E d \in Deal : SweepTells(d)

Next ==
    \/ \E d \in Deal : \E offer \in Offers[d] : CreateDeal(d, offer)
    \/ \E g \in Hold, d \in Deal \cup {NoDeal}, s \in Stay : StartRequest(g, d, s)
    \/ \E g \in Hold :
          \/ RequestStep(g)
          \/ CommitFails(g) \/ BookingReleased(g)
    \/ LockExpires
    \/ SweepStep
    \/ SweepFails
    \/ OpenStrip
    \/ \E m \in wire : Deliver(m)
    \/ UnitToggled
    \/ Tick

Spec == Init /\ [][Next]_vars

-----------------------------------------------------------------------------
(* Properties. *)

HoldsOf(d) == {g \in Hold : booking[g].deal = d}

(* A piece is claimed exactly when its booking exists: no claim survives a *)
(* transaction that failed (another hold took the stay, the connection     *)
(* died), and none is missing or returned later.                           *)
ClaimsAreBookings == \A d \in Deal : deal[d].claimed = Cardinality(HoldsOf(d))

(* Whatever interleaving of claims, lost locks and sweeps: never more than *)
(* the total, SOLD_OUT exactly at the total and never an ACTIVE deal with  *)
(* nothing left.                                                           *)
StockNeverOversold ==
    \A d \in Deal :
       /\ deal[d].claimed <= deal[d].total
       /\ deal[d].status = "SOLD_OUT" => Left(d) = 0
       /\ deal[d].status \in {"SCHEDULED", "ACTIVE"} => Left(d) > 0

(* The feed never offers the unit twice: the overlap constraint does not   *)
(* look at sold-out rows, and sweeps run late, yet no two deals are listed *)
(* at one time.                                                            *)
OneOfferPerUnit == \A d, e \in Deal : Listed(d) /\ Listed(e) => d = e

(* A page shows at least what is left, in whatever order the events of two *)
(* claims and a sweep arrive: a guest is never shown a deal as exhausted   *)
(* when a piece of it can still be had.                                    *)
StripNeverUnderstates ==
    \A d \in Deal : strip[d] # Absent => strip[d] >= Left(d)

(* What the rates leave to the host, before it is rounded, is more than    *)
(* half a minor unit.                                                      *)
HostEarns(base, discountPct, commissionPct) ==
    (base - Percent(base, discountPct)) * (10000 - commissionPct) > 5000

(* Whatever the base price, the discount and the commission of a hold: the *)
(* insert is a row the CHECK constraints accept; when the stay is over the *)
(* escrowed total splits into a payout and ledger legs that balance to the *)
(* last minor unit, exactly when the host's exact share is more than half  *)
(* a unit, and rolls back otherwise (a commission of 100 %, a tiny base);  *)
(* and what can be split could be charged.                                 *)
QuotesAddUp ==
    \A base \in Bases, d \in Percents, c \in Percents :
       LET q == Quote(base, d, c)
       IN  /\ RowAccepted(q)
           /\ SplitPosts(q) <=> HostEarns(base, d, c)
           /\ SplitPosts(q) => Chargeable(q)

MoneyAddsUp == \A g \in Hold : req[g].step = "inserted" => QuotesAddUp

(* Refinement: with rows, locks, transactions and sweeps forgotten, this   *)
(* is a sale of counted pieces.                                            *)
SalePhase(status) ==
    CASE status = "NONE" -> "unopened"
      [] status = "SCHEDULED" -> "announced"
      [] status \in {"ACTIVE", "SOLD_OUT"} -> "open"
      [] status = "ENDED" -> "closed"

Shown(d) == [phase |-> SalePhase(deal[d].status), total |-> deal[d].total, holds |-> HoldsOf(d)]

AllShown == [d \in Deal |-> Shown(d)]

Sale == INSTANCE CountedSale WITH sale <- AllShown

ImplementsSale == Sale!Spec
==============================================================================
