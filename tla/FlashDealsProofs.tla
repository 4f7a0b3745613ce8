--------------------------- MODULE FlashDealsProofs ---------------------------
(***************************************************************************)
(* Theorems about FlashDeals, for any deals, holds, stays, windows and     *)
(* clocks.  DealInvariant is inductive; its parts are lemmas below.        *)
(***************************************************************************)
EXTENDS FlashDeals, TLAPS, FiniteSetTheorems

(* A claim that has its row still finds it as it was: in stock, at the     *)
(* count it read, and nobody else's.                                       *)
InClaim(g) == req[g].step \in {"claimed", "inserted"} /\ req[g].deal \in Deal

RowsHeld ==
    \A g \in Hold : InClaim(g) =>
       /\ InStock(req[g].deal)
       /\ req[g].count = deal[req[g].deal].claimed + 1
       /\ \A h \in Hold \ {g} : InClaim(h) => req[h].deal # req[g].deal

(* A request that is not through has no booking. *)
BookedAtCommit ==
    \A g \in Hold : req[g].step \notin {"committed", "answered"} => booking[g].deal = NoDeal

(* No two deals that can still be listed overlap. *)
WindowsApart ==
    \A d, e \in Deal :
       /\ d # e
       /\ deal[d].status \in {"SCHEDULED", "ACTIVE"}
       /\ deal[e].status \in {"SCHEDULED", "ACTIVE"}
       => ~Overlap(d, deal[e].from, deal[e].to)

(* Nobody has heard of a deal before it exists, and what is on the wire or *)
(* about to be sent does not understate.                                   *)
NewsOverstates ==
    /\ \A m \in wire : m.left >= Left(m.deal) /\ deal[m.deal].status # "NONE"
    /\ \A g \in Hold : req[g].step = "committed" /\ req[g].deal \in Deal =>
          req[g].count <= deal[req[g].deal].claimed /\ deal[req[g].deal].status # "NONE"
    /\ \A d \in Deal : deal[d].status = "NONE" => deal[d].claimed = 0 /\ strip[d] = Absent

DealInvariant ==
    /\ TypeOK /\ ClaimsAreBookings /\ StockNeverOversold /\ StripNeverUnderstates
    /\ RowsHeld /\ BookedAtCommit /\ WindowsApart /\ NewsOverstates

-----------------------------------------------------------------------------
(* The assumption on the constants, apart from what an offer looks like. *)
LEMMA ConstantFacts ==
  /\ Quantity \in Nat /\ MaxTime \in Nat /\ AppSkew \in Nat
  /\ NoDeal \notin Deal /\ Nobody \notin Hold /\ Absent \notin Nat
  BY ConstantsAssumption

(* An offer is within the bounds. *)
LEMMA OfferType ==
  ASSUME NEW d \in Deal, NEW offer \in Offers[d]
  PROVE  offer \in [from : 0 .. MaxTime, to : 0 .. MaxTime, total : 0 .. Quantity]
  BY ConstantsAssumption

(* What the type invariant says of one row and one request, in the form    *)
(* the steps need.                                                         *)
LEMMA RowType ==
  ASSUME TypeOK, NEW d \in Deal
  PROVE  /\ deal[d] \in DealRow /\ deal[d].status \in DealStatus
         /\ deal[d].total \in 0 .. Quantity /\ deal[d].claimed \in 0 .. Quantity
         /\ deal[d].from \in 0 .. MaxTime /\ deal[d].to \in 0 .. MaxTime
  BY DEF TypeOK, DealRow

(* The types of a request, read off TypeOK. *)
LEMMA RequestType ==
  ASSUME TypeOK, NEW g \in Hold
  PROVE  /\ req \in [Hold -> Request] /\ req[g] \in Request /\ req[g].step \in Step
         /\ req[g].deal \in Deal \cup {NoDeal} /\ req[g].stay \in Stay
         /\ req[g].count \in 0 .. Quantity
  BY DEF TypeOK, Request

(* What a claim that is told publishes is at least what is left. *)
LEMMA EventType ==
  ASSUME TypeOK, StockNeverOversold, NEW d \in Deal
  PROVE  /\ Left(d) \in 0 .. Quantity
         /\ \A g \in Hold : req[g].deal = d =>
              /\ ClaimEvent(g) \in Event /\ ClaimEvent(g).deal = d
              /\ req[g].count <= deal[d].claimed => ClaimEvent(g).left >= Left(d)
<1>1. /\ deal[d].total \in 0 .. Quantity /\ deal[d].claimed \in 0 .. Quantity
      /\ deal[d].claimed <= deal[d].total
  BY RowType DEF StockNeverOversold
<1>2. Left(d) \in 0 .. Quantity
  BY <1>1, ConstantFacts DEF Left
<1>3. ASSUME NEW g \in Hold, req[g].deal = d
      PROVE  /\ ClaimEvent(g) \in Event /\ ClaimEvent(g).deal = d
             /\ req[g].count <= deal[d].claimed => ClaimEvent(g).left >= Left(d)
  <2>1. req[g].count \in 0 .. Quantity
    BY RequestType
  <2> QED BY <1>1, <1>3, <2>1, ConstantFacts DEF ClaimEvent, Event, Left
<1> QED BY <1>2, <1>3

(* A request under way changes one record and touches no row. *)
LEMMA RequestMoves ==
  ASSUME TypeOK, NEW g \in Hold
  PROVE  /\ \A step \in Step : [req EXCEPT ![g].step = step] \in [Hold -> Request]
         /\ \A s \in Stay : Fresh(s) \in Request
         /\ AfterRelease(g) \in Hold \cup {Nobody}
<1>1. req \in [Hold -> Request] /\ req[g] \in Request
  BY RequestType
<1>2. \A step \in Step : [req[g] EXCEPT !.step = step] \in Request
  BY <1>1 DEF Request
<1>3. \A s \in Stay : Fresh(s) \in Request
  BY ConstantFacts DEF Fresh, Request, Step
<1>4. AfterRelease(g) \in Hold \cup {Nobody}
  BY DEF AfterRelease, TypeOK
<1> QED BY <1>1, <1>2, <1>3, <1>4

-----------------------------------------------------------------------------
(* Every variable keeps its type. *)
LEMMA TypeStep ==
  ASSUME DealInvariant, [Next]_vars
  PROVE  TypeOK'
<1>0. TypeOK /\ StockNeverOversold /\ RowsHeld
  BY DEF DealInvariant
<1>1. ASSUME NEW d \in Deal, NEW offer \in Offers[d], CreateDeal(d, offer)
      PROVE  TypeOK'
  <2>1. offer \in [from : 0 .. MaxTime, to : 0 .. MaxTime, total : 0 .. Quantity]
    BY OfferType
  <2>2. \A s \in {"ACTIVE", "SCHEDULED"} :
          [status |-> s, from |-> offer.from, to |-> offer.to,
           total |-> offer.total, claimed |-> 0] \in DealRow
    BY <2>1, ConstantFacts DEF DealRow, DealStatus
  <2>3. deal' \in [Deal -> DealRow]
    BY <1>0, <1>1, <2>2 DEF CreateDeal, TypeOK
  <2>4. [deal |-> d, left |-> offer.total] \in Event
    BY <2>1 DEF Event
  <2>5. wire' \subseteq Event
    BY <1>0, <1>1, <2>4 DEF CreateDeal, Published, TypeOK
  <2> QED BY <1>0, <1>1, <2>3, <2>5 DEF CreateDeal, TypeOK
<1>2. ASSUME NEW g \in Hold, NEW d \in Deal \cup {NoDeal}, NEW s \in Stay,
             StartRequest(g, d, s)
      PROVE  TypeOK'
  <2>1. [step |-> "priced", deal |-> d, stay |-> s, count |-> 0] \in Request
    BY ConstantFacts DEF Request, Step
  <2> QED BY <1>0, <1>2, <2>1 DEF StartRequest, TypeOK
<1>3. ASSUME NEW g \in Hold, Abandon(g) \/ LockBusy(g)
      PROVE  TypeOK'
  <2>1. Fresh(req[g].stay) \in Request
    BY <1>0, RequestType, RequestMoves
  <2>2. AfterRelease(g) \in Hold \cup {Nobody}
    BY <1>0, RequestMoves
  <2> QED BY <1>0, <1>3, <2>1, <2>2 DEF Abandon, LockBusy, TypeOK
<1>4. ASSUME NEW g \in Hold, AcquireLock(g) \/ InsertHold(g)
      PROVE  TypeOK'
  <2>1. \E step \in Step : Goes(g, step)
    BY <1>4 DEF AcquireLock, InsertHold, Step
  <2>2. req \in [Hold -> Request] /\ \A step \in Step : [req[g] EXCEPT !.step = step] \in Request
    BY <1>0, RequestType, RequestMoves
  <2>3. req' \in [Hold -> Request]
    BY <2>1, <2>2 DEF Goes
  <2> QED BY <1>0, <1>4, <2>3 DEF AcquireLock, InsertHold, TypeOK
<1>5. ASSUME NEW g \in Hold, TryClaim(g)
      PROVE  TypeOK'
  <2>1. req[g].deal \in Deal
    BY <1>0, <1>5, RequestType DEF TryClaim
  <2>2. deal[req[g].deal].claimed + 1 \in 0 .. Quantity
    BY <1>0, <1>5, <2>1, RowType, ConstantFacts DEF TryClaim, InStock
  <2>3. [req[g] EXCEPT !.step = "claimed", !.count = deal[req[g].deal].claimed + 1] \in Request
    BY <1>0, <2>2, RequestType DEF Request, Step
  <2>4. req' \in [Hold -> Request]
    BY <1>0, <1>5, <2>3, RequestType DEF TryClaim
  <2> QED BY <1>0, <1>5, <2>4 DEF TryClaim, TypeOK
<1>6. ASSUME NEW g \in Hold, Commit(g)
      PROVE  TypeOK'
  <2>1. req' \in [Hold -> Request] /\ lock' \in Hold \cup {Nobody}
    BY <1>0, <1>6, RequestMoves DEF Commit, Goes, Step
  <2>2. booking' \in [Hold -> BookingRow]
    BY <1>0, <1>6, RequestType DEF Commit, BookingRow, TypeOK
  <2>3. ASSUME NEW e \in Deal, e = req[g].deal
        PROVE  Bumped(deal[e]) \in DealRow
    <3>1. deal[e].claimed < deal[e].total
      BY <1>0, <1>6, <2>3 DEF Commit, RowsHeld, InClaim, InStock
    <3>2. deal[e].claimed + 1 \in 0 .. Quantity
      BY <1>0, <3>1, RowType, ConstantFacts
    <3> QED BY <1>0, <3>2, RowType DEF Bumped, DealRow, DealStatus
  <2>4. deal' \in [Deal -> DealRow]
    BY <1>0, <1>6, <2>3, RowType DEF Commit
  <2> QED BY <1>0, <1>6, <2>1, <2>2, <2>4 DEF Commit, TypeOK
<1>7. ASSUME NEW g \in Hold, Answer(g)
      PROVE  TypeOK'
  <2>1. [Fresh(req[g].stay) EXCEPT !.step = "answered"] \in Request
    BY <1>0, RequestType, ConstantFacts DEF Fresh, Request, Step
  <2>2. req[g].deal # NoDeal => ClaimEvent(g) \in Event
    BY <1>0, RequestType, EventType
  <2>3. wire' \subseteq Event
    BY <1>0, <1>7, <2>2 DEF Answer, Published, TypeOK
  <2> QED BY <1>0, <1>7, <2>1, <2>3 DEF Answer, TypeOK
<1>8. ASSUME NEW g \in Hold, BookingReleased(g)
      PROVE  TypeOK'
  BY <1>0, <1>8 DEF BookingReleased, BookingRow, TypeOK
<1>9. CASE ActivateDue
  BY <1>0, <1>9 DEF ActivateDue, DealRow, DealStatus, TypeOK
<1>10. CASE EndExpired
  BY <1>0, <1>10 DEF EndExpired, Over, Telling, DealRow, DealStatus, TypeOK
<1>11. ASSUME NEW d \in Deal, SweepTells(d)
       PROVE  TypeOK'
  <2>1. [deal |-> d, left |-> Left(d)] \in Event
    BY <1>0, EventType DEF Event
  <2> QED BY <1>0, <1>11, <2>1 DEF SweepTells, Published, Telling, TypeOK
<1>12. CASE OpenStrip
  BY <1>0, <1>12, EventType DEF OpenStrip, TypeOK
<1>13. ASSUME NEW m \in wire, Deliver(m)
       PROVE  TypeOK'
  BY <1>0, <1>13 DEF Deliver, Event, TypeOK
<1>14. CASE LockExpires \/ SweepFails \/ UnitToggled \/ Tick
  <2>1. CASE LockExpires
    BY <1>0, <2>1 DEF LockExpires, TypeOK
  <2>2. CASE SweepFails
    BY <1>0, <2>2 DEF SweepFails, TypeOK
  <2>3. CASE UnitToggled
    BY <1>0, <2>3 DEF UnitToggled, TypeOK
  <2>4. CASE Tick
    BY <1>0, <2>4, ConstantFacts DEF Tick, TypeOK
  <2> QED BY <1>14, <2>1, <2>2, <2>3, <2>4
<1>15. CASE UNCHANGED vars
  BY <1>0, <1>15 DEF vars, TypeOK
<1> QED BY <1>1, <1>2, <1>3, <1>4, <1>5, <1>6, <1>7, <1>8, <1>9, <1>10, <1>11, <1>12, <1>13,
           <1>14, <1>15
        DEF Next, RequestStep, SweepStep, ConflictFound, LostTheRace, ExclusionViolated, CommitFails
-----------------------------------------------------------------------------
(* The steps that neither touch a row nor a request. *)
Aside ==
    \/ LockExpires \/ SweepFails \/ UnitToggled \/ Tick \/ OpenStrip \/ UNCHANGED vars
    \/ \E d \in Deal : SweepTells(d)
    \/ \E m \in wire : Deliver(m)

(* The steps aside change no deal, request or booking. *)
LEMMA AsideKeeps == Aside => UNCHANGED <<deal, req, booking>>
  BY DEF Aside, LockExpires, SweepFails, UnitToggled, Tick, OpenStrip, SweepTells, Deliver, vars

(* The steps of a request before it has a row, and the ways it ends        *)
(* without a booking.                                                      *)
NoClaim(g) ==
    \/ \E d \in Deal \cup {NoDeal}, s \in Stay : StartRequest(g, d, s)
    \/ AcquireLock(g) \/ LockBusy(g) \/ ConflictFound(g) \/ LostTheRace(g)
    \/ ExclusionViolated(g) \/ CommitFails(g)

(* The steps without a claim change no deal and no booking. *)
LEMMA NoClaimKeeps ==
  ASSUME TypeOK, NEW g \in Hold, NoClaim(g)
  PROVE  /\ UNCHANGED <<deal, booking, wire, strip>>
         /\ \A h \in Hold \ {g} : req'[h] = req[h]
         /\ req[g].step \notin {"committed", "answered"}
         /\ req'[g].step \in {"idle", "priced", "locked"}
<1>1. req \in [Hold -> Request] /\ req[g] \in Request
  BY RequestType
<1>2. CASE \E d \in Deal \cup {NoDeal}, s \in Stay : StartRequest(g, d, s)
  BY <1>1, <1>2 DEF StartRequest
<1>3. CASE AcquireLock(g)
  BY <1>1, <1>3 DEF AcquireLock, Goes, Request
<1>4. CASE LockBusy(g) \/ ConflictFound(g) \/ LostTheRace(g) \/ CommitFails(g)
  BY <1>1, <1>4 DEF LockBusy, ConflictFound, LostTheRace, CommitFails, Abandon, Fresh
<1>5. CASE ExclusionViolated(g)
  <2>1. req[g].step \in {"locked", "claimed"}
    BY <1>5 DEF ExclusionViolated, Inserting
  <2> QED BY <1>1, <1>5, <2>1 DEF ExclusionViolated, Abandon, Fresh
<1> QED BY <1>2, <1>3, <1>4, <1>5 DEF NoClaim

(* Every step, by what it may disturb. *)
LEMMA NextIs ==
  ASSUME [Next]_vars
  PROVE  \/ Aside
         \/ \E d \in Deal : \E offer \in Offers[d] : CreateDeal(d, offer)
         \/ \E g \in Hold : \/ NoClaim(g) \/ TryClaim(g) \/ InsertHold(g) \/ Commit(g)
                             \/ Answer(g) \/ BookingReleased(g)
         \/ ActivateDue \/ EndExpired
  BY DEF Next, RequestStep, SweepStep, Aside, NoClaim

(* What the four writers of flash_deals do to a row. *)
LEMMA RowWrites ==
  ASSUME TypeOK, [Next]_vars, deal' # deal
  PROVE  \/ \E d \in Deal : \E offer \in Offers[d] : CreateDeal(d, offer)
         \/ \E g \in Hold : Commit(g)
         \/ ActivateDue \/ EndExpired
<1>1. ASSUME NEW g \in Hold, \/ NoClaim(g) \/ TryClaim(g) \/ InsertHold(g)
                              \/ Answer(g) \/ BookingReleased(g)
      PROVE  deal' = deal
  BY <1>1, NoClaimKeeps DEF TryClaim, InsertHold, Answer, BookingReleased
<1> QED BY <1>1, NextIs, AsideKeeps

(* What a creation changes. *)
LEMMA Created ==
  ASSUME TypeOK, NEW d \in Deal, NEW offer \in Offers[d], CreateDeal(d, offer)
  PROVE  /\ deal[d].status = "NONE" /\ deal'[d].status \in {"ACTIVE", "SCHEDULED"}
         /\ deal'[d].claimed = 0 /\ deal'[d].total = offer.total /\ offer.total \in 1 .. Quantity
         /\ deal'[d].from = offer.from /\ deal'[d].to = offer.to
         /\ \A e \in Deal \ {d} : deal'[e] = deal[e]
         /\ UNCHANGED <<req, booking, strip>>
<1>1. offer.total \in 0 .. Quantity /\ offer.total >= 1
  BY OfferType DEF CreateDeal
<1>2. deal \in [Deal -> DealRow]
  BY DEF TypeOK
<1>3. offer.total \in 1 .. Quantity
  BY <1>1, ConstantFacts
<1> QED BY <1>2, <1>3 DEF CreateDeal

(* What a commit changes. *)
LEMMA Committed ==
  ASSUME TypeOK, RowsHeld, NEW g \in Hold, Commit(g)
  PROVE  /\ \A h \in Hold \ {g} : req'[h] = req[h] /\ booking'[h] = booking[h]
         /\ req[g].step = "inserted" /\ req'[g].step = "committed"
         /\ req'[g].deal = req[g].deal /\ req'[g].count = req[g].count
         /\ booking'[g].deal = req[g].deal
         /\ \A d \in Deal \ {req[g].deal} : deal'[d] = deal[d]
         /\ \A d \in Deal : d = req[g].deal =>
              /\ InStock(d) /\ req[g].count = deal[d].claimed + 1
              /\ deal'[d].claimed = deal[d].claimed + 1
              /\ deal'[d].total = deal[d].total
              /\ deal'[d].from = deal[d].from /\ deal'[d].to = deal[d].to
              /\ deal'[d].status = IF deal[d].claimed + 1 = deal[d].total
                                   THEN "SOLD_OUT" ELSE "ACTIVE"
         /\ UNCHANGED <<wire, strip>>
<1>1. req \in [Hold -> Request] /\ req[g] \in Request /\ booking \in [Hold -> BookingRow]
  BY DEF TypeOK
<1>2. /\ req[g].step = "inserted" /\ req' = [req EXCEPT ![g].step = "committed"]
      /\ booking' = [booking EXCEPT ![g] = [status |-> "standing", deal |-> req[g].deal,
                                            stay |-> req[g].stay]]
      /\ deal' = [e \in Deal |-> IF e = req[g].deal THEN Bumped(deal[e]) ELSE deal[e]]
      /\ UNCHANGED <<wire, strip>>
  BY DEF Commit, Goes
<1>3. ASSUME NEW d \in Deal, d = req[g].deal
      PROVE  /\ InStock(d) /\ req[g].count = deal[d].claimed + 1
             /\ deal'[d].claimed = deal[d].claimed + 1
             /\ deal'[d].total = deal[d].total
             /\ deal'[d].from = deal[d].from /\ deal'[d].to = deal[d].to
             /\ deal'[d].status = IF deal[d].claimed + 1 = deal[d].total
                                  THEN "SOLD_OUT" ELSE "ACTIVE"
  <2>1. InStock(d) /\ req[g].count = deal[d].claimed + 1
    BY <1>2, <1>3 DEF RowsHeld, InClaim
  <2>2. deal'[d] = Bumped(deal[d])
    BY <1>2, <1>3
  <2>3. deal[d].status = "ACTIVE" /\ deal[d] \in DealRow
    BY <2>1, RowType DEF InStock
  <2> QED BY <2>1, <2>2, <2>3 DEF Bumped, DealRow
<1>4. \A h \in Hold \ {g} : req'[h] = req[h] /\ booking'[h] = booking[h]
  BY <1>1, <1>2
<1>5. /\ req'[g].step = "committed" /\ req'[g].deal = req[g].deal
      /\ req'[g].count = req[g].count /\ booking'[g].deal = req[g].deal
  BY <1>1, <1>2 DEF Request
<1>6. \A d \in Deal \ {req[g].deal} : deal'[d] = deal[d]
  BY <1>2
<1> QED BY <1>2, <1>3, <1>4, <1>5, <1>6

(* The job moves statuses forward and nothing else. *)
LEMMA Swept ==
  ASSUME TypeOK, NEW d \in Deal
  PROVE  /\ ActivateDue \/ EndExpired =>
              /\ deal'[d].total = deal[d].total /\ deal'[d].claimed = deal[d].claimed
              /\ deal'[d].from = deal[d].from /\ deal'[d].to = deal[d].to
              /\ UNCHANGED <<req, booking, wire, strip>>
         /\ ActivateDue => \/ deal'[d] = deal[d]
                           \/ deal[d].status = "SCHEDULED" /\ deal'[d].status = "ACTIVE"
         /\ EndExpired => \/ deal'[d] = deal[d]
                          \/ /\ deal[d].status \in {"SCHEDULED", "ACTIVE"} /\ RowFree(d)
                             /\ deal'[d].status = "ENDED"
<1>1. deal[d] \in DealRow
  BY RowType
<1>2. CASE ActivateDue
  BY <1>1, <1>2 DEF ActivateDue, DealRow, EndExpired
<1>3. CASE EndExpired
  BY <1>1, <1>3 DEF ActivateDue, DealRow, EndExpired, Over
<1> QED BY <1>2, <1>3
-----------------------------------------------------------------------------
(* A claim keeps its row to itself until it commits or is abandoned. *)
LEMMA RowsHeldStep ==
  ASSUME DealInvariant, [Next]_vars
  PROVE  RowsHeld'
<1>0. TypeOK /\ RowsHeld
  BY DEF DealInvariant
<1>1. CASE Aside
  BY <1>0, <1>1, AsideKeeps DEF RowsHeld, InClaim, InStock
<1>2. ASSUME NEW d \in Deal, NEW offer \in Offers[d], CreateDeal(d, offer)
      PROVE  RowsHeld'
  <2>1. \A g \in Hold : InClaim(g) => req[g].deal # d
    BY <1>0, <1>2, Created DEF RowsHeld, InStock
  <2> QED BY <1>0, <1>2, <2>1, Created DEF RowsHeld, InClaim, InStock
<1>3. ASSUME NEW g \in Hold, NoClaim(g)
      PROVE  RowsHeld'
  <2>1. \A h \in Hold : InClaim(h)' => h # g /\ InClaim(h) /\ req'[h] = req[h]
    BY <1>0, <1>3, NoClaimKeeps DEF InClaim
  <2> QED BY <1>0, <1>3, <2>1, NoClaimKeeps DEF RowsHeld, InStock
<1>4. ASSUME NEW g \in Hold, TryClaim(g)
      PROVE  RowsHeld'
  <2>1. /\ deal' = deal /\ InStock(req[g].deal) /\ RowFree(req[g].deal)
        /\ \A h \in Hold \ {g} : req'[h] = req[h]
        /\ req'[g].deal = req[g].deal /\ req'[g].count = deal[req[g].deal].claimed + 1
    BY <1>0, <1>4, RequestType DEF TryClaim, Request
  <2>2. \A h \in Hold \ {g} : InClaim(h) => req[h].deal # req[g].deal
    BY <2>1 DEF RowFree, Claiming, InClaim
  <2> QED BY <1>0, <2>1, <2>2 DEF RowsHeld, InClaim, InStock
<1>5. ASSUME NEW g \in Hold, InsertHold(g)
      PROVE  RowsHeld'
  <2>1. /\ deal' = deal /\ \A h \in Hold \ {g} : req'[h] = req[h]
        /\ req'[g].deal = req[g].deal /\ req'[g].count = req[g].count
        /\ req[g].deal \in Deal => req[g].step = "claimed"
    BY <1>0, <1>5, RequestType, ConstantFacts DEF InsertHold, Inserting, Goes, Request
  <2>2. \A h \in Hold : InClaim(h)' => InClaim(h)
    BY <2>1 DEF InClaim
  <2> QED BY <1>0, <2>1, <2>2 DEF RowsHeld, InStock
<1>6. ASSUME NEW g \in Hold, Commit(g)
      PROVE  RowsHeld'
  <2>1. \A h \in Hold : InClaim(h)' => h # g /\ InClaim(h) /\ req'[h] = req[h]
    BY <1>0, <1>6, Committed DEF InClaim
  <2>2. ASSUME NEW h \in Hold, InClaim(h)'
        PROVE  deal'[req[h].deal] = deal[req[h].deal]
    <3>1. req[g].deal \in Deal => InClaim(g)
      BY <1>0, <1>6, Committed DEF InClaim
    <3>2. req[h].deal \in Deal /\ req[h].deal # req[g].deal
      BY <1>0, <2>1, <2>2, <3>1 DEF RowsHeld, InClaim
    <3> QED BY <1>0, <1>6, <3>2, Committed
  <2> QED BY <1>0, <2>1, <2>2 DEF RowsHeld, InStock
<1>7. ASSUME NEW g \in Hold, Answer(g) \/ BookingReleased(g)
      PROVE  RowsHeld'
  <2>1. /\ deal' = deal
        /\ \A h \in Hold : InClaim(h)' => InClaim(h) /\ req'[h] = req[h]
    BY <1>0, <1>7, RequestType DEF Answer, BookingReleased, InClaim, Fresh
  <2> QED BY <1>0, <2>1 DEF RowsHeld, InStock
<1>8. CASE ActivateDue \/ EndExpired
  <2>1. \A g \in Hold : InClaim(g) => req[g].deal \in Deal /\ ~RowFree(req[g].deal)
    BY DEF InClaim, RowFree, Claiming
  <2>2. \A g \in Hold : InClaim(g) => deal'[req[g].deal] = deal[req[g].deal]
    BY <1>0, <1>8, <2>1, Swept DEF RowsHeld, InStock
  <2>3. req' = req
    BY <1>8 DEF ActivateDue, EndExpired
  <2> QED BY <1>0, <2>2, <2>3 DEF RowsHeld, InClaim, InStock
<1> QED BY <1>1, <1>2, <1>3, <1>4, <1>5, <1>6, <1>7, <1>8, NextIs

(* Only the commit books, and only its own row. *)
LEMMA BookedStep ==
  ASSUME DealInvariant, [Next]_vars
  PROVE  BookedAtCommit'
<1>0. TypeOK /\ RowsHeld /\ BookedAtCommit
  BY DEF DealInvariant
<1>1. CASE Aside
  BY <1>0, <1>1, AsideKeeps DEF BookedAtCommit
<1>2. ASSUME NEW d \in Deal, NEW offer \in Offers[d], CreateDeal(d, offer)
      PROVE  BookedAtCommit'
  BY <1>0, <1>2, Created DEF BookedAtCommit
<1>3. ASSUME NEW g \in Hold, NoClaim(g)
      PROVE  BookedAtCommit'
  BY <1>0, <1>3, NoClaimKeeps DEF BookedAtCommit
<1>4. ASSUME NEW g \in Hold, TryClaim(g) \/ InsertHold(g) \/ Answer(g)
      PROVE  BookedAtCommit'
  BY <1>0, <1>4, RequestType
     DEF TryClaim, InsertHold, Inserting, Goes, Answer, Fresh, Request, BookedAtCommit
<1>5. ASSUME NEW g \in Hold, Commit(g)
      PROVE  BookedAtCommit'
  BY <1>0, <1>5, Committed DEF BookedAtCommit
<1>6. ASSUME NEW g \in Hold, BookingReleased(g)
      PROVE  BookedAtCommit'
  BY <1>0, <1>6 DEF BookingReleased, BookedAtCommit, TypeOK, BookingRow
<1>7. CASE ActivateDue \/ EndExpired
  BY <1>0, <1>7 DEF ActivateDue, EndExpired, BookedAtCommit
<1> QED BY <1>1, <1>2, <1>3, <1>4, <1>5, <1>6, <1>7, NextIs

-----------------------------------------------------------------------------
(* The count goes up by one with a WHERE clause that leaves room for it.   *)
LEMMA StockStep ==
  ASSUME DealInvariant, [Next]_vars
  PROVE  StockNeverOversold'
<1>0. TypeOK /\ RowsHeld /\ StockNeverOversold
  BY DEF DealInvariant
<1>1. ASSUME NEW d \in Deal, NEW offer \in Offers[d], CreateDeal(d, offer)
      PROVE  StockNeverOversold'
  BY <1>0, <1>1, Created, ConstantFacts DEF StockNeverOversold, Left
<1>2. ASSUME NEW g \in Hold, Commit(g)
      PROVE  StockNeverOversold'
  BY <1>0, <1>2, Committed, RowType DEF StockNeverOversold, Left, InStock
<1>3. CASE ActivateDue \/ EndExpired
  BY <1>0, <1>3, Swept, RowType DEF StockNeverOversold, Left
<1>4. CASE deal' = deal
  BY <1>0, <1>4 DEF StockNeverOversold, Left
<1> QED BY <1>0, <1>1, <1>2, <1>3, <1>4, RowWrites

(* The claim and the booking are of one transaction. *)
LEMMA ClaimsStep ==
  ASSUME DealInvariant, [Next]_vars
  PROVE  ClaimsAreBookings'
<1>0. TypeOK /\ RowsHeld /\ BookedAtCommit /\ NewsOverstates /\ ClaimsAreBookings
  BY DEF DealInvariant
<1>1. ASSUME NEW g \in Hold, Commit(g), NEW d \in Deal
      PROVE  deal'[d].claimed = Cardinality(HoldsOf(d)')
  <2>1. CASE d = req[g].deal
    <3>1. g \notin HoldsOf(d)
      BY <1>0, <1>1, Committed, ConstantFacts DEF BookedAtCommit, HoldsOf
    <3>2. HoldsOf(d)' = HoldsOf(d) \cup {g}
      BY <1>0, <1>1, <2>1, Committed DEF HoldsOf
    <3>3. IsFiniteSet(HoldsOf(d))
      BY ConstantsAssumption, FS_Subset DEF HoldsOf
    <3>4. Cardinality(HoldsOf(d)') = Cardinality(HoldsOf(d)) + 1
      BY <3>1, <3>2, <3>3, FS_AddElement
    <3> QED BY <1>0, <1>1, <2>1, <3>4, Committed DEF ClaimsAreBookings
  <2>2. CASE d # req[g].deal
    <3>1. g \notin HoldsOf(d)
      BY <1>0, <1>1, Committed, ConstantFacts DEF BookedAtCommit, HoldsOf
    <3>2. HoldsOf(d)' = HoldsOf(d)
      BY <1>0, <1>1, <2>2, <3>1, Committed DEF HoldsOf
    <3> QED BY <1>0, <1>1, <2>2, <3>2, Committed DEF ClaimsAreBookings
  <2> QED BY <2>1, <2>2
<1>2. ASSUME \A g \in Hold : booking'[g].deal = booking[g].deal,
             \A d \in Deal : deal'[d].claimed = deal[d].claimed
      PROVE  ClaimsAreBookings'
  <2>1. \A d \in Deal : HoldsOf(d)' = HoldsOf(d)
    BY <1>2 DEF HoldsOf
  <2> QED BY <1>0, <1>2, <2>1 DEF ClaimsAreBookings
<1>3. ASSUME NEW d \in Deal, NEW offer \in Offers[d], CreateDeal(d, offer)
      PROVE  ClaimsAreBookings'
  BY <1>0, <1>2, <1>3, Created DEF NewsOverstates
<1>4. CASE ActivateDue \/ EndExpired
  <2>1. booking' = booking /\ \A d \in Deal : deal'[d].claimed = deal[d].claimed
    BY <1>0, <1>4, Swept DEF ActivateDue, EndExpired
  <2> QED BY <1>2, <2>1
<1>5. CASE Aside
  BY <1>2, <1>5, AsideKeeps
<1>6. ASSUME NEW g \in Hold, NoClaim(g) \/ TryClaim(g) \/ InsertHold(g) \/ Answer(g)
      PROVE  ClaimsAreBookings'
  <2>1. UNCHANGED <<deal, booking>>
    BY <1>0, <1>6, NoClaimKeeps DEF TryClaim, InsertHold, Answer
  <2> QED BY <1>2, <2>1
<1>7. ASSUME NEW g \in Hold, BookingReleased(g)
      PROVE  ClaimsAreBookings'
  <2>1. deal' = deal /\ \A h \in Hold : booking'[h].deal = booking[h].deal
    BY <1>0, <1>7 DEF BookingReleased, TypeOK, BookingRow
  <2> QED BY <1>2, <2>1
<1>8. ASSUME NEW g \in Hold, Commit(g)
      PROVE  ClaimsAreBookings'
  BY <1>1, <1>8 DEF ClaimsAreBookings
<1> QED BY <1>3, <1>4, <1>5, <1>6, <1>7, <1>8, NextIs

(* The exclusion constraint, and statuses that only move forward. *)
LEMMA WindowsStep ==
  ASSUME DealInvariant, [Next]_vars
  PROVE  WindowsApart'
<1>0. TypeOK /\ RowsHeld /\ WindowsApart
  BY DEF DealInvariant
<1>1. ASSUME NEW d \in Deal, NEW offer \in Offers[d], CreateDeal(d, offer)
      PROVE  WindowsApart'
  <2>1. \A e \in Deal : deal[e].status \in {"SCHEDULED", "ACTIVE"} =>
          ~Overlap(e, offer.from, offer.to)
    BY <1>1 DEF CreateDeal, WindowTaken
  <2> QED BY <1>0, <1>1, <2>1, Created DEF WindowsApart, Overlap
<1>2. ASSUME \A d \in Deal :
               /\ deal'[d].from = deal[d].from /\ deal'[d].to = deal[d].to
               /\ deal'[d].status \in {"SCHEDULED", "ACTIVE"} =>
                    deal[d].status \in {"SCHEDULED", "ACTIVE"}
      PROVE  WindowsApart'
  BY <1>0, <1>2 DEF WindowsApart, Overlap
<1>3. ASSUME NEW g \in Hold, Commit(g)
      PROVE  WindowsApart'
  <2>1. \A d \in Deal :
          /\ deal'[d].from = deal[d].from /\ deal'[d].to = deal[d].to
          /\ deal'[d].status \in {"SCHEDULED", "ACTIVE"} =>
               deal[d].status \in {"SCHEDULED", "ACTIVE"}
    BY <1>0, <1>3, Committed DEF InStock
  <2> QED BY <1>2, <2>1
<1>4. CASE ActivateDue \/ EndExpired
  <2>1. \A d \in Deal :
          /\ deal'[d].from = deal[d].from /\ deal'[d].to = deal[d].to
          /\ deal'[d].status \in {"SCHEDULED", "ACTIVE"} =>
               deal[d].status \in {"SCHEDULED", "ACTIVE"}
    BY <1>0, <1>4, Swept
  <2> QED BY <1>2, <2>1
<1>5. CASE deal' = deal
  BY <1>2, <1>5
<1> QED BY <1>0, <1>1, <1>3, <1>4, <1>5, RowWrites
-----------------------------------------------------------------------------
(* A page cannot be told less than what is left: what is published is what *)
(* is left or more, and what is left only shrinks.                         *)
LEMMA NewsStep ==
  ASSUME DealInvariant, [Next]_vars
  PROVE  NewsOverstates' /\ StripNeverUnderstates'
<1>0. TypeOK /\ RowsHeld /\ StockNeverOversold /\ NewsOverstates /\ StripNeverUnderstates
  BY DEF DealInvariant
<1> DEFINE Shrinks(d) == /\ Left(d)' <= Left(d)
                         /\ deal'[d].claimed >= deal[d].claimed
                         /\ deal'[d].status # "NONE"
<1>1. \A d \in Deal : Left(d) \in 0 .. Quantity /\ deal[d].claimed \in 0 .. Quantity
  BY <1>0, EventType, RowType
<1>2. TypeOK'
  BY TypeStep
<1>3. \A d \in Deal : Left(d)' \in Int /\ deal'[d].claimed \in Nat
  <2>1. \A d \in Deal : deal'[d].total \in 0 .. Quantity /\ deal'[d].claimed \in 0 .. Quantity
    BY <1>2 DEF TypeOK, DealRow
  <2> QED BY <2>1, ConstantFacts DEF Left
<1>4. ASSUME NEW g \in Hold, Commit(g)
      PROVE  NewsOverstates' /\ StripNeverUnderstates'
  <2>1. \A d \in Deal : \/ deal'[d] = deal[d] /\ Left(d)' = Left(d)
                        \/ Shrinks(d) /\ deal[d].status # "NONE"
    <3>1. ASSUME NEW d \in Deal, d = req[g].deal
          PROVE  Shrinks(d) /\ deal[d].status # "NONE"
      BY <1>0, <1>4, <3>1, Committed, RowType DEF Left, InStock
    <3>2. ASSUME NEW d \in Deal, d # req[g].deal
          PROVE  deal'[d] = deal[d] /\ Left(d)' = Left(d)
      BY <1>0, <1>4, <3>2, Committed DEF Left
    <3> QED BY <3>1, <3>2
  <2>2. /\ \A h \in Hold \ {g} : req'[h] = req[h]
        /\ UNCHANGED <<wire, strip>>
        /\ req'[g].deal = req[g].deal /\ req'[g].count = req[g].count
    BY <1>0, <1>4, Committed
  <2>3. \A m \in wire : m.deal \in Deal /\ m.left \in 0 .. Quantity
    BY <1>0 DEF TypeOK, Event
  <2>4. \A m \in wire : m.left >= Left(m.deal)' /\ deal'[m.deal].status # "NONE"
    BY <1>0, <1>1, <1>3, <2>1, <2>3 DEF NewsOverstates
  <2>5. ASSUME NEW h \in Hold, req'[h].step = "committed", req'[h].deal \in Deal
        PROVE  req'[h].count <= deal'[req'[h].deal].claimed
               /\ deal'[req'[h].deal].status # "NONE"
    <3>1. CASE h = g
      BY <1>0, <1>1, <1>4, <2>5, <3>1, Committed
    <3>2. CASE h # g
      <4>1. req[h].count \in Nat
        BY <1>0, RequestType
      <4> QED BY <1>0, <1>1, <1>3, <2>1, <2>2, <2>5, <3>2, <4>1 DEF NewsOverstates
    <3> QED BY <3>1, <3>2
  <2>6. \A d \in Deal : deal'[d].status = "NONE" => deal'[d].claimed = 0 /\ strip'[d] = Absent
    BY <1>0, <2>1, <2>2 DEF NewsOverstates
  <2>7. ASSUME NEW d \in Deal, strip'[d] # Absent
        PROVE  strip'[d] >= Left(d)'
    <3>1. strip[d] >= Left(d) /\ strip[d] \in 0 .. Quantity
      BY <1>0, <2>2, <2>7 DEF StripNeverUnderstates, TypeOK
    <3> QED BY <1>1, <1>3, <2>1, <2>2, <3>1
  <2> QED BY <2>2, <2>4, <2>5, <2>6, <2>7 DEF NewsOverstates, StripNeverUnderstates
<1>5. ASSUME NEW d \in Deal, NEW offer \in Offers[d], CreateDeal(d, offer)
      PROVE  NewsOverstates' /\ StripNeverUnderstates'
  <2>1. strip[d] = Absent /\ \A m \in wire : m.deal # d
    BY <1>0, <1>5, Created DEF NewsOverstates
  <2>2. wire' = wire
    <3>1. strip[[deal |-> d, left |-> offer.total].deal] = Absent
      BY <2>1
    <3>2. Published({[deal |-> d, left |-> offer.total]}) = wire
      BY <3>1 DEF Published
    <3> QED BY <1>5, <3>2 DEF CreateDeal
  <2>3. \A e \in Deal \ {d} : Left(e)' = Left(e) /\ deal'[e] = deal[e]
    BY <1>0, <1>5, Created DEF Left
  <2>4. \A m \in wire : m.deal \in Deal
    BY <1>0 DEF TypeOK, Event
  <2>5. \A g \in Hold : req[g].step = "committed" => req[g].deal # d
    BY <1>0, <1>5, Created DEF NewsOverstates
  <2> QED BY <1>0, <1>5, <2>1, <2>2, <2>3, <2>4, <2>5, Created
          DEF NewsOverstates, StripNeverUnderstates
<1>6. CASE ActivateDue \/ EndExpired
  <2>1. \A d \in Deal : /\ Left(d)' = Left(d) /\ deal'[d].claimed = deal[d].claimed
                        /\ deal'[d].status = "NONE" <=> deal[d].status = "NONE"
    BY <1>0, <1>6, Swept DEF Left
  <2>2. UNCHANGED <<req, booking, wire, strip>>
    BY <1>6 DEF ActivateDue, EndExpired
  <2>3. \A m \in wire : m.deal \in Deal
    BY <1>0 DEF TypeOK, Event
  <2> QED BY <1>0, <2>1, <2>2, <2>3 DEF NewsOverstates, StripNeverUnderstates
<1>7. ASSUME deal' = deal,
             \A m \in wire' : m \in wire \/ /\ m.deal \in Deal /\ m.left >= Left(m.deal)
                                            /\ deal[m.deal].status # "NONE",
             \A g \in Hold : req'[g].step = "committed" => req'[g] = req[g],
             \A d \in Deal : \/ strip'[d] \in {strip[d], Absent}
                             \/ /\ strip'[d] >= Left(d) /\ deal[d].status # "NONE"
      PROVE  NewsOverstates' /\ StripNeverUnderstates'
  <2>1. \A d : Left(d)' = Left(d)
    BY <1>7 DEF Left
  <2> QED BY <1>0, <1>7, <2>1 DEF NewsOverstates, StripNeverUnderstates
<1>8. ASSUME NEW g \in Hold, NoClaim(g) \/ TryClaim(g) \/ InsertHold(g) \/ BookingReleased(g)
      PROVE  NewsOverstates' /\ StripNeverUnderstates'
  <2>1. UNCHANGED <<deal, wire, strip>>
    BY <1>0, <1>8, NoClaimKeeps DEF TryClaim, InsertHold, BookingReleased
  <2>2. \A h \in Hold : req'[h].step = "committed" => req'[h] = req[h]
    BY <1>0, <1>8, NoClaimKeeps, RequestType
       DEF TryClaim, InsertHold, Goes, BookingReleased, Request
  <2> QED BY <1>7, <2>1, <2>2
<1>9. ASSUME NEW g \in Hold, Answer(g)
      PROVE  NewsOverstates' /\ StripNeverUnderstates'
  <2>1. UNCHANGED <<deal, strip>>
        /\ \A h \in Hold : req'[h].step = "committed" => req'[h] = req[h]
    BY <1>0, <1>9, RequestType DEF Answer, Fresh, Request
  <2>2. CASE req[g].deal = NoDeal
    BY <1>7, <1>9, <2>1, <2>2 DEF Answer
  <2>3. CASE req[g].deal # NoDeal
    <3>1. req[g].deal \in Deal
      BY <1>0, <2>3, RequestType
    <3>2. /\ ClaimEvent(g).deal = req[g].deal
          /\ ClaimEvent(g).left >= Left(req[g].deal)
          /\ deal[req[g].deal].status # "NONE"
      BY <1>0, <1>9, <3>1, EventType DEF Answer, NewsOverstates
    <3>3. \A m \in wire' : m \in wire \/ m = ClaimEvent(g)
      BY <1>9, <2>3 DEF Answer, Published
    <3> QED BY <1>7, <2>1, <3>1, <3>2, <3>3
  <2> QED BY <2>2, <2>3
<1>10. CASE Aside
  <2>0. UNCHANGED <<deal, req>>
    BY <1>10, AsideKeeps
  <2>1. CASE LockExpires \/ SweepFails \/ UnitToggled \/ Tick \/ UNCHANGED vars
    <3>1. UNCHANGED <<wire, strip>>
      BY <2>1 DEF LockExpires, SweepFails, UnitToggled, Tick, vars
    <3> QED BY <1>7, <2>0, <3>1
  <2>2. CASE OpenStrip
    <3>1. ASSUME NEW d \in Deal, strip'[d] # Absent
          PROVE  strip'[d] >= Left(d) /\ deal[d].status # "NONE"
      <4>1. strip'[d] = Left(d) /\ Listed(d)
        BY <2>2, <3>1 DEF OpenStrip
      <4> QED BY <1>1, <4>1 DEF Listed, InStock
    <3>2. wire' = wire
      BY <2>2 DEF OpenStrip
    <3> QED BY <1>7, <2>0, <3>1, <3>2
  <2>3. ASSUME NEW d \in Deal, SweepTells(d)
        PROVE  NewsOverstates' /\ StripNeverUnderstates'
    <3>0. strip' = strip /\ wire' = Published({[deal |-> d, left |-> Left(d)]})
      BY <2>3 DEF SweepTells
    <3>1. \A m \in wire' :
            m \in wire \/ (m = [deal |-> d, left |-> Left(d)] /\ strip[m.deal] # Absent)
      BY <3>0 DEF Published
    <3>2. strip[d] # Absent => deal[d].status # "NONE"
      BY <1>0 DEF NewsOverstates
    <3>3. \A m \in wire' : m \in wire \/ /\ m.deal \in Deal /\ m.left >= Left(m.deal)
                                         /\ deal[m.deal].status # "NONE"
      BY <1>1, <3>1, <3>2
    <3> QED BY <1>7, <2>0, <3>0, <3>3
  <2>4. ASSUME NEW m \in wire, Deliver(m)
        PROVE  NewsOverstates' /\ StripNeverUnderstates'
    <3>1. /\ m.deal \in Deal /\ m.left >= Left(m.deal) /\ deal[m.deal].status # "NONE"
      BY <1>0 DEF TypeOK, Event, NewsOverstates
    <3>2. \A d \in Deal : strip'[d] \in {strip[d], Absent} \/ (d = m.deal /\ strip'[d] = m.left)
      <4>1. strip \in [Deal -> (0 .. Quantity) \cup {Absent}]
        BY <1>0 DEF TypeOK
      <4>2. strip' = [strip EXCEPT ![m.deal] = IF strip[m.deal] = Absent
                                               THEN Absent ELSE m.left]
        BY <2>4 DEF Deliver
      <4>3. \A d \in Deal : d # m.deal => strip'[d] = strip[d]
        BY <4>1, <4>2
      <4>4. strip'[m.deal] \in {strip[m.deal], m.left}
        BY <3>1, <4>1, <4>2
      <4> QED BY <3>1, <4>3, <4>4
    <3>3. wire' \subseteq wire
      BY <2>4 DEF Deliver
    <3> QED BY <1>7, <2>0, <3>1, <3>2, <3>3
  <2> QED BY <1>10, <2>1, <2>2, <2>3, <2>4 DEF Aside
<1> QED BY <1>4, <1>5, <1>6, <1>8, <1>9, <1>10, NextIs

-----------------------------------------------------------------------------
(* The inductive invariant holds initially. *)
LEMMA InitiallyDeals == Init => DealInvariant
<1> SUFFICES ASSUME Init PROVE DealInvariant
  OBVIOUS
<1>1. TypeOK
  BY ConstantFacts
     DEF Init, TypeOK, DealRow, DealStatus, Fresh, Request, Step, BookingRow, Event
<1>2. ASSUME NEW d \in Deal
      PROVE  deal[d].claimed = Cardinality(HoldsOf(d))
  <2>1. HoldsOf(d) = {}
    BY ConstantFacts DEF Init, HoldsOf
  <2> QED BY <2>1, FS_EmptySet DEF Init
<1>3. ClaimsAreBookings
  BY <1>2 DEF ClaimsAreBookings
<1>4. StockNeverOversold /\ StripNeverUnderstates /\ NewsOverstates
  BY DEF Init, StockNeverOversold, StripNeverUnderstates, NewsOverstates, Left, Fresh
<1>5. RowsHeld /\ BookedAtCommit /\ WindowsApart
  BY DEF Init, RowsHeld, InClaim, BookedAtCommit, WindowsApart, Fresh
<1> QED BY <1>1, <1>3, <1>4, <1>5 DEF DealInvariant

(* The inductive invariant holds of every behaviour. *)
THEOREM DealInvariantHolds == Spec => []DealInvariant
<1>1. DealInvariant /\ [Next]_vars => DealInvariant'
  BY TypeStep, ClaimsStep, StockStep, RowsHeldStep, BookedStep, WindowsStep, NewsStep
     DEF DealInvariant
<1> QED BY <1>1, InitiallyDeals, PTL DEF Spec

(* Every variable of the flash deals keeps its type. *)
THEOREM DealTypes == Spec => []TypeOK
<1>1. DealInvariant => TypeOK
  BY DEF DealInvariant
<1> QED BY <1>1, DealInvariantHolds, PTL

(* However claims, lost locks, failed transactions and sweeps interleave:  *)
(* a piece is claimed exactly when its booking exists.                     *)
THEOREM EveryClaimIsABooking == Spec => []ClaimsAreBookings
<1>1. DealInvariant => ClaimsAreBookings
  BY DEF DealInvariant
<1> QED BY <1>1, DealInvariantHolds, PTL

(* A deal is never oversold, and never open with nothing left. *)
THEOREM NeverOversold == Spec => []StockNeverOversold
<1>1. DealInvariant => StockNeverOversold
  BY DEF DealInvariant
<1> QED BY <1>1, DealInvariantHolds, PTL

(* At no moment does the feed offer the unit under two deals. *)
THEOREM OneDealAtATime == Spec => []OneOfferPerUnit
<1>1. DealInvariant => OneOfferPerUnit
  <2> SUFFICES ASSUME DealInvariant, NEW d \in Deal, NEW e \in Deal, Listed(d), Listed(e)
               PROVE  d = e
    BY DEF OneOfferPerUnit
  <2>1. TypeOK /\ WindowsApart /\ now \in Nat
    BY ConstantFacts DEF DealInvariant, TypeOK
  <2>2. /\ deal[d].from <= now /\ now < deal[d].to /\ deal[d].status = "ACTIVE"
        /\ deal[e].from <= now /\ now < deal[e].to /\ deal[e].status = "ACTIVE"
    BY DEF Listed, InStock
  <2>3. Overlap(d, deal[e].from, deal[e].to)
    BY <2>1, <2>2, RowType, ConstantFacts DEF Overlap
  <2> QED BY <2>1, <2>2, <2>3 DEF WindowsApart
<1> QED BY <1>1, DealInvariantHolds, PTL

(* In whatever order events arrive, a page shows at least what is left. *)
THEOREM PagesNeverUnderstate == Spec => []StripNeverUnderstates
<1>1. DealInvariant => StripNeverUnderstates
  BY DEF DealInvariant
<1> QED BY <1>1, DealInvariantHolds, PTL
-----------------------------------------------------------------------------
(* A step that leaves statuses, totals and holds alone is no step of a     *)
(* sale.                                                                   *)
LEMMA SaleUnmoved ==
  ASSUME \A d \in Deal : deal'[d].status = deal[d].status /\ deal'[d].total = deal[d].total,
         \A g \in Hold : booking'[g].deal = booking[g].deal
  PROVE  AllShown' = AllShown
<1>1. \A d \in Deal : HoldsOf(d)' = HoldsOf(d)
  BY DEF HoldsOf
<1>2. \A d \in Deal : Shown(d)' = Shown(d)
  BY <1>1 DEF Shown
<1> QED BY <1>2 DEF AllShown

(* A creation offers a sale. *)
LEMMA SaleOffers ==
  ASSUME TypeOK, NEW d \in Deal, NEW offer \in Offers[d], CreateDeal(d, offer)
  PROVE  Sale!Next
<1>1. /\ deal[d].status = "NONE" /\ deal'[d].status \in {"ACTIVE", "SCHEDULED"}
      /\ deal'[d].total = offer.total /\ offer.total \in 1 .. Quantity
      /\ \A e \in Deal \ {d} : deal'[e] = deal[e]
      /\ booking' = booking
  BY Created
<1>2. \A e \in Deal : HoldsOf(e)' = HoldsOf(e)
  BY <1>1 DEF HoldsOf
<1>3. PICK phase \in {"announced", "open"} : SalePhase(deal'[d].status) = phase
  BY <1>1 DEF SalePhase
<1>4. AllShown[d].phase = "unopened"
  BY <1>1 DEF AllShown, Shown, SalePhase
<1>5. Shown(d)' = [Shown(d) EXCEPT !.phase = phase, !.total = offer.total]
  <2>1. Shown(d)' = [phase |-> phase, total |-> offer.total, holds |-> HoldsOf(d)]
    BY <1>1, <1>2, <1>3 DEF Shown
  <2> DEFINE moved == [Shown(d) EXCEPT !.phase = phase]
  <2>2. moved = [phase |-> phase, total |-> deal[d].total, holds |-> HoldsOf(d)]
    BY DEF Shown
  <2> HIDE DEF moved
  <2>3. [moved EXCEPT !.total = offer.total]
          = [phase |-> phase, total |-> offer.total, holds |-> HoldsOf(d)]
    BY <2>2
  <2>4. [Shown(d) EXCEPT !.phase = phase, !.total = offer.total]
          = [moved EXCEPT !.total = offer.total]
    BY DEF moved, Shown
  <2> QED BY <2>1, <2>3, <2>4
<1>6. \A e \in Deal \ {d} : Shown(e)' = Shown(e)
  BY <1>1, <1>2 DEF Shown
<1>7. AllShown' = [AllShown EXCEPT ![d].phase = phase, ![d].total = offer.total]
  BY <1>5, <1>6 DEF AllShown
<1>8. Sale!Offer(d, phase, offer.total)
  BY <1>4, <1>7 DEF Sale!Offer
<1> QED BY <1>1, <1>8 DEF Sale!Next

(* A commit with a claim sells one piece. *)
LEMMA SaleSells ==
  ASSUME TypeOK, RowsHeld, BookedAtCommit, ClaimsAreBookings, NEW g \in Hold, Commit(g)
  PROVE  Sale!Next \/ AllShown' = AllShown
<1>1. CASE req[g].deal \notin Deal
  <2>1. booking'[g].deal = NoDeal /\ booking[g].deal = NoDeal
    BY <1>1, Committed, RequestType DEF BookedAtCommit
  <2>2. \A d \in Deal : deal'[d] = deal[d]
    BY <1>1, Committed
  <2>3. \A h \in Hold : booking'[h].deal = booking[h].deal
    BY <2>1, Committed
  <2> QED BY <2>2, <2>3, SaleUnmoved
<1>2. ASSUME NEW d \in Deal, d = req[g].deal
      PROVE  Sale!Next
  <2>1. /\ deal[d].status = "ACTIVE" /\ deal[d].claimed < deal[d].total
        /\ deal'[d].status \in {"ACTIVE", "SOLD_OUT"} /\ deal'[d].total = deal[d].total
        /\ \A e \in Deal \ {d} : deal'[e] = deal[e]
        /\ booking'[g].deal = d /\ \A h \in Hold \ {g} : booking'[h] = booking[h]
    BY <1>2, Committed DEF InStock
  <2>2. booking[g].deal = NoDeal
    BY Committed DEF BookedAtCommit
  <2>3. \A e \in Deal : g \notin HoldsOf(e)
    BY <2>2, ConstantFacts DEF HoldsOf
  <2>4. HoldsOf(d)' = HoldsOf(d) \cup {g} /\ \A e \in Deal \ {d} : HoldsOf(e)' = HoldsOf(e)
    BY <2>1, <2>2, ConstantFacts DEF HoldsOf
  <2>5. Cardinality(HoldsOf(d)) = deal[d].claimed
    BY DEF ClaimsAreBookings
  <2>6. Shown(d)' = [Shown(d) EXCEPT !.holds = @ \cup {g}]
    BY <2>1, <2>4 DEF Shown, SalePhase
  <2>7. \A e \in Deal \ {d} : Shown(e)' = Shown(e)
    BY <2>1, <2>4 DEF Shown
  <2>8. AllShown' = [AllShown EXCEPT ![d].holds = @ \cup {g}]
    BY <2>6, <2>7 DEF AllShown
  <2>9. /\ AllShown[d].phase = "open" /\ AllShown[d].total = deal[d].total
        /\ \A e \in Deal : AllShown[e].holds = HoldsOf(e)
    BY <2>1 DEF AllShown, Shown, SalePhase
  <2>10. /\ \A e \in Deal : g \notin AllShown[e].holds
         /\ Cardinality(AllShown[d].holds) < AllShown[d].total
    BY <2>1, <2>3, <2>5, <2>9
  <2>11. Sale!Cardinality(AllShown[d].holds) = Cardinality(AllShown[d].holds)
    BY DEF Sale!Cardinality, Cardinality
  <2>12. Sale!Sell(d, g)
    BY <2>8, <2>9, <2>10, <2>11 DEF Sale!Sell
  <2> QED BY <2>12 DEF Sale!Next
<1> QED BY <1>1, <1>2

(* The sweep opens and closes sales. *)
LEMMA SaleMoves ==
  ASSUME TypeOK, ActivateDue \/ EndExpired
  PROVE  Sale!Next
<1>0. booking' = booking
  BY DEF ActivateDue, EndExpired
<1>1. \A d \in Deal : HoldsOf(d)' = HoldsOf(d) /\ deal'[d].total = deal[d].total
  BY <1>0, Swept DEF HoldsOf
<1> DEFINE D == {d \in Deal : deal'[d].status # deal[d].status}
<1>2. D \in SUBSET Deal
  OBVIOUS
<1>3. ASSUME NEW phase,
             \A d \in D : SalePhase(deal'[d].status) = phase
      PROVE  AllShown' = [d \in Deal |-> IF d \in D THEN [AllShown[d] EXCEPT !.phase = phase]
                                         ELSE AllShown[d]]
  <2>1. \A d \in D : Shown(d)' = [Shown(d) EXCEPT !.phase = phase]
    BY <1>1, <1>3 DEF Shown
  <2>2. \A d \in Deal \ D : Shown(d)' = Shown(d)
    BY <1>1 DEF Shown
  <2> QED BY <2>1, <2>2 DEF AllShown
<1>4. CASE ActivateDue
  <2>1. \A d \in D : deal[d].status = "SCHEDULED" /\ deal'[d].status = "ACTIVE"
    BY <1>4, Swept
  <2>2. \A d \in D : AllShown[d].phase = "announced" /\ SalePhase(deal'[d].status) = "open"
    BY <2>1 DEF AllShown, Shown, SalePhase
  <2>3. Sale!Move(D, {"announced"}, "open")
    BY <1>2, <1>3, <2>2 DEF Sale!Move
  <2> QED BY <1>2, <2>3 DEF Sale!Next
<1>5. CASE EndExpired
  <2>1. \A d \in D : deal[d].status \in {"SCHEDULED", "ACTIVE"} /\ deal'[d].status = "ENDED"
    BY <1>5, Swept
  <2>2. \A d \in D : /\ AllShown[d].phase \in {"announced", "open"}
                     /\ SalePhase(deal'[d].status) = "closed"
    BY <2>1 DEF AllShown, Shown, SalePhase
  <2>3. Sale!Move(D, {"announced", "open"}, "closed")
    BY <1>2, <1>3, <2>2 DEF Sale!Move
  <2> QED BY <1>2, <2>3 DEF Sale!Next
<1> QED BY <1>4, <1>5

(* Rows, locks, transactions and sweeps implement a sale of counted        *)
(* pieces.                                                                 *)
THEOREM DealsAreCountedSales == Spec => ImplementsSale
<1>1. Init => Sale!Init
  <2> SUFFICES ASSUME Init PROVE Sale!Init
    OBVIOUS
  <2>1. \A d \in Deal : Shown(d) = [phase |-> "unopened", total |-> 0, holds |-> {}]
    <3>1. \A d \in Deal : HoldsOf(d) = {}
      BY ConstantFacts DEF Init, HoldsOf
    <3>2. \A d \in Deal : SalePhase(deal[d].status) = "unopened" /\ deal[d].total = 0
      BY DEF Init, SalePhase
    <3> QED BY <3>1, <3>2, Zenon DEF Shown
  <2> QED BY <2>1 DEF Sale!Init, AllShown
<1>2. DealInvariant /\ [Next]_vars => [Sale!Next]_AllShown
  <2> SUFFICES ASSUME DealInvariant, [Next]_vars
               PROVE  Sale!Next \/ AllShown' = AllShown
    OBVIOUS
  <2>0. TypeOK /\ RowsHeld /\ BookedAtCommit /\ ClaimsAreBookings
    BY DEF DealInvariant
  <2>1. ASSUME NEW d \in Deal, NEW offer \in Offers[d], CreateDeal(d, offer)
        PROVE  Sale!Next
    BY <2>0, <2>1, SaleOffers
  <2>2. ASSUME NEW g \in Hold, Commit(g)
        PROVE  Sale!Next \/ AllShown' = AllShown
    BY <2>0, <2>2, SaleSells
  <2>3. CASE ActivateDue \/ EndExpired
    BY <2>0, <2>3, SaleMoves
  <2>4. CASE Aside
    BY <2>4, AsideKeeps, SaleUnmoved
  <2>5. ASSUME NEW g \in Hold,
               NoClaim(g) \/ TryClaim(g) \/ InsertHold(g) \/ Answer(g) \/ BookingReleased(g)
        PROVE  AllShown' = AllShown
    <3>1. deal' = deal /\ \A h \in Hold : booking'[h].deal = booking[h].deal
      BY <2>0, <2>5, NoClaimKeeps
         DEF TryClaim, InsertHold, Answer, BookingReleased, TypeOK, BookingRow
    <3> QED BY <3>1, SaleUnmoved
  <2> QED BY <2>1, <2>2, <2>3, <2>4, <2>5, NextIs
<1> QED BY <1>1, <1>2, DealInvariantHolds, PTL DEF Spec, ImplementsSale, Sale!Spec

(* What the sale promises of itself: its pieces go to holds one by one.    *)
SaleKept == Sale!Typed /\ Sale!SoldByCount

(* The two modules count alike. *)
LEMMA SaleCounts ==
  ASSUME NEW S
  PROVE  Sale!Cardinality(S) = Cardinality(S)
  BY DEF Sale!Cardinality, Cardinality

LEMMA SaleOffersKeep ==
  ASSUME SaleKept, NEW d \in Deal, NEW phase \in {"announced", "open"}, NEW n \in 1 .. Quantity,
         Sale!Offer(d, phase, n)
  PROVE  SaleKept'
<1>1. AllShown \in [Deal -> Sale!SaleType] /\ AllShown[d].holds = {}
  BY DEF SaleKept, Sale!Typed, Sale!Offer
<1> DEFINE named == [AllShown[d] EXCEPT !.phase = phase]
           offered == [named EXCEPT !.total = n]
           between == [AllShown EXCEPT ![d] = named]
<1>2. AllShown' = [between EXCEPT ![d] = [between[d] EXCEPT !.total = n]]
  BY DEF Sale!Offer
<1>3. /\ offered \in Sale!SaleType /\ offered.holds = {}
      /\ offered.total = n /\ offered.phase = phase
  <2>1. PICK old \in Sale!SaleType : old = AllShown[d]
    BY <1>1
  <2>2. n \in 0 .. Quantity /\ phase \in Sale!Phase
    <3>1. Quantity \in Nat
      BY ConstantFacts
    <3> QED BY <3>1 DEF Sale!Phase
  <2>3. /\ named \in Sale!SaleType /\ named.holds = old.holds /\ named.phase = phase
    BY <2>1, <2>2 DEF Sale!SaleType
  <2> HIDE DEF named
  <2> QED BY <1>1, <2>1, <2>2, <2>3 DEF Sale!SaleType
<1>4. between[d] = named /\ DOMAIN between = Deal /\ \A e \in Deal \ {d} : between[e] = AllShown[e]
  BY <1>1
<1> HIDE DEF between, named
<1>5. AllShown' = [between EXCEPT ![d] = offered]
  BY <1>2, <1>4
<1> HIDE DEF offered
<1>6. AllShown'[d] = offered /\ \A e \in Deal \ {d} : AllShown'[e] = AllShown[e]
  BY <1>4, <1>5
<1>7. AllShown' \in [Deal -> Sale!SaleType]
  BY <1>1, <1>3, <1>4, <1>5
<1>8. Sale!Cardinality({}) = 0
  BY SaleCounts, FS_EmptySet
<1>9. Sale!Typed'
  BY <1>1, <1>3, <1>6, <1>7 DEF SaleKept, Sale!Typed
<1>10. ASSUME NEW e \in Deal
       PROVE  Sale!Cardinality(AllShown'[e].holds) <= AllShown'[e].total
  <2>1. CASE e = d
    BY <1>3, <1>6, <1>8, <2>1
  <2>2. CASE e # d
    BY <1>6, <2>2 DEF SaleKept, Sale!SoldByCount
  <2> QED BY <2>1, <2>2
<1>11. \A e \in Deal : AllShown'[e].holds = AllShown[e].holds
  BY <1>1, <1>3, <1>6
<1>12. Sale!SoldByCount'
  BY <1>10, <1>11 DEF SaleKept, Sale!SoldByCount
<1> QED BY <1>9, <1>12 DEF SaleKept

LEMMA SaleSellsKeep ==
  ASSUME SaleKept, NEW d \in Deal, NEW g \in Hold, Sale!Sell(d, g)
  PROVE  SaleKept'
<1>1. AllShown' = [AllShown EXCEPT ![d].holds = @ \cup {g}]
  BY DEF Sale!Sell
<1>2. AllShown \in [Deal -> Sale!SaleType]
  BY DEF SaleKept, Sale!Typed
<1>3. /\ AllShown' \in [Deal -> Sale!SaleType]
      /\ \A e \in Deal \ {d} : AllShown'[e] = AllShown[e]
      /\ AllShown'[d].total = AllShown[d].total /\ AllShown'[d].phase = AllShown[d].phase
      /\ AllShown'[d].holds = AllShown[d].holds \cup {g}
  BY <1>1, <1>2 DEF Sale!SaleType, Sale!Phase
<1>4. PICK sold \in SUBSET Hold : sold = AllShown[d].holds
  BY <1>2 DEF Sale!SaleType
<1>5. Sale!Cardinality(sold \cup {g}) <= AllShown[d].total
  <2>1. IsFiniteSet(sold)
    BY FS_Subset, ConstantsAssumption
  <2>2. Cardinality(sold) \in Nat
    BY <2>1, FS_CardinalityType
  <2>3. g \notin sold
    BY <1>4 DEF Sale!Sell
  <2>4. Cardinality(sold \cup {g}) = Cardinality(sold) + 1
    BY <2>1, <2>3, FS_AddElement
  <2>5. AllShown[d].total \in Nat
    <3>1. AllShown[d].total \in 0 .. Quantity
      BY <1>2 DEF Sale!SaleType
    <3> QED BY <3>1, ConstantFacts
  <2>6. Cardinality(sold) < AllShown[d].total
    BY <1>4, SaleCounts DEF Sale!Sell
  <2>7. Sale!Cardinality(sold \cup {g}) = Cardinality(sold) + 1
    BY <2>4, SaleCounts
  <2> QED BY <2>2, <2>5, <2>6, <2>7
<1>6. AllShown[d].phase = "open" /\ \A e \in Deal : g \notin AllShown[e].holds
  BY DEF Sale!Sell
<1>7. Sale!Typed'
  BY <1>3, <1>5, <1>6 DEF SaleKept, Sale!Typed
<1>8. ASSUME NEW e \in Deal
      PROVE  Sale!Cardinality(AllShown'[e].holds) <= AllShown'[e].total
  BY <1>3, <1>4, <1>5 DEF SaleKept, Sale!SoldByCount
<1>9. ASSUME NEW e \in Deal, NEW f \in Deal, e # f
      PROVE  AllShown'[e].holds \cap AllShown'[f].holds = {}
  BY <1>3, <1>6, <1>9 DEF SaleKept, Sale!SoldByCount
<1>10. Sale!SoldByCount'
  BY <1>8, <1>9 DEF Sale!SoldByCount
<1> QED BY <1>7, <1>10 DEF SaleKept

LEMMA SaleMovesKeep ==
  ASSUME SaleKept, NEW D \in SUBSET Deal, NEW from \in SUBSET Sale!Phase, NEW to \in {"open", "closed"},
         Sale!Move(D, from, to)
  PROVE  SaleKept'
<1>1. AllShown' = [e \in Deal |-> IF e \in D THEN [AllShown[e] EXCEPT !.phase = to] ELSE AllShown[e]]
  BY DEF Sale!Move
<1>2. AllShown \in [Deal -> Sale!SaleType]
  BY DEF SaleKept, Sale!Typed
<1>3. /\ AllShown' \in [Deal -> Sale!SaleType]
      /\ \A e \in Deal : /\ AllShown'[e].holds = AllShown[e].holds
                         /\ AllShown'[e].total = AllShown[e].total
                         /\ AllShown'[e].phase \in {AllShown[e].phase, to}
  BY <1>1, <1>2 DEF Sale!SaleType, Sale!Phase
<1> QED BY <1>3 DEF SaleKept, Sale!Typed, Sale!SoldByCount

(* So whatever the transactions, locks and sweeps of the deals do, no deal *)
(* has more holds than pieces, and a hold counts for the one deal it was   *)
(* priced with: released, expired or retried, it never counts for another. *)
THEOREM SalesKeepCount == Spec => []Sale!SoldByCount
<1>1. Sale!Init => SaleKept
  <2> SUFFICES ASSUME Sale!Init PROVE SaleKept
    OBVIOUS
  <2>1. AllShown = [d \in Deal |-> [phase |-> "unopened", total |-> 0, holds |-> {}]]
    BY DEF Sale!Init
  <2>2. Sale!Cardinality({}) = 0 /\ 0 \in 0 .. Quantity
    BY FS_EmptySet, SaleCounts, ConstantFacts
  <2> QED BY <2>1, <2>2 DEF SaleKept, Sale!Typed, Sale!SoldByCount, Sale!SaleType, Sale!Phase
<1>2. ASSUME SaleKept, [Sale!Next]_AllShown
      PROVE  SaleKept'
  <2>1. CASE UNCHANGED AllShown
    BY <1>2, <2>1 DEF SaleKept, Sale!Typed, Sale!SoldByCount
  <2>2. ASSUME NEW D \in SUBSET Deal, Sale!Move(D, {"announced"}, "open")
        PROVE  SaleKept'
    BY <1>2, <2>2, SaleMovesKeep DEF Sale!Phase
  <2>3. ASSUME NEW D \in SUBSET Deal, Sale!Move(D, {"announced", "open"}, "closed")
        PROVE  SaleKept'
    BY <1>2, <2>3, SaleMovesKeep DEF Sale!Phase
  <2> QED BY <1>2, <2>1, <2>2, <2>3, SaleOffersKeep, SaleSellsKeep DEF Sale!Next
<1>3. SaleKept => Sale!SoldByCount
  BY DEF SaleKept
<1> QED BY <1>1, <1>2, <1>3, DealsAreCountedSales, PTL DEF ImplementsSale, Sale!Spec

-----------------------------------------------------------------------------
(* The money of a hold, for every price and every rate up to 100 %.        *)

(* A percentage of at most 100 %, in basis points. *)
Rate == 0 .. 10000

(* Division rounds down. *)
LEMMA DivisionRoundsDown ==
  ASSUME NEW n \in Int
  PROVE  \E q \in Int : q = n \div 20000 /\ 20000 * q <= n /\ n < 20000 * q + 20000
  OBVIOUS

(* Math.round of a percentage is off by half a minor unit at the most. *)
LEMMA PercentIsRounded ==
  ASSUME NEW amount \in Nat, NEW pct \in Rate
  PROVE  \E m \in Nat, q \in Int :
            /\ m = amount * pct /\ q = Percent(amount, pct)
            /\ 20000 * q <= 2 * m + 10000 /\ 2 * m + 10000 < 20000 * q + 20000
<1>1. PICK m \in Nat : m = amount * pct
  BY DEF Rate
<1>2. 2 * amount * pct = 2 * m
  BY <1>1 DEF Rate
<1>3. PICK q \in Int : /\ q = (2 * m + 10000) \div 20000
                       /\ 20000 * q <= 2 * m + 10000 /\ 2 * m + 10000 < 20000 * q + 20000
  BY DivisionRoundsDown
<1>4. q = Percent(amount, pct)
  BY <1>2, <1>3 DEF Percent
<1> QED BY <1>1, <1>3, <1>4

(* It never exceeds what it is taken of. *)
LEMMA PercentIsPart ==
  ASSUME NEW amount \in Nat, NEW pct \in Rate
  PROVE  Percent(amount, pct) \in 0 .. amount
<1>1. PICK m \in Nat, q \in Int :
        /\ m = amount * pct /\ q = Percent(amount, pct)
        /\ 20000 * q <= 2 * m + 10000 /\ 2 * m + 10000 < 20000 * q + 20000
  BY PercentIsRounded
<1>2. m <= amount * 10000
  BY <1>1 DEF Rate
<1>3. q >= 0 /\ q <= amount
  BY <1>1, <1>2
<1> QED BY <1>1, <1>3

(* A booking row, of a quote or not. *)
MoneyRow == [base : Int, cleaning : Int, service : Int, taxes : Int, discount : Int,
             total : Int, commission : Int, payout : Int]

(* Whatever row the CHECK constraints let in balances: its credit legs add *)
(* up to the escrowed total and none is negative.  It can be settled       *)
(* exactly when something is left for the host.  This covers rows with a   *)
(* cleaning fee, which no quote has.                                       *)
THEOREM AcceptedRowsSplit ==
  ASSUME NEW b \in MoneyRow, RowAccepted(b)
  PROVE  /\ Balanced(b)
         /\ SplitPosts(b) <=> b.payout + b.cleaning > 0
         /\ SplitPosts(b) => Chargeable(b)
<1>1. /\ b.base \in Int /\ b.cleaning \in Int /\ b.service \in Int /\ b.taxes \in Int
      /\ b.discount \in Int /\ b.total \in Int /\ b.commission \in Int /\ b.payout \in Int
  BY DEF MoneyRow
<1>2. DOMAIN b = {"base", "cleaning", "service", "taxes", "discount", "total", "commission",
                  "payout"}
  BY DEF MoneyRow
<1>3. b.cleaning >= 0 /\ b.service >= 0 /\ b.taxes >= 0 /\ b.commission >= 0 /\ b.payout >= 0
  BY <1>2 DEF RowAccepted
<1>4. /\ b.total = b.base + b.cleaning + b.service + b.taxes - b.discount
      /\ b.commission + b.payout = b.base - b.discount
  BY DEF RowAccepted
<1>5. Balanced(b)
  BY <1>1, <1>3, <1>4 DEF Balanced, SplitCredits
<1>6. SplitPosts(b) <=> b.payout + b.cleaning > 0
  BY <1>5 DEF SplitPosts, SplitCredits
<1>7. b.payout + b.cleaning > 0 => Chargeable(b)
  BY <1>1, <1>3, <1>4 DEF Chargeable
<1> QED BY <1>5, <1>6, <1>7

(* The rates of the service fee and of VAT. *)
LEMMA KnownRates == ServiceFeePct \in Rate /\ VatPct \in Rate
  BY DEF ServiceFeePct, VatPct, Rate

(* Every quote is a row the CHECK constraints accept: the discount never   *)
(* exceeds the base, nor the commission what is left of it.                *)
THEOREM QuotesAreAccepted ==
  ASSUME NEW base \in Nat, NEW d \in Rate, NEW c \in Rate
  PROVE  Quote(base, d, c) \in MoneyRow /\ RowAccepted(Quote(base, d, c))
<1> DEFINE discount == Percent(base, d)
           net == base - discount
           service == Percent(net, ServiceFeePct)
           taxes == Percent(net + service, VatPct)
           commission == Percent(net, c)
           row == [base |-> base, cleaning |-> 0, service |-> service, taxes |-> taxes,
                   discount |-> discount, total |-> base + service + taxes - discount,
                   commission |-> commission, payout |-> net - commission]
<1>1. Quote(base, d, c) = row
  BY Zenon DEF Quote
<1>2. discount \in 0 .. base /\ net \in Nat
  BY PercentIsPart
<1>3. service \in Nat
  <2> HIDE DEF net
  <2>1. service \in 0 .. net
    BY <1>2, KnownRates, PercentIsPart
  <2> QED BY <1>2, <2>1
<1>4. taxes \in Nat
  <2> HIDE DEF net, service
  <2>1. net + service \in Nat
    BY <1>2, <1>3
  <2>2. taxes \in 0 .. net + service
    BY <2>1, KnownRates, PercentIsPart
  <2> QED BY <2>1, <2>2
<1>5. commission \in 0 .. net
  <2> HIDE DEF net
  <2> QED BY <1>2, PercentIsPart
<1>6. net = base - discount
  OBVIOUS
<1> HIDE DEF discount, net, service, taxes, commission
<1>7. row \in MoneyRow
  BY <1>2, <1>3, <1>4, <1>5 DEF MoneyRow
<1>8. RowAccepted(row)
  <2>1. \A f \in DOMAIN row : row[f] >= 0
    <3>1. /\ row.base >= 0 /\ row.cleaning >= 0 /\ row.service >= 0 /\ row.taxes >= 0
          /\ row.discount >= 0 /\ row.total >= 0 /\ row.commission >= 0 /\ row.payout >= 0
      BY <1>2, <1>3, <1>4, <1>5
    <3>2. DOMAIN row = {"base", "cleaning", "service", "taxes", "discount", "total",
                        "commission", "payout"}
      OBVIOUS
    <3> HIDE DEF row
    <3> QED BY <3>1, <3>2
  <2>2. row.commission + row.payout = row.base - row.discount
    BY <1>2, <1>5, <1>6
  <2>3. row.total = row.base + row.cleaning + row.service + row.taxes - row.discount
    BY <1>2, <1>3, <1>4
  <2> HIDE DEF row
  <2> QED BY <2>1, <2>2, <2>3 DEF RowAccepted
<1> HIDE DEF row
<1> QED BY <1>1, <1>7, <1>8

(* A quote leaves the host something exactly when the exact share, before  *)
(* the commission is rounded, is more than half a minor unit.              *)
THEOREM QuotesThatSettle ==
  ASSUME NEW base \in Nat, NEW d \in Rate, NEW c \in Rate
  PROVE  SplitPosts(Quote(base, d, c)) <=> HostEarns(base, d, c)
<1>1. PICK net \in Nat : net = base - Percent(base, d)
  <2>1. Percent(base, d) \in 0 .. base
    BY PercentIsPart
  <2> QED BY <2>1
<1>2. PICK m \in Nat, q \in Int :
        /\ m = net * c /\ q = Percent(net, c)
        /\ 20000 * q <= 2 * m + 10000 /\ 2 * m + 10000 < 20000 * q + 20000
  BY PercentIsRounded
<1>3. net * (10000 - c) = 10000 * net - m
  BY <1>2 DEF Rate
<1>4. HostEarns(base, d, c) <=> q < net
  BY <1>1, <1>2, <1>3 DEF HostEarns
<1>5. Quote(base, d, c).payout = net - q /\ Quote(base, d, c).cleaning = 0
  <2> DEFINE left == base - Percent(base, d)
             service == Percent(left, ServiceFeePct)
             taxes == Percent(left + service, VatPct)
             row == [base |-> base, cleaning |-> 0, service |-> service, taxes |-> taxes,
                     discount |-> Percent(base, d),
                     total |-> base + service + taxes - Percent(base, d),
                     commission |-> Percent(left, c), payout |-> left - Percent(left, c)]
  <2>1. Quote(base, d, c) = row
    BY Zenon DEF Quote
  <2>2. row.payout = left - Percent(left, c) /\ row.cleaning = 0
    OBVIOUS
  <2>3. left = net /\ Percent(left, c) = q
    BY <1>1, <1>2
  <2> HIDE DEF row
  <2> QED BY <1>1, <1>2, <2>1, <2>2, <2>3
<1>6. SplitPosts(Quote(base, d, c))
        <=> Quote(base, d, c).payout + Quote(base, d, c).cleaning > 0
  BY QuotesAreAccepted, AcceptedRowsSplit
<1> QED BY <1>2, <1>4, <1>5, <1>6

(* Whatever hold is inserted: its row is accepted, it settles exactly when *)
(* its host earns something, and what settles could be charged.            *)
THEOREM MoneyAlwaysAddsUp == Spec => []MoneyAddsUp
<1>1. QuotesAddUp
  <2> SUFFICES ASSUME NEW base \in Bases, NEW d \in Percents, NEW c \in Percents
               PROVE  /\ RowAccepted(Quote(base, d, c))
                      /\ SplitPosts(Quote(base, d, c)) <=> HostEarns(base, d, c)
                      /\ SplitPosts(Quote(base, d, c)) => Chargeable(Quote(base, d, c))
    BY Zenon DEF QuotesAddUp
  <2>1. Bases \subseteq Nat /\ Percents \subseteq Rate
    BY ConstantsAssumption, SMTT(30) DEF Rate
  <2>2. base \in Nat /\ d \in Rate /\ c \in Rate
    BY <2>1
  <2>3. Quote(base, d, c) \in MoneyRow /\ RowAccepted(Quote(base, d, c))
    BY <2>2, QuotesAreAccepted
  <2> QED BY <2>2, <2>3, QuotesThatSettle, AcceptedRowsSplit
<1>2. MoneyAddsUp
  BY <1>1 DEF MoneyAddsUp
<1> QED BY <1>2, PTL
===============================================================================
