--------------------------- MODULE ListingModeration ---------------------------
(***************************************************************************)
(* A listing on its way to the public: the host submits and withdraws it,  *)
(* admins decide from a page they opened earlier, the decision is written  *)
(* in one transaction guarded by the transition table, and the search      *)
(* index follows, best effort.                                             *)
(*                                                                         *)
(* A call is several reads and one write: blockers, then the status, then  *)
(* the compare-and-set.  Nothing holds the listing still in between.       *)
(***************************************************************************)
EXTENDS SearchIndex

CONSTANTS Caller  \* browsers, each with one page and one call at a time

VARIABLES
    status,  \* properties.moderation_status
    live,    \* properties.status is ACTIVE; the units are
    papers,  \* what the compliance columns, documents and KYC amount to
    call,    \* the page and the call of each browser
    taken,   \* listings somebody holds or the host blocked, for one window
    cleared  \* history: an admin approved or reinstated the listing before

listingVars == <<status, live, papers, call, taken, cleared>>
vars == <<searchVars, listingVars>>

Status == {"DRAFT", "PENDING_APPROVAL", "APPROVED", "REJECTED", "SUSPENDED"}

(* property_moderation_transitions, loaded at boot and enforced by the trigger. *)
Transitions == {
    <<"DRAFT", "PENDING_APPROVAL">>,
    <<"PENDING_APPROVAL", "APPROVED">>, <<"PENDING_APPROVAL", "REJECTED">>,
    <<"PENDING_APPROVAL", "DRAFT">>, <<"REJECTED", "PENDING_APPROVAL">>,
    <<"APPROVED", "SUSPENDED">>, <<"APPROVED", "PENDING_APPROVAL">>,
    <<"SUSPENDED", "APPROVED">>, <<"SUSPENDED", "REJECTED">>}

(* "absent": a compliance column is NULL.  "lapsed": the columns are there *)
(* and something else blocks: a document, KYC, the permit's date, no unit. *)
Papers == {"absent", "lapsed", "complete"}

Blocked(l) == papers[l] # "complete"

Target == [submit |-> "PENDING_APPROVAL", withdraw |-> "DRAFT", approve |-> "APPROVED",
           reject |-> "REJECTED", suspend |-> "SUSPENDED", reinstate |-> "APPROVED"]
Kind == DOMAIN Target
HostKind == {"submit", "withdraw"}

(* v_public_units, and the same conjunction in every query that has its own. *)
Published == {l \in Listing : status[l] = "APPROVED" /\ live[l]}

(* Mutant: the index query looks at the operational axis only. *)
PublishedIfLive == {l \in Listing : live[l]}

(* loadDocuments: what the index is fed from. *)
Indexable == Published

Away == [kind |-> "none", step |-> "away", listing |-> "none", from |-> "none", doc |-> FALSE]

Call == [kind : Kind \cup {"none"},
         step : {"away", "viewing", "asked", "checked", "read", "decided", "loaded"},
         listing : Listing \cup {"none"},
         from : Status \cup {"none"},
         doc : BOOLEAN]

TypeOK ==
    /\ SearchTypeOK
    /\ status \in [Listing -> Status]
    /\ live \in [Listing -> BOOLEAN]
    /\ papers \in [Listing -> Papers]
    /\ call \in [Caller -> Call]
    /\ taken \subseteq Listing
    /\ cleared \subseteq Listing

Init ==
    /\ \E s \in {"DRAFT", "APPROVED"}, up \in BOOLEAN :
          /\ s = "APPROVED" => up
          /\ status = [l \in Listing |-> s]
          /\ live = [l \in Listing |-> up]
          /\ papers = [l \in Listing |-> IF s = "APPROVED" THEN "complete" ELSE "absent"]
          /\ cleared = IF s = "APPROVED" THEN Listing ELSE {}
    /\ call = [c \in Caller |-> Away]
    /\ taken = {}
    /\ SearchInit(Published)

-----------------------------------------------------------------------------
(* The browser.                                                            *)

(* The review page: the status, the blockers and allowedNext of one moment. *)
OpenPage(c, l) ==
    /\ call[c].step = "away"
    /\ call' = [call EXCEPT ![c] = [Away EXCEPT !.step = "viewing", !.listing = l,
                                                !.from = status[l], !.doc = ~Blocked(l)]]
    /\ UNCHANGED <<searchVars, status, live, papers, taken, cleared>>

(* What DecisionPanel renders for that moment; the host's page offers what *)
(* the host may do.                                                        *)
Buttons(page) ==
    {k \in Kind :
       /\ <<page.from, Target[k]>> \in Transitions
       /\ k = "approve" => page.from = "PENDING_APPROVAL" /\ page.doc
       /\ k = "reinstate" => page.from = "SUSPENDED"}

Click(c, k) ==
    /\ call[c].step = "viewing"
    /\ k \in Buttons(call[c])
    /\ call' = [call EXCEPT ![c] = [Away EXCEPT !.kind = k, !.step = "asked",
                                                !.listing = call[c].listing]]
    /\ UNCHANGED <<searchVars, status, live, papers, taken, cleared>>

LeavePage(c) ==
    /\ call[c].step = "viewing"
    /\ call' = [call EXCEPT ![c] = Away]
    /\ UNCHANGED <<searchVars, status, live, papers, taken, cleared>>

-----------------------------------------------------------------------------
(* The service.  A refused call leaves no trace.                           *)

Refuse(c) ==
    /\ call' = [call EXCEPT ![c] = Away]
    /\ UNCHANGED <<searchVars, status, live, papers, taken, cleared>>

(* submit and approve recompute the blockers; the others do not look. *)
CheckBlockers(c) ==
    /\ call[c].step = "asked"
    /\ IF call[c].kind \in {"submit", "approve"} /\ Blocked(call[c].listing)
       THEN Refuse(c)
       ELSE /\ call' = [call EXCEPT ![c].step = "checked"]
            /\ UNCHANGED <<searchVars, status, live, papers, taken, cleared>>

(* currentStatus and assertTransition. *)
ReadStatus(c) ==
    LET s == status[call[c].listing]
    IN  /\ call[c].step = "checked"
        /\ IF <<s, Target[call[c].kind]>> \in Transitions
           THEN /\ call' = [call EXCEPT ![c].step = "read", ![c].from = s]
                /\ UNCHANGED <<searchVars, status, live, papers, taken, cleared>>
           ELSE Refuse(c)

(* Mutant: no such constraint, the service's own checks are relied on. *)
AnyRow(l, to) == to \in Status /\ l \in Listing

(* properties_approved_requires_compliance. *)
RowLegal(l, to) == to = "APPROVED" => papers[l] # "absent"

(* The UPDATE of ModerationRepository.transition: WHERE, trigger, CHECK.   *)
(* Zero rows is a conflict for the caller.                                 *)
Transition(c) ==
    LET l == call[c].listing
        to == Target[call[c].kind]
    IN  /\ call[c].step = "read"
        /\ status[l] = call[c].from
        /\ RowLegal(l, to)
        /\ status' = [status EXCEPT ![l] = to]
        /\ live' = [live EXCEPT ![l] = @ \/ to = "APPROVED"]
        /\ cleared' = IF to = "APPROVED" THEN cleared \cup {l} ELSE cleared
        /\ call' = [call EXCEPT ![c] = IF @.kind \in HostKind THEN Away
                                       ELSE [@ EXCEPT !.step = "decided", !.from = "none"]]
        /\ Unsteady(l)
        /\ UNCHANGED <<papers, taken>>

TransitionRefused(c) ==
    LET l == call[c].listing
    IN  /\ call[c].step = "read"
        /\ status[l] # call[c].from \/ ~RowLegal(l, Target[call[c].kind])
        /\ Refuse(c)

(* The host is told, whatever becomes of the messages, and the unit is     *)
(* read for the index.                                                     *)
LoadDocument(c) ==
    /\ call[c].step = "decided"
    /\ call' = [call EXCEPT ![c].step = "loaded", ![c].doc = call[c].listing \in Indexable]
    /\ UNCHANGED <<searchVars, status, live, papers, taken, cleared>>

IndexDocument(c) ==
    /\ call[c].step = "loaded"
    /\ WriteDocument(call[c].listing, call[c].doc)
    /\ call' = [call EXCEPT ![c] = Away]
    /\ UNCHANGED <<status, live, papers, taken, cleared>>

(* OpenSearch is down or the process dies after the commit: the decision   *)
(* stands and the index is what it was.                                    *)
ReindexFails(c) ==
    /\ call[c].step \in {"decided", "loaded"}
    /\ Refuse(c)

-----------------------------------------------------------------------------
(* Paperwork arrives, lapses and is withdrawn; the constraint keeps the    *)
(* columns of an approved listing.                                         *)
PapersChange(l, p) ==
    /\ papers[l] # p
    /\ status[l] = "APPROVED" => p # "absent"
    /\ papers' = [papers EXCEPT ![l] = p]
    /\ UNCHANGED <<searchVars, status, live, call, taken, cleared>>

(* The calendar of the listing for the window being searched. *)
CalendarChanges(l) ==
    /\ taken' = (taken \ {l}) \cup ({l} \ taken)
    /\ UNCHANGED <<searchVars, status, live, papers, call, cleared>>

CallStep(c) ==
    \/ CheckBlockers(c) \/ ReadStatus(c) \/ Transition(c) \/ TransitionRefused(c)
    \/ LoadDocument(c) \/ IndexDocument(c) \/ ReindexFails(c)

SearchStep ==
    /\ Boot \/ SweepNext(Indexable) \/ Rank \/ AnswerSearch
    /\ UNCHANGED listingVars

Next ==
    \/ \E c \in Caller :
          \/ \E l \in Listing : OpenPage(c, l)
          \/ \E k \in Kind : Click(c, k)
          \/ LeavePage(c)
          \/ CallStep(c)
    \/ \E l \in Listing : CalendarChanges(l) \/ \E p \in Papers : PapersChange(l, p)
    \/ SearchStep

Spec == Init /\ [][Next]_vars

-----------------------------------------------------------------------------
(* Properties. *)

(* Nothing a search can return was ever anything but cleared by an admin:  *)
(* through stale documents, rebuilds, version changes and slow searches, a *)
(* listing nobody approved is in no index version and in no answer.        *)
OnlyClearedIndexed ==
    /\ \A v \in Version : index[v] \subseteq cleared
    /\ Offered(taken) \subseteq cleared

(* An approved listing carries its compliance columns, although the        *)
(* blockers were read long before the write and reinstating reads none.    *)
ApprovedHasPapers == \A l \in Listing : status[l] = "APPROVED" => papers[l] # "absent"

(* Promoting a rebuilt index takes no listing out of search that was       *)
(* published all along: the swap is not a window of missing results.       *)
PromotionKeepsSteady ==
    [][alias' # alias /\ alias # "unbound" => steady \subseteq index'[alias']]_vars
================================================================================
