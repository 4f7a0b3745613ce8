------------------------ MODULE ListingModerationProofs ------------------------
(***************************************************************************)
(* Theorems about ListingModeration and the index it feeds, for any        *)
(* listings and any number of browsers.  ListingInvariant is inductive.    *)
(***************************************************************************)
EXTENDS ListingModeration, TLAPS

(* A page is about a listing, and a call is one of the six kinds. *)
CallsBound ==
    \A c \in Caller :
       /\ call[c].step # "away" => call[c].listing \in Listing
       /\ call[c].step \notin {"away", "viewing"} => call[c].kind \in Kind

(* Whatever is indexed, loaded for the index or about to be answered was   *)
(* cleared, and so is whatever is approved.                                *)
EverythingCleared ==
    /\ \A l \in Listing : status[l] = "APPROVED" => l \in cleared
    /\ \A v \in Version : index[v] \subseteq cleared
    /\ sweep.docs \subseteq cleared
    /\ query.docs \subseteq cleared
    /\ \A c \in Caller : call[c].step = "loaded" /\ call[c].doc => call[c].listing \in cleared

(* What a rebuild owes the listings published throughout: they are in what *)
(* it loaded, then in the version it filled, as long as nobody writes      *)
(* single documents to that version.                                       *)
RebuildCarriesSteady ==
    /\ sweep.step = "loaded" => steady \subseteq sweep.docs
    /\ sweep.step = "filled" /\ alias # "current" => steady \subseteq index["current"]

ListingInvariant ==
    TypeOK /\ CallsBound /\ ApprovedHasPapers /\ EverythingCleared /\ RebuildCarriesSteady

-----------------------------------------------------------------------------
(* The parts of a step: who else stands still. *)
LEMMA PublishedCleared ==
  ASSUME EverythingCleared
  PROVE  Indexable \subseteq cleared /\ Indexable \subseteq Listing
  BY DEF EverythingCleared, Indexable, Published

(* The types of a call, read off TypeOK. *)
LEMMA CallType ==
  ASSUME TypeOK, NEW c \in Caller
  PROVE  /\ call \in [Caller -> Call] /\ call[c] \in Call
         /\ call[c].kind \in Kind \cup {"none"}
         /\ call[c].listing \in Listing \cup {"none"}
         /\ call[c].from \in Status \cup {"none"}
         /\ call[c].doc \in BOOLEAN
         /\ Away \in Call
  BY DEF TypeOK, Call, Away

(* The six targets are statuses. *)
LEMMA TargetIsStatus == \A k \in Kind : Target[k] \in Status
  BY DEF Kind, Target, Status

-----------------------------------------------------------------------------
(* Every variable keeps its type. *)
LEMMA TypeStep ==
  ASSUME ListingInvariant, [Next]_vars
  PROVE  TypeOK'
<1>0. TypeOK /\ CallsBound /\ SearchTypeOK
  BY DEF ListingInvariant, TypeOK
<1>1. ASSUME NEW c \in Caller, NEW l \in Listing, OpenPage(c, l)
      PROVE  TypeOK'
  <2>1. [Away EXCEPT !.step = "viewing", !.listing = l, !.from = status[l],
                     !.doc = ~Blocked(l)] \in Call
    BY <1>0 DEF TypeOK, Call, Away, Blocked
  <2> QED BY <1>0, <1>1, <2>1 DEF OpenPage, TypeOK, SearchTypeOK, searchVars
<1>2. ASSUME NEW c \in Caller, NEW k \in Kind, Click(c, k)
      PROVE  TypeOK'
  <2>1. [Away EXCEPT !.kind = k, !.step = "asked", !.listing = call[c].listing] \in Call
    BY <1>0, CallType DEF Call, Away
  <2> QED BY <1>0, <1>2, <2>1 DEF Click, TypeOK, SearchTypeOK, searchVars
<1>3. ASSUME NEW c \in Caller, Refuse(c) \/ LeavePage(c)
      PROVE  TypeOK'
  BY <1>0, <1>3, CallType DEF Refuse, LeavePage, TypeOK, SearchTypeOK, searchVars
<1>4. ASSUME NEW c \in Caller, NEW s \in {"checked", "read", "decided", "loaded"}
      PROVE  /\ [call EXCEPT ![c].step = s] \in [Caller -> Call]
             /\ \A from \in Status \cup {"none"} :
                   /\ [call EXCEPT ![c].step = s, ![c].from = from] \in [Caller -> Call]
                   /\ [call[c] EXCEPT !.step = s, !.from = from] \in Call
  <2>1. [call[c] EXCEPT !.step = s] \in Call
    BY <1>0, CallType DEF Call
  <2>2. ASSUME NEW from \in Status \cup {"none"}
        PROVE  [call[c] EXCEPT !.step = s, !.from = from] \in Call
    <3> DEFINE moved == [call[c] EXCEPT !.step = s]
    <3>1. moved \in Call
      BY <2>1
    <3> HIDE DEF moved
    <3>2. [moved EXCEPT !.from = from] \in Call
      BY <3>1 DEF Call
    <3> QED BY <3>2 DEF moved
  <2>3. call \in [Caller -> Call]
    BY <1>0 DEF TypeOK
  <2> QED BY <2>1, <2>2, <2>3
<1>5. ASSUME NEW c \in Caller, CallStep(c)
      PROVE  TypeOK'
  <2>0. call[c].step \notin {"away", "viewing"} =>
          call[c].listing \in Listing /\ Target[call[c].kind] \in Status
    BY <1>0, TargetIsStatus DEF CallsBound
  <2>1. CASE CheckBlockers(c)
    <3>1. \/ Refuse(c)
          \/ /\ call' = [call EXCEPT ![c].step = "checked"]
             /\ UNCHANGED <<searchVars, status, live, papers, taken, cleared>>
      BY <2>1 DEF CheckBlockers
    <3>2. [call EXCEPT ![c].step = "checked"] \in [Caller -> Call]
      BY <1>4
    <3> QED BY <1>0, <1>3, <3>1, <3>2 DEF TypeOK, SearchTypeOK, searchVars
  <2>2. CASE ReadStatus(c)
    <3>1. status[call[c].listing] \in Status
      BY <1>0, <2>0, <2>2 DEF ReadStatus, TypeOK
    <3>2. \/ Refuse(c)
          \/ /\ call' = [call EXCEPT ![c].step = "read",
                                      ![c].from = status[call[c].listing]]
             /\ UNCHANGED <<searchVars, status, live, papers, taken, cleared>>
      BY <2>2 DEF ReadStatus
    <3>3. [call EXCEPT ![c].step = "read", ![c].from = status[call[c].listing]]
            \in [Caller -> Call]
      BY <1>4, <3>1
    <3> QED BY <1>0, <1>3, <3>2, <3>3 DEF TypeOK, SearchTypeOK, searchVars
  <2>3. CASE Transition(c)
    <3>1. /\ call[c].listing \in Listing /\ Target[call[c].kind] \in Status
      BY <2>0, <2>3 DEF Transition
    <3>2. call' \in [Caller -> Call]
      BY <1>0, <1>4, <2>3, CallType DEF Transition
    <3>3. /\ status' \in [Listing -> Status] /\ live' \in [Listing -> BOOLEAN]
          /\ cleared' \subseteq Listing /\ steady' \subseteq Listing
      BY <1>0, <2>3, <3>1 DEF Transition, Unsteady, TypeOK, SearchTypeOK
    <3> QED BY <1>0, <2>3, <3>2, <3>3 DEF Transition, Unsteady, TypeOK, SearchTypeOK
  <2>4. CASE LoadDocument(c)
    <3>0. ASSUME NEW doc \in BOOLEAN
          PROVE  [call[c] EXCEPT !.step = "loaded", !.doc = doc] \in Call
      BY <1>0, CallType DEF Call
    <3>1. [call[c] EXCEPT !.step = "loaded", !.doc = call[c].listing \in Indexable] \in Call
      <4>1. (call[c].listing \in Indexable) \in BOOLEAN
        OBVIOUS
      <4> QED BY <3>0, <4>1, Zenon
    <3>2. call \in [Caller -> Call]
      BY <1>0 DEF TypeOK
    <3>3. call' \in [Caller -> Call]
      BY <2>4, <3>1, <3>2 DEF LoadDocument
    <3> QED BY <1>0, <2>4, <3>3 DEF LoadDocument, TypeOK, SearchTypeOK, searchVars
  <2>5. CASE IndexDocument(c)
    <3>1. call[c].listing \in Listing
      BY <2>0, <2>5 DEF IndexDocument
    <3>2. index' \in [Version -> SUBSET Listing]
      BY <1>0, <2>5, <3>1 DEF IndexDocument, WriteDocument, SearchTypeOK
    <3> QED BY <1>0, <2>5, <3>2, CallType DEF IndexDocument, WriteDocument, TypeOK, SearchTypeOK
  <2>6. CASE TransitionRefused(c) \/ ReindexFails(c)
    BY <1>3, <2>6 DEF TransitionRefused, ReindexFails
  <2> QED BY <1>5, <2>1, <2>2, <2>3, <2>4, <2>5, <2>6 DEF CallStep
<1>6. ASSUME NEW l \in Listing, CalendarChanges(l) \/ \E p \in Papers : PapersChange(l, p)
      PROVE  TypeOK'
  BY <1>0, <1>6 DEF CalendarChanges, PapersChange, TypeOK, SearchTypeOK, searchVars
<1>7. CASE SearchStep
  <2>1. /\ Indexable \subseteq Listing /\ "current" \in Version
        /\ sweep.docs \subseteq Listing /\ Idle.docs = {} /\ Idle.step = "idle"
        /\ \A v \in Version : index[v] \subseteq Listing
    BY <1>0 DEF Indexable, Published, Version, SearchTypeOK, Idle
  <2>2. SearchTypeOK'
    <3>1. CASE Boot
      BY <1>0, <3>1 DEF Boot, EnsureIndex, SearchTypeOK, Version
    <3>2. CASE SweepLoad(Indexable)
      BY <1>0, <2>1, <3>2 DEF SweepLoad, EnsureIndex, SearchTypeOK, Version
    <3>3. CASE SweepFill
      BY <1>0, <2>1, <3>3 DEF SweepFill, SearchTypeOK
    <3>4. CASE SweepFillFails
      <4>1. PICK some \in SUBSET sweep.docs :
              index' = [index EXCEPT !["current"] = @ \cup some]
        BY <3>4 DEF SweepFillFails
      <4>2. index' \in [Version -> SUBSET Listing]
        BY <1>0, <2>1, <4>1 DEF SearchTypeOK
      <4>3. Idle \in [step : {"idle", "loaded", "filled"}, docs : SUBSET Listing]
        BY DEF Idle
      <4> QED BY <1>0, <3>4, <4>2, <4>3 DEF SweepFillFails, SearchTypeOK
    <3>5. CASE SweepPromote
      BY <1>0, <3>5 DEF SweepPromote, SearchTypeOK, Version, Idle
    <3>6. CASE Rank
      <4>1. index[alias] \subseteq Listing
        BY <1>0, <3>6 DEF Rank, SearchTypeOK
      <4> QED BY <1>0, <3>6, <4>1 DEF Rank, SearchTypeOK
    <3>7. CASE AnswerSearch
      BY <1>0, <3>7 DEF AnswerSearch, SearchTypeOK, Idle
    <3> QED BY <1>7, <3>1, <3>2, <3>3, <3>4, <3>5, <3>6, <3>7 DEF SearchStep, SweepNext
  <2> QED BY <1>0, <1>7, <2>2 DEF SearchStep, TypeOK, listingVars
<1>8. CASE UNCHANGED vars
  BY <1>0, <1>8 DEF vars, searchVars, listingVars, TypeOK, SearchTypeOK
<1> QED BY <1>1, <1>2, <1>3, <1>5, <1>6, <1>7, <1>8 DEF Next
-----------------------------------------------------------------------------
(* A call keeps its listing and its kind from the click to the end. *)
LEMMA CallKeeps ==
  ASSUME ListingInvariant, NEW c \in Caller, CallStep(c)
  PROVE  /\ \A x \in Caller \ {c} : call'[x] = call[x]
         /\ \/ call'[c] = Away
            \/ /\ call[c].step \notin {"away", "viewing"}
               /\ call'[c].kind = call[c].kind
               /\ call'[c].listing = call[c].listing
               /\ call'[c].step \in {"checked", "read", "decided", "loaded"}
<1>0. call \in [Caller -> Call] /\ call[c] \in Call
  BY DEF ListingInvariant, TypeOK
<1>1. CASE CheckBlockers(c)
  BY <1>0, <1>1 DEF CheckBlockers, Refuse, Call
<1>2. CASE ReadStatus(c)
  BY <1>0, <1>2 DEF ReadStatus, Refuse, Call
<1>3. CASE Transition(c)
  BY <1>0, <1>3 DEF Transition, Call
<1>4. CASE LoadDocument(c)
  BY <1>0, <1>4 DEF LoadDocument, Call
<1>5. CASE TransitionRefused(c) \/ IndexDocument(c) \/ ReindexFails(c)
  BY <1>0, <1>5 DEF TransitionRefused, IndexDocument, ReindexFails, Refuse
<1> QED BY <1>1, <1>2, <1>3, <1>4, <1>5 DEF CallStep

(* Every call keeps its listing and its kind. *)
LEMMA CallsBoundStep ==
  ASSUME ListingInvariant, [Next]_vars
  PROVE  CallsBound'
<1>0. TypeOK /\ CallsBound
  BY DEF ListingInvariant
<1>1. ASSUME NEW c \in Caller, NEW l \in Listing, OpenPage(c, l)
      PROVE  CallsBound'
  BY <1>0, <1>1 DEF OpenPage, Away, CallsBound, TypeOK
<1>2. ASSUME NEW c \in Caller, NEW k \in Kind, Click(c, k)
      PROVE  CallsBound'
  BY <1>0, <1>2 DEF Click, Away, CallsBound, TypeOK
<1>3. ASSUME NEW c \in Caller, LeavePage(c)
      PROVE  CallsBound'
  BY <1>0, <1>3 DEF LeavePage, Away, CallsBound, TypeOK
<1>4. ASSUME NEW c \in Caller, CallStep(c)
      PROVE  CallsBound'
  BY <1>0, <1>4, CallKeeps DEF Away, CallsBound
<1>5. CASE UNCHANGED call
  BY <1>0, <1>5 DEF CallsBound
<1>6. ASSUME \/ \E l \in Listing : CalendarChanges(l) \/ \E p \in Papers : PapersChange(l, p)
             \/ SearchStep \/ UNCHANGED vars
      PROVE  UNCHANGED call
  BY <1>6 DEF CalendarChanges, PapersChange, SearchStep, listingVars, vars
<1> QED BY <1>1, <1>2, <1>3, <1>4, <1>5, <1>6 DEF Next

-----------------------------------------------------------------------------
(* The write re-checks the columns, and the constraint refuses to lose     *)
(* them while the listing is approved.                                     *)
LEMMA PapersStep ==
  ASSUME ListingInvariant, [Next]_vars
  PROVE  ApprovedHasPapers'
<1>0. TypeOK /\ CallsBound /\ ApprovedHasPapers
  BY DEF ListingInvariant
<1>1. ASSUME NEW c \in Caller, Transition(c)
      PROVE  ApprovedHasPapers'
  BY <1>0, <1>1 DEF Transition, RowLegal, ApprovedHasPapers, TypeOK
<1>2. ASSUME NEW l \in Listing, NEW p \in Papers, PapersChange(l, p)
      PROVE  ApprovedHasPapers'
  BY <1>0, <1>2 DEF PapersChange, ApprovedHasPapers, TypeOK
<1>3. CASE UNCHANGED <<status, papers>>
  BY <1>0, <1>3 DEF ApprovedHasPapers
<1>4. ASSUME NEW c \in Caller,
             \/ \E l \in Listing : OpenPage(c, l)
             \/ \E k \in Kind : Click(c, k)
             \/ LeavePage(c) \/ CheckBlockers(c) \/ ReadStatus(c) \/ TransitionRefused(c)
             \/ LoadDocument(c) \/ IndexDocument(c) \/ ReindexFails(c)
      PROVE  UNCHANGED <<status, papers>>
  BY <1>4 DEF OpenPage, Click, LeavePage, CheckBlockers, ReadStatus, TransitionRefused,
              LoadDocument, IndexDocument, ReindexFails, Refuse
<1>5. ASSUME (\E l \in Listing : CalendarChanges(l)) \/ SearchStep \/ UNCHANGED vars
      PROVE  UNCHANGED <<status, papers>>
  BY <1>5 DEF CalendarChanges, SearchStep, listingVars, vars
<1> QED BY <1>1, <1>2, <1>3, <1>4, <1>5 DEF Next, CallStep

-----------------------------------------------------------------------------
(* What is indexed came out of a read of the published listings, and those *)
(* were cleared; clearing is never taken back.                             *)
LEMMA ClearedStep ==
  ASSUME ListingInvariant, [Next]_vars
  PROVE  EverythingCleared'
<1>0. TypeOK /\ SearchTypeOK /\ CallsBound /\ EverythingCleared
  BY DEF ListingInvariant, TypeOK
<1>1. ASSUME NEW c \in Caller,
             \/ \E l \in Listing : OpenPage(c, l)
             \/ \E k \in Kind : Click(c, k)
             \/ LeavePage(c) \/ CheckBlockers(c) \/ ReadStatus(c) \/ TransitionRefused(c)
             \/ ReindexFails(c)
      PROVE  EverythingCleared'
  <2>1. UNCHANGED <<index, sweep, query, status, cleared>>
    BY <1>1 DEF OpenPage, Click, LeavePage, CheckBlockers, ReadStatus, TransitionRefused,
                ReindexFails, Refuse, searchVars
  <2>2. ASSUME NEW x \in Caller, call'[x].step = "loaded"
        PROVE  call'[x] = call[x]
    <3>0. call \in [Caller -> Call] /\ call[c] \in Call
      BY <1>0 DEF TypeOK
    <3>1. CASE \E l \in Listing : OpenPage(c, l)
      BY <2>2, <3>0, <3>1 DEF OpenPage, Away
    <3>2. CASE \E k \in Kind : Click(c, k)
      BY <2>2, <3>0, <3>2 DEF Click, Away
    <3>3. CASE LeavePage(c) \/ TransitionRefused(c) \/ ReindexFails(c)
      BY <2>2, <3>0, <3>3 DEF LeavePage, TransitionRefused, ReindexFails, Refuse, Away
    <3>4. CASE CheckBlockers(c) \/ ReadStatus(c)
      BY <2>2, <3>0, <3>4 DEF CheckBlockers, ReadStatus, Refuse, Away, Call
    <3> QED BY <1>1, <3>1, <3>2, <3>3, <3>4
  <2> QED BY <1>0, <2>1, <2>2 DEF EverythingCleared
<1>2. ASSUME NEW c \in Caller, Transition(c)
      PROVE  EverythingCleared'
  <2>1. /\ cleared \subseteq cleared' /\ UNCHANGED <<index, sweep, query>>
        /\ \A l \in Listing : status'[l] = "APPROVED" => l \in cleared'
    BY <1>0, <1>2 DEF Transition, Unsteady, TypeOK, EverythingCleared
  <2>2. ASSUME NEW x \in Caller, call'[x].step = "loaded"
        PROVE  call'[x] = call[x]
    BY <1>0, <1>2, <2>2 DEF Transition, Away, TypeOK, Call
  <2> QED BY <1>0, <2>1, <2>2 DEF EverythingCleared
<1>3. ASSUME NEW c \in Caller, LoadDocument(c)
      PROVE  EverythingCleared'
  <2>1. UNCHANGED <<index, sweep, query, status, cleared>>
    BY <1>3 DEF LoadDocument, searchVars
  <2>2. ASSUME NEW x \in Caller, call'[x].step = "loaded", call'[x].doc
        PROVE  call'[x].listing \in cleared
    <3>1. CASE x = c
      BY <1>0, <1>3, <2>2, <3>1, PublishedCleared DEF LoadDocument, TypeOK, Call
    <3>2. CASE x # c
      BY <1>0, <1>3, <2>2, <3>2 DEF LoadDocument, TypeOK, EverythingCleared
    <3> QED BY <3>1, <3>2
  <2> QED BY <1>0, <2>1, <2>2 DEF EverythingCleared
<1>4. ASSUME NEW c \in Caller, IndexDocument(c)
      PROVE  EverythingCleared'
  <2>1. \A v \in Version : index'[v] \subseteq cleared
    BY <1>0, <1>4 DEF IndexDocument, WriteDocument, EverythingCleared, SearchTypeOK
  <2>2. \A x \in Caller : call'[x].step = "loaded" => call'[x] = call[x]
    BY <1>0, <1>4 DEF IndexDocument, Away, TypeOK
  <2> QED BY <1>0, <1>4, <2>1, <2>2 DEF IndexDocument, WriteDocument, EverythingCleared
<1>5. CASE SearchStep
  <2>0. UNCHANGED listingVars /\ Indexable \subseteq cleared
    BY <1>0, <1>5, PublishedCleared DEF SearchStep
  <2>1. \A v \in Version : index'[v] \subseteq cleared
    BY <1>0, <1>5 DEF SearchStep, SweepNext, Boot, SweepLoad, SweepFill, SweepFillFails,
            SweepPromote, Rank, AnswerSearch, EverythingCleared, SearchTypeOK
  <2>2. sweep'.docs \subseteq cleared
    BY <1>0, <1>5, <2>0 DEF SearchStep, SweepNext, Boot, SweepLoad, SweepFill, SweepFillFails,
            SweepPromote, Rank, AnswerSearch, Idle, EverythingCleared, SearchTypeOK
  <2>3. query'.docs \subseteq cleared
    <3>1. CASE Rank
      BY <1>0, <3>1 DEF Rank, EverythingCleared, SearchTypeOK
    <3>2. CASE AnswerSearch
      BY <3>2 DEF AnswerSearch, Idle
    <3>3. CASE Boot \/ SweepNext(Indexable)
      BY <1>0, <3>3 DEF SweepNext, Boot, SweepLoad, SweepFill, SweepFillFails, SweepPromote,
              EverythingCleared
    <3> QED BY <1>5, <3>1, <3>2, <3>3 DEF SearchStep
  <2> QED BY <1>0, <2>0, <2>1, <2>2, <2>3 DEF EverythingCleared, listingVars
<1>6. ASSUME \/ \E l \in Listing : CalendarChanges(l) \/ \E p \in Papers : PapersChange(l, p)
             \/ UNCHANGED vars
      PROVE  EverythingCleared'
  BY <1>0, <1>6 DEF CalendarChanges, PapersChange, vars, searchVars, listingVars,
                    EverythingCleared
<1> QED BY <1>1, <1>2, <1>3, <1>4, <1>5, <1>6 DEF Next, CallStep

-----------------------------------------------------------------------------
(* Between the load and the swap only listings stop being steady, and the  *)
(* version being filled is written to by nobody else.                      *)
LEMMA SteadyStep ==
  ASSUME ListingInvariant, [Next]_vars
  PROVE  RebuildCarriesSteady'
<1>0. TypeOK /\ SearchTypeOK /\ RebuildCarriesSteady
  BY DEF ListingInvariant, TypeOK
<1>1. ASSUME NEW c \in Caller, IndexDocument(c)
      PROVE  RebuildCarriesSteady'
  BY <1>0, <1>1 DEF IndexDocument, WriteDocument, RebuildCarriesSteady, SearchTypeOK, Version
<1>2. ASSUME NEW c \in Caller, Transition(c)
      PROVE  RebuildCarriesSteady'
  BY <1>0, <1>2 DEF Transition, Unsteady, RebuildCarriesSteady
<1>3. CASE SearchStep
  BY <1>0, <1>3 DEF SearchStep, SweepNext, Boot, EnsureIndex, SweepLoad, SweepFill,
        SweepFillFails, SweepPromote, Rank, AnswerSearch, Idle, RebuildCarriesSteady,
        SearchTypeOK, Version
<1>4. CASE UNCHANGED searchVars
  BY <1>0, <1>4 DEF searchVars, RebuildCarriesSteady
<1>5. ASSUME NEW c \in Caller,
             \/ \E l \in Listing : OpenPage(c, l)
             \/ \E k \in Kind : Click(c, k)
             \/ LeavePage(c) \/ CheckBlockers(c) \/ ReadStatus(c) \/ TransitionRefused(c)
             \/ LoadDocument(c) \/ ReindexFails(c)
      PROVE  UNCHANGED searchVars
  BY <1>5 DEF OpenPage, Click, LeavePage, CheckBlockers, ReadStatus, TransitionRefused,
              LoadDocument, ReindexFails, Refuse
<1>6. ASSUME \/ \E l \in Listing : CalendarChanges(l) \/ \E p \in Papers : PapersChange(l, p)
             \/ UNCHANGED vars
      PROVE  UNCHANGED searchVars
  BY <1>6 DEF CalendarChanges, PapersChange, vars
<1> QED BY <1>1, <1>2, <1>3, <1>4, <1>5, <1>6 DEF Next, CallStep

-----------------------------------------------------------------------------
(* The inductive invariant holds initially. *)
LEMMA InitiallyListing == Init => ListingInvariant
<1> SUFFICES ASSUME Init PROVE ListingInvariant
  OBVIOUS
<1>1. PICK s \in {"DRAFT", "APPROVED"}, up \in BOOLEAN :
        /\ s = "APPROVED" => up
        /\ status = [l \in Listing |-> s]
        /\ live = [l \in Listing |-> up]
        /\ papers = [l \in Listing |-> IF s = "APPROVED" THEN "complete" ELSE "absent"]
        /\ cleared = IF s = "APPROVED" THEN Listing ELSE {}
  BY DEF Init
<1>2. ApprovedHasPapers /\ Published \subseteq cleared /\ Published \subseteq Listing
  BY <1>1 DEF ApprovedHasPapers, Published
<1>3. SearchTypeOK
  BY <1>2 DEF Init, SearchInit, SearchTypeOK, Version, Idle
<1>4. TypeOK
  BY <1>1, <1>3 DEF Init, TypeOK, Status, Papers, Away, Call
<1>5. CallsBound
  BY DEF Init, CallsBound, Away
<1>6. EverythingCleared
  BY <1>1, <1>2 DEF Init, SearchInit, EverythingCleared, Away, Idle
<1>7. RebuildCarriesSteady
  BY DEF Init, SearchInit, RebuildCarriesSteady, Idle
<1> QED BY <1>2, <1>4, <1>5, <1>6, <1>7 DEF ListingInvariant

(* The inductive invariant holds of every behaviour. *)
THEOREM ListingInvariantHolds == Spec => []ListingInvariant
<1>1. ListingInvariant /\ [Next]_vars => ListingInvariant'
  BY TypeStep, CallsBoundStep, PapersStep, ClearedStep, SteadyStep DEF ListingInvariant
<1> QED BY <1>1, InitiallyListing, PTL DEF Spec

(* Every variable of moderation and of the index keeps its type. *)
THEOREM ListingTypes == Spec => []TypeOK
<1>1. ListingInvariant => TypeOK
  BY DEF ListingInvariant
<1> QED BY <1>1, ListingInvariantHolds, PTL

(* Whatever browsers and services interleave, an approved listing has its  *)
(* compliance columns.                                                     *)
THEOREM ApprovalNeedsPapers == Spec => []ApprovedHasPapers
<1>1. ListingInvariant => ApprovedHasPapers
  BY DEF ListingInvariant
<1> QED BY <1>1, ListingInvariantHolds, PTL

(* Nothing an admin never cleared is in an index version or in an answer. *)
THEOREM SearchOffersOnlyCleared == Spec => []OnlyClearedIndexed
<1>1. ListingInvariant => OnlyClearedIndexed
  BY DEF ListingInvariant, EverythingCleared, OnlyClearedIndexed, Offered
<1> QED BY <1>1, ListingInvariantHolds, PTL

(* The swap of a rebuilt index loses nothing that was published all along. *)
THEOREM SwapKeepsSteady == Spec => PromotionKeepsSteady
<1>1. ListingInvariant /\ [Next]_vars =>
        [alias' # alias /\ alias # "unbound" => steady \subseteq index'[alias']]_vars
  <2> SUFFICES ASSUME ListingInvariant, [Next]_vars, alias' # alias, alias # "unbound"
               PROVE  steady \subseteq index'[alias']
    OBVIOUS
  <2>1. ASSUME NEW c \in Caller,
               \/ \E l \in Listing : OpenPage(c, l)
               \/ \E k \in Kind : Click(c, k)
               \/ LeavePage(c) \/ CallStep(c)
        PROVE  UNCHANGED alias
    BY <2>1 DEF OpenPage, Click, LeavePage, CallStep, CheckBlockers, ReadStatus, Transition,
                Unsteady, TransitionRefused, LoadDocument, IndexDocument, WriteDocument,
                ReindexFails, Refuse, searchVars
  <2>2. ASSUME \/ \E l \in Listing : CalendarChanges(l) \/ \E p \in Papers : PapersChange(l, p)
               \/ UNCHANGED vars
        PROVE  UNCHANGED alias
    BY <2>2 DEF CalendarChanges, PapersChange, vars, searchVars
  <2>3. SearchStep
    BY <2>1, <2>2 DEF Next
  <2>4. SweepPromote
    BY <2>3 DEF SearchStep, SweepNext, Boot, EnsureIndex, SweepLoad, SweepFill,
          SweepFillFails, Rank, AnswerSearch
  <2> QED BY <2>4 DEF SweepPromote, ListingInvariant, RebuildCarriesSteady
<1> QED BY <1>1, ListingInvariantHolds, PTL DEF Spec, PromotionKeepsSteady
================================================================================
