---------------------------- MODULE GuestAppProofs ----------------------------
(***************************************************************************)
(* Theorems about GuestApp, part by part: each part has an inductive       *)
(* invariant of its own, and a step of another part leaves it alone.       *)
(***************************************************************************)
EXTENDS GuestApp, ConsolesProofs, TLAPS, FiniteSetTheorems

(* A step of the whole is, for each part, one of its steps or none. *)
LEMMA PartSteps ==
  ASSUME [Next]_vars
  PROVE  /\ [MapNext]_mapVars /\ [CheckoutNext]_checkoutVars
         /\ [SignNext]_signVars /\ [WebNext]_webVars /\ [PhotosNext]_photoVars
         /\ [ConsoleNext]_consoleVars
  BY DEF Next, vars

-----------------------------------------------------------------------------
(* The map: one request at a time, numbered last, about what the site has  *)
(* on screen unless its debounce is running.                               *)
OneInFlight ==
    /\ \A r \in flying : r.no = searches
    /\ \A r, q \in flying : r = q
    /\ shown.no <= searches

SiteAsksForItsView ==
    mapClient = "site" =>
       /\ timer # NoView => timer = view
       /\ timer = NoView /\ view \notin Wide =>
            /\ \A r \in flying : r.view = view /\ r.query = query
            /\ flying = {} /\ mapError = "none" => shown.view = view /\ shown.query = query

MapInvariant == MapTypeOK /\ OneInFlight /\ SpinnerEnds /\ SiteAsksForItsView

(* What the assumption says of the views and queries. *)
LEMMA MapConstants ==
  /\ MaxSearches \in Nat /\ Home \in View /\ Home \notin Wide /\ NoView \notin View
  /\ FirstQuery \in Query
<1>1. PICK q \in Query : TRUE
  BY MapAssumption
<1>2. FirstQuery \in Query
  BY <1>1, Zenon DEF FirstQuery
<1> QED BY <1>2, MapAssumption

(* A search replaces whatever is in flight, under the next number. *)
LEMMA Asked ==
  ASSUME MapInvariant, NEW v \in View, NEW q \in Query, Ask(v, q)
  PROVE  /\ searches \in Nat /\ searches' = searches + 1 /\ searches' \in 0 .. MaxSearches
         /\ flying' = {[no |-> searches', view |-> v, query |-> q]} /\ flying' \subseteq MapRequest
         /\ spinner' = TRUE
<1>1. searches \in 0 .. MaxSearches
  BY DEF MapInvariant, MapTypeOK
<1>2. searches' = searches + 1 /\ searches < MaxSearches
  BY DEF Ask
<1>3. searches \in Nat /\ searches' \in 0 .. MaxSearches
  BY <1>1, <1>2, MapConstants
<1>4. flying' = {[no |-> searches', view |-> v, query |-> q]} /\ spinner' = TRUE
  BY DEF Ask, Supersede
<1>5. [no |-> searches', view |-> v, query |-> q] \in MapRequest
  BY <1>3 DEF MapRequest
<1> QED BY <1>2, <1>3, <1>4, <1>5

(* SearchNow and the site's effect, as far as the invariants tell. *)
LEMMA SearchedNow ==
  ASSUME MapInvariant, NEW v \in View, NEW q \in Query, SearchNow(v, q)
  PROVE  /\ \/ UNCHANGED <<flying, searches>> /\ spinner' = FALSE
            \/ Ask(v, q)
         /\ mapError' \in {"none", "wide"}
  BY DEF SearchNow, TooWide

(* The effect of the site starts its debounce, or refuses a wide view. *)
LEMMA SiteReacts ==
  ASSUME SiteEffect
  PROVE  /\ UNCHANGED <<flying, searches>>
         /\ \/ view' \in Wide /\ timer' = NoView /\ spinner' = FALSE /\ mapError' = "wide"
            \/ view' \notin Wide /\ timer' = view' /\ UNCHANGED <<spinner, mapError>>
  BY DEF SiteEffect, TooWide

(* What the phone's searches and both debounces have in common. *)
LEMMA SearchKeeps ==
  ASSUME MapInvariant, NEW v \in View, NEW q \in Query, SearchNow(v, q) \/ Ask(v, q),
         timer' \in {timer, NoView}, view' = view, query' \in Query,
         mapError' \in {"none", "wide", "failed"},
         UNCHANGED <<mapClient, shown, fetched>>,
         mapClient = "site" =>
            Ask(v, q) /\ v = view /\ q = query /\ query' = query /\ timer' = NoView
  PROVE  MapInvariant' /\ shown'.no >= shown.no
<1>0. /\ MapTypeOK /\ OneInFlight /\ SpinnerEnds /\ SiteAsksForItsView
      /\ searches \in Nat /\ shown.no \in Nat /\ MaxSearches \in Nat
  BY MapConstants DEF MapInvariant, MapTypeOK, MapRequest
<1>1. CASE Ask(v, q)
  <2>1. /\ searches' = searches + 1 /\ searches' \in 0 .. MaxSearches
        /\ flying' = {[no |-> searches', view |-> v, query |-> q]} /\ flying' \subseteq MapRequest
        /\ spinner' = TRUE
    BY <1>1, Asked
  <2>2. MapTypeOK'
    BY <1>0, <2>1 DEF MapTypeOK
  <2>3. OneInFlight' /\ SpinnerEnds'
    BY <1>0, <2>1 DEF OneInFlight, SpinnerEnds
  <2>4. SiteAsksForItsView'
    BY <1>0, <1>1, <2>1 DEF SiteAsksForItsView
  <2> QED BY <1>0, <2>2, <2>3, <2>4 DEF MapInvariant
<1>2. CASE ~Ask(v, q)
  <2>1. UNCHANGED <<flying, searches>> /\ spinner' = FALSE /\ mapClient # "site"
    BY <1>2, SearchedNow
  <2>2. MapTypeOK'
    BY <1>0, <2>1 DEF MapTypeOK
  <2>3. OneInFlight' /\ SpinnerEnds' /\ SiteAsksForItsView'
    BY <1>0, <2>1 DEF OneInFlight, SpinnerEnds, SiteAsksForItsView
  <2> QED BY <1>0, <2>2, <2>3 DEF MapInvariant
<1> QED BY <1>1, <1>2

(* Every step of the map preserves its invariant. *)
LEMMA MapStep ==
  ASSUME MapInvariant, [MapNext]_mapVars
  PROVE  MapInvariant' /\ shown'.no >= shown.no
<1>0. /\ MapTypeOK /\ OneInFlight /\ SpinnerEnds /\ SiteAsksForItsView
      /\ searches \in Nat /\ shown.no \in Nat /\ shown \in MapRequest
      /\ NoView \notin View
  BY MapConstants DEF MapInvariant, MapTypeOK, MapRequest
<1>1. ASSUME NEW v \in View, Pan(v)
      PROVE  MapInvariant' /\ shown'.no >= shown.no
  <2>0. view' = v /\ UNCHANGED <<mapClient, query, shown, fetched>>
    BY <1>1 DEF Pan
  <2>1. CASE mapClient = "site"
    <3>1. SiteEffect
      BY <1>1, <2>1 DEF Pan
    <3>2. MapTypeOK'
      BY <1>0, <2>0, <3>1, SiteReacts DEF MapTypeOK
    <3>3. OneInFlight' /\ SpinnerEnds'
      BY <1>0, <2>0, <3>1, SiteReacts DEF OneInFlight, SpinnerEnds
    <3>4. SiteAsksForItsView'
      BY <1>0, <2>0, <2>1, <3>1, SiteReacts DEF SiteAsksForItsView
    <3> QED BY <1>0, <2>0, <3>2, <3>3, <3>4 DEF MapInvariant
  <2>2. CASE mapClient # "site"
    <3>1. timer' \in {timer, v} /\ UNCHANGED <<flying, searches, spinner, mapError>>
      BY <1>1, <2>2 DEF Pan
    <3>2. MapTypeOK'
      BY <1>0, <2>0, <3>1 DEF MapTypeOK
    <3>3. OneInFlight' /\ SpinnerEnds' /\ SiteAsksForItsView'
      BY <1>0, <2>0, <2>2, <3>1 DEF OneInFlight, SpinnerEnds, SiteAsksForItsView
    <3> QED BY <1>0, <2>0, <3>2, <3>3 DEF MapInvariant
  <2> QED BY <2>1, <2>2
<1>2. ASSUME NEW q \in Query, SetQuery(q)
      PROVE  MapInvariant' /\ shown'.no >= shown.no
  <2>0. query' = q /\ view' = view /\ UNCHANGED <<mapClient, shown, fetched>>
    BY <1>2 DEF SetQuery
  <2>1. CASE mapClient = "site"
    <3>1. SiteEffect
      BY <1>2, <2>1 DEF SetQuery
    <3>2. MapTypeOK'
      BY <1>0, <2>0, <3>1, SiteReacts DEF MapTypeOK
    <3>3. OneInFlight' /\ SpinnerEnds'
      BY <1>0, <2>0, <3>1, SiteReacts DEF OneInFlight, SpinnerEnds, MapTypeOK
    <3>4. SiteAsksForItsView'
      BY <1>0, <2>0, <2>1, <3>1, SiteReacts DEF SiteAsksForItsView, MapTypeOK
    <3> QED BY <1>0, <2>0, <3>2, <3>3, <3>4 DEF MapInvariant
  <2>2. CASE mapClient # "site"
    <3>1. SearchNow(view, q) /\ timer' = timer
      BY <1>2, <2>2 DEF SetQuery
    <3>2. view \in View
      BY <1>0 DEF MapTypeOK
    <3>3. mapError' \in {"none", "wide"}
      BY <3>1, <3>2, SearchedNow
    <3> QED BY <2>0, <2>2, <3>1, <3>2, <3>3, SearchKeeps
  <2> QED BY <2>1, <2>2
<1>3. CASE Refresh
  <2>1. /\ SearchNow(view, query) /\ mapClient = "app" /\ view \in View /\ query \in Query
        /\ UNCHANGED <<mapClient, view, query, timer, shown, fetched>>
    BY <1>0, <1>3 DEF Refresh, MapTypeOK
  <2>2. mapError' \in {"none", "wide"}
    BY <2>1, SearchedNow
  <2> QED BY <2>1, <2>2, SearchKeeps
<1>4. CASE TimerFires
  <2>1. /\ timer \in View /\ query \in Query /\ timer' = NoView
        /\ UNCHANGED <<mapClient, view, query, shown, fetched>>
    BY <1>0, <1>4 DEF TimerFires, MapTypeOK
  <2>2. CASE mapClient = "site"
    <3>1. Ask(timer, query) /\ mapError' = mapError /\ timer = view
      BY <1>0, <1>4, <2>2 DEF TimerFires, SiteAsksForItsView
    <3>2. mapError' \in {"none", "wide", "failed"}
      BY <1>0, <3>1 DEF MapTypeOK
    <3> QED BY <1>0, <2>1, <2>2, <3>1, <3>2, SearchKeeps
  <2>3. CASE mapClient # "site"
    <3>1. SearchNow(timer, query)
      BY <1>4, <2>3 DEF TimerFires
    <3>2. mapError' \in {"none", "wide"}
      BY <2>1, <3>1, SearchedNow
    <3> QED BY <1>0, <2>1, <2>3, <3>1, <3>2, SearchKeeps
  <2> QED BY <2>2, <2>3
<1>5. ASSUME NEW r \in flying, Answered(r) \/ SearchFails(r)
      PROVE  MapInvariant' /\ shown'.no >= shown.no
  <2>1. /\ flying' = {} /\ spinner' = FALSE
        /\ shown' \in {shown, r} /\ r.no = searches /\ r \in MapRequest
        /\ fetched' \in {fetched, r.view} /\ r.view \in View \cup {NoView}
        /\ UNCHANGED <<mapClient, view, query, timer, searches>>
    BY <1>0, <1>5 DEF Answered, SearchFails, OneInFlight, MapTypeOK, MapRequest
  <2>2. MapTypeOK'
    BY <1>0, <1>5, <2>1 DEF MapTypeOK, Answered, SearchFails
  <2>3. OneInFlight' /\ SpinnerEnds' /\ shown'.no >= shown.no
    BY <1>0, <2>1 DEF OneInFlight, SpinnerEnds
  <2>4. SiteAsksForItsView'
    BY <1>0, <1>5, <2>1 DEF Answered, SearchFails, SiteAsksForItsView
  <2> QED BY <2>2, <2>3, <2>4 DEF MapInvariant
<1>6. CASE UNCHANGED mapVars
  <2>1. MapTypeOK'
    BY <1>0, <1>6 DEF mapVars, MapTypeOK
  <2>2. OneInFlight' /\ SpinnerEnds' /\ SiteAsksForItsView'
    BY <1>0, <1>6 DEF mapVars, OneInFlight, SpinnerEnds, SiteAsksForItsView
  <2> QED BY <1>0, <1>6, <2>1, <2>2 DEF MapInvariant, mapVars
<1> QED BY <1>1, <1>2, <1>3, <1>4, <1>5, <1>6 DEF MapNext

(* The invariant of the map holds initially. *)
LEMMA MapStarts == Init => MapInvariant
<1> SUFFICES ASSUME Init PROVE MapInvariant
  OBVIOUS
<1>1. MapInit(IF part = "map" THEN Client ELSE {"app"}) /\ Client = {"app", "site"}
  BY DEF Init, Client
<1>2. /\ view = Home /\ query = FirstQuery /\ fetched = NoView /\ mapError = "none"
      /\ shown = [no |-> 0, view |-> NoView, query |-> FirstQuery]
      /\ spinner = TRUE /\ mapClient \in {"app", "site"}
  BY <1>1 DEF MapInit
<1>3. MaxSearches \in Nat /\ MaxSearches >= 1 /\ shown \in MapRequest
  BY <1>2, MapAssumption, MapConstants DEF MapRequest
<1>4. CASE mapClient = "app"
  <2>1. searches = 1 /\ timer = NoView
        /\ flying = {[no |-> 1, view |-> Home, query |-> FirstQuery]}
    BY <1>1, <1>4 DEF MapInit
  <2>2. flying \subseteq MapRequest
    BY <1>3, <2>1, MapConstants DEF MapRequest
  <2>3. MapTypeOK
    BY <1>2, <1>3, <2>1, <2>2, MapConstants DEF MapTypeOK
  <2>4. OneInFlight /\ SpinnerEnds /\ SiteAsksForItsView
    BY <1>2, <1>4, <2>1 DEF OneInFlight, SpinnerEnds, SiteAsksForItsView
  <2> QED BY <2>3, <2>4 DEF MapInvariant
<1>5. CASE mapClient = "site"
  <2>1. searches = 0 /\ timer = Home /\ flying = {}
    BY <1>1, <1>5 DEF MapInit
  <2>2. MapTypeOK
    BY <1>2, <1>3, <2>1, MapConstants DEF MapTypeOK
  <2>3. OneInFlight /\ SpinnerEnds /\ SiteAsksForItsView
    BY <1>2, <1>5, <2>1, MapConstants DEF OneInFlight, SpinnerEnds, SiteAsksForItsView
  <2> QED BY <2>2, <2>3 DEF MapInvariant
<1> QED BY <1>2, <1>4, <1>5

(* The invariant of the map holds of every behaviour. *)
THEOREM MapInvariantHolds == Spec => []MapInvariant
<1>1. MapInvariant /\ [Next]_vars => MapInvariant'
  BY PartSteps, MapStep
<1> QED BY <1>1, MapStarts, PTL DEF Spec

(* However answers are delayed, the pins never go back to an earlier       *)
(* search.                                                                 *)
THEOREM PinsNeverGoBack == Spec => AnswersInOrder
<1>1. MapInvariant /\ [Next]_vars => [shown'.no >= shown.no]_mapVars
  BY PartSteps, MapStep
<1> QED BY <1>1, MapInvariantHolds, PTL DEF Spec, AnswersInOrder

(* A spinner is about a debounce or a request that is still to come. *)
THEOREM SpinnersEnd == Spec => []SpinnerEnds
<1>1. MapInvariant => SpinnerEnds
  BY DEF MapInvariant
<1> QED BY <1>1, MapInvariantHolds, PTL

(* The site at rest shows the area and the query on screen. *)
THEOREM SiteSettlesOnItsView == Spec => []SiteShowsItsView
<1>1. MapInvariant => SiteShowsItsView
  BY DEF MapInvariant, SiteAsksForItsView, SiteShowsItsView
<1> QED BY <1>1, MapInvariantHolds, PTL
-----------------------------------------------------------------------------
(* The photos: an upload owns its name until it is listed; a name taken    *)
(* off its list was known and never comes back, and one that is still      *)
(* listed when its file goes was named to another unit.                    *)
Uploading(e) == edit[e].step \in {"saved", "rejected"}

UploadsOwnTheirFile ==
    \A e \in Editor : Uploading(e) =>
       /\ edit[e].photo \in bytes \ known
       /\ \A f \in Editor \ {e} : Uploading(f) => edit[f].photo # edit[e].photo

UnlistedIsGone ==
    \A e \in Editor :
       /\ edit[e].step = "unlisted" => edit[e].photo \in (known \ listed) \cup crossed
       /\ edit[e].step \in {"idle", "allowed"} => edit[e].photo = NoPhoto

PhotosInvariant ==
    /\ PhotosTypeOK /\ FilesMatchList /\ UploadsOwnTheirFile /\ UnlistedIsGone
    /\ \A u \in Unit : IsFiniteSet(ListOf(u))
    /\ listed \subseteq known /\ crossed \subseteq known

(* Every step of the photos preserves their invariant. *)
LEMMA PhotosStep ==
  ASSUME PhotosInvariant, [PhotosNext]_photoVars
  PROVE  PhotosInvariant'
<1> USE DEF PhotosInvariant
<1>0. /\ MaxPhotos \in Nat /\ \A u \in Unit : Cardinality(ListOf(u)) \in Nat
      /\ NoPhoto \notin Photo /\ UnitOf \in [Photo -> Unit]
      /\ edit \in [Editor -> [step : EditStep, photo : Photo \cup {NoPhoto}]]
      /\ Resting \in [step : EditStep, photo : Photo \cup {NoPhoto}]
      /\ Resting.step = "idle" /\ Resting.photo = NoPhoto
  BY PhotoAssumption, FS_CardinalityType DEF PhotosTypeOK, Resting, EditStep
<1>1. ASSUME NEW e \in Editor, StartUpload(e) \/ SaveFails(e)
      PROVE  PhotosInvariant'
  <2>1. /\ UNCHANGED <<listed, bytes, known, stranded, crossed>>
        /\ edit[e].step \in {"idle", "allowed"}
        /\ edit' \in [Editor -> [step : EditStep, photo : Photo \cup {NoPhoto}]]
        /\ edit'[e].photo = NoPhoto /\ edit'[e].step \in {"idle", "allowed"}
        /\ \A f \in Editor \ {e} : edit'[f] = edit[f]
    BY <1>0, <1>1 DEF StartUpload, SaveFails, EditGoes, EditEnds, EditStep
  <2>2. edit[e].photo = NoPhoto /\ NoPhoto \notin bytes
    BY <1>0, <2>1 DEF UnlistedIsGone, PhotosTypeOK
  <2>3. PhotosTypeOK' /\ FilesMatchList'
    BY <1>0, <2>1, <2>2 DEF PhotosTypeOK, FilesMatchList, ListOf
  <2>4. UploadsOwnTheirFile' /\ UnlistedIsGone'
    BY <1>0, <2>1 DEF UploadsOwnTheirFile, UnlistedIsGone, Uploading
  <2> QED BY <2>1, <2>3, <2>4 DEF ListOf
<1>2. ASSUME NEW e \in Editor, NEW p \in Photo, SavePhoto(e, p)
      PROVE  PhotosInvariant'
  <2>1. /\ bytes' = bytes \cup {p} /\ UNCHANGED <<listed, known, stranded, crossed>>
        /\ p \notin bytes \cup known \cup stranded /\ \A f \in Editor : edit[f].photo # p
        /\ edit[e].step = "allowed"
        /\ edit' \in [Editor -> [step : EditStep, photo : Photo \cup {NoPhoto}]]
        /\ edit'[e].photo = p /\ edit'[e].step = "saved"
        /\ \A f \in Editor \ {e} : edit'[f] = edit[f]
    BY <1>0, <1>2 DEF SavePhoto, EditGoes, EditStep
  <2>2. edit[e].photo = NoPhoto /\ NoPhoto \notin bytes
    BY <1>0, <2>1 DEF UnlistedIsGone, PhotosTypeOK
  <2>3. PhotosTypeOK' /\ FilesMatchList'
    BY <1>0, <2>1, <2>2 DEF PhotosTypeOK, FilesMatchList, ListOf
  <2>4. UploadsOwnTheirFile' /\ UnlistedIsGone'
    BY <1>0, <2>1 DEF UploadsOwnTheirFile, UnlistedIsGone, Uploading
  <2> QED BY <2>1, <2>3, <2>4 DEF ListOf
<1>3. ASSUME NEW e \in Editor, AppendPhoto(e)
      PROVE  PhotosInvariant'
  <2>0. /\ UNCHANGED <<bytes, stranded, crossed>> /\ Uploading(e)
        /\ edit[e].photo \in bytes \ known /\ edit[e].photo \in Photo
    BY <1>0, <1>3 DEF AppendPhoto, Uploading, UploadsOwnTheirFile, PhotosTypeOK
  <2> DEFINE u == UnitOf[edit[e].photo]
  <2>u. u \in Unit
    BY <1>0, <2>0
  <2>1. CASE Cardinality(ListOf(u)) < MaxPhotos
    <3>1. /\ listed' = listed \cup {edit[e].photo} /\ known' = known \cup {edit[e].photo}
          /\ edit' \in [Editor -> [step : EditStep, photo : Photo \cup {NoPhoto}]]
          /\ edit'[e].photo = NoPhoto /\ edit'[e].step = "idle"
          /\ \A f \in Editor \ {e} : edit'[f] = edit[f]
      BY <1>0, <1>3, <2>1 DEF AppendPhoto, EditEnds
    <3>2. ASSUME NEW v \in Unit
          PROVE  IsFiniteSet(ListOf(v)') /\ Cardinality(ListOf(v)') <= MaxPhotos
      <4>1. CASE v = u
        <5>1. edit[e].photo \notin ListOf(u) /\ ListOf(v)' = ListOf(u) \cup {edit[e].photo}
          BY <2>0, <3>1, <4>1 DEF ListOf
        <5>2. /\ IsFiniteSet(ListOf(u) \cup {edit[e].photo})
              /\ Cardinality(ListOf(u) \cup {edit[e].photo}) = Cardinality(ListOf(u)) + 1
          BY <2>u, <5>1, FS_AddElement
        <5> QED BY <1>0, <2>u, <2>1, <5>1, <5>2
      <4>2. CASE v # u
        <5>1. ListOf(v)' = ListOf(v)
          BY <2>0, <3>1, <4>2 DEF ListOf
        <5> QED BY <5>1 DEF PhotosTypeOK
      <4> QED BY <4>1, <4>2
    <3>3. PhotosTypeOK' /\ FilesMatchList'
      BY <1>0, <2>0, <3>1, <3>2 DEF PhotosTypeOK, FilesMatchList
    <3>4. UploadsOwnTheirFile' /\ UnlistedIsGone'
      BY <1>0, <2>0, <3>1 DEF UploadsOwnTheirFile, UnlistedIsGone, Uploading
    <3>5. listed' \subseteq known' /\ crossed' \subseteq known'
      BY <2>0, <3>1
    <3> QED BY <3>2, <3>3, <3>4, <3>5
  <2>2. CASE ~(Cardinality(ListOf(u)) < MaxPhotos)
    <3>1. /\ UNCHANGED <<listed, known>>
          /\ edit' \in [Editor -> [step : EditStep, photo : Photo \cup {NoPhoto}]]
          /\ edit'[e].photo = edit[e].photo /\ edit'[e].step = "rejected"
          /\ \A f \in Editor \ {e} : edit'[f] = edit[f]
      BY <1>0, <1>3, <2>0, <2>2 DEF AppendPhoto, EditGoes, EditStep
    <3>3. PhotosTypeOK' /\ FilesMatchList'
      BY <1>0, <2>0, <3>1 DEF PhotosTypeOK, FilesMatchList, ListOf
    <3>4. UploadsOwnTheirFile' /\ UnlistedIsGone'
      BY <1>0, <2>0, <3>1 DEF UploadsOwnTheirFile, UnlistedIsGone, Uploading
    <3> QED BY <2>0, <3>1, <3>3, <3>4 DEF ListOf
  <2> QED BY <2>1, <2>2
<1>4. ASSUME NEW e \in Editor, Reclaim(e) \/ EraseBytes(e)
      PROVE  PhotosInvariant'
  <2>1. /\ UNCHANGED <<listed, known, stranded, crossed>> /\ bytes' = bytes \ {edit[e].photo}
        /\ edit[e].step \in {"rejected", "unlisted"}
        /\ edit' \in [Editor -> [step : EditStep, photo : Photo \cup {NoPhoto}]]
        /\ edit'[e].photo = NoPhoto /\ edit'[e].step = "idle"
        /\ \A f \in Editor \ {e} : edit'[f] = edit[f]
    BY <1>0, <1>4 DEF Reclaim, EraseBytes, EditEnds
  <2>2. edit[e].photo \notin listed \/ edit[e].photo \in crossed
    BY <2>1 DEF UploadsOwnTheirFile, UnlistedIsGone, Uploading
  <2>3. PhotosTypeOK' /\ FilesMatchList'
    BY <1>0, <2>1, <2>2 DEF PhotosTypeOK, FilesMatchList, ListOf
  <2>4. UploadsOwnTheirFile' /\ UnlistedIsGone'
    BY <1>0, <2>1 DEF UploadsOwnTheirFile, UnlistedIsGone, Uploading
  <2> QED BY <2>1, <2>3, <2>4 DEF ListOf
<1>5. ASSUME NEW e \in Editor, NEW u \in Unit, NEW p \in Photo, Unlist(e, u, p)
      PROVE  PhotosInvariant'
  <2>1. /\ UNCHANGED <<bytes, known, stranded>> /\ listed' \subseteq listed
        /\ crossed' \in {crossed, crossed \cup {p}} /\ (p \notin listed' \/ p \in crossed')
        /\ crossed \subseteq crossed' /\ listed \ {p} \subseteq listed'
        /\ p \in listed \ listed' => UnitOf[p] = u
        /\ edit[e].step = "idle" /\ p \in known
        /\ edit' \in [Editor -> [step : EditStep, photo : Photo \cup {NoPhoto}]]
        /\ edit'[e].photo = p /\ edit'[e].step = "unlisted"
        /\ \A f \in Editor \ {e} : edit'[f] = edit[f]
    BY <1>0, <1>5 DEF Unlist, EditGoes, EditStep
  <2>2. edit[e].photo = NoPhoto /\ NoPhoto \notin bytes
    BY <1>0, <2>1 DEF UnlistedIsGone, PhotosTypeOK
  <2>3. ASSUME NEW v \in Unit
        PROVE  IsFiniteSet(ListOf(v)') /\ Cardinality(ListOf(v)') <= MaxPhotos
    <3>1. ListOf(v)' \subseteq ListOf(v)
      BY <2>1 DEF ListOf
    <3>2. IsFiniteSet(ListOf(v)') /\ Cardinality(ListOf(v)') <= Cardinality(ListOf(v))
      BY <3>1, FS_Subset
    <3>3. Cardinality(ListOf(v)') \in Nat
      BY <3>2, FS_CardinalityType
    <3> QED BY <1>0, <3>2, <3>3 DEF PhotosTypeOK
  <2>4. PhotosTypeOK' /\ FilesMatchList'
    BY <1>0, <2>1, <2>2, <2>3 DEF PhotosTypeOK, FilesMatchList
  <2>5. UploadsOwnTheirFile' /\ UnlistedIsGone'
    BY <1>0, <2>1 DEF UploadsOwnTheirFile, UnlistedIsGone, Uploading
  <2>6. listed' \subseteq known' /\ crossed' \subseteq known'
    BY <2>1
  <2> QED BY <2>3, <2>4, <2>5, <2>6
<1>6. ASSUME NEW e \in Editor, EditBreaks(e)
      PROVE  PhotosInvariant'
  <2>1. /\ UNCHANGED <<listed, bytes, known, crossed>>
        /\ stranded' = stranded \cup ({edit[e].photo} \cap bytes)
        /\ edit' \in [Editor -> [step : EditStep, photo : Photo \cup {NoPhoto}]]
        /\ edit'[e].photo = NoPhoto /\ edit'[e].step = "idle"
        /\ \A f \in Editor \ {e} : edit'[f] = edit[f]
    BY <1>0, <1>6 DEF EditBreaks, EditEnds
  <2>3. PhotosTypeOK' /\ FilesMatchList'
    BY <1>0, <2>1 DEF PhotosTypeOK, FilesMatchList, ListOf
  <2>4. UploadsOwnTheirFile' /\ UnlistedIsGone'
    BY <1>0, <2>1 DEF UploadsOwnTheirFile, UnlistedIsGone, Uploading
  <2> QED BY <2>1, <2>3, <2>4 DEF ListOf
<1>7. CASE UNCHANGED photoVars
  <2>1. PhotosTypeOK' /\ FilesMatchList'
    BY <1>7 DEF photoVars, PhotosTypeOK, FilesMatchList, ListOf
  <2>2. UploadsOwnTheirFile' /\ UnlistedIsGone'
    BY <1>7 DEF photoVars, UploadsOwnTheirFile, UnlistedIsGone, Uploading
  <2> QED BY <1>7, <2>1, <2>2 DEF photoVars, ListOf
<1> QED BY <1>1, <1>2, <1>3, <1>4, <1>5, <1>6, <1>7 DEF PhotosNext

(* The invariant of the photos holds initially. *)
LEMMA PhotosStart == Init => PhotosInvariant
<1> SUFFICES ASSUME Init PROVE PhotosInvariant
  OBVIOUS
<1>1. /\ listed = {} /\ bytes = {} /\ known = {} /\ stranded = {} /\ crossed = {}
      /\ edit = [e \in Editor |-> Resting]
  BY DEF Init, PhotosInit
<1>2. ASSUME NEW u \in Unit
      PROVE  IsFiniteSet(ListOf(u)) /\ Cardinality(ListOf(u)) = 0
  <2>1. ListOf(u) = {}
    BY <1>1 DEF ListOf
  <2> QED BY <2>1, FS_EmptySet
<1>3. PhotosTypeOK
  BY <1>1, <1>2, PhotoAssumption DEF PhotosTypeOK, Resting, EditStep
<1>4. FilesMatchList /\ UploadsOwnTheirFile /\ UnlistedIsGone
  BY <1>1 DEF FilesMatchList, UploadsOwnTheirFile, UnlistedIsGone, Uploading, Resting
<1> QED BY <1>1, <1>2, <1>3, <1>4 DEF PhotosInvariant

(* The invariant of the photos holds of every behaviour. *)
THEOREM PhotosInvariantHolds == Spec => []PhotosInvariant
<1>1. PhotosInvariant /\ [Next]_vars => PhotosInvariant'
  BY PartSteps, PhotosStep
<1> QED BY <1>1, PhotosStart, PTL DEF Spec

(* Whatever uploads and removals interleave and wherever they break off,   *)
(* a listed photo has its file unless a removal named it to another unit,  *)
(* and a file is listed, stranded or of a call under way.                  *)
THEOREM PhotosHaveFiles == Spec => []FilesMatchList
<1>1. PhotosInvariant => FilesMatchList
  BY DEF PhotosInvariant
<1> QED BY <1>1, PhotosInvariantHolds, PTL
-----------------------------------------------------------------------------
(* The checkout: what a screen, a handler and the watcher are about is a   *)
(* hold; the hold being placed is new, and the watched one is not.         *)
AboutAHold ==
    /\ screen.at # "idle" => screen.hold \in Hold
    /\ watch.step # "off" => watch.hold \in Hold /\ booked[watch.hold] # "none"
    /\ \A t \in Tap : tap[t].step # "idle" => tap[t].hold \in Hold

PlacingIsNew == screen.at = "placing" => booked[screen.hold] = "none"

WatcherTellsTheTruth ==
    watch.step = "read" =>
       /\ watch.saw # "none"
       /\ watch.saw = "confirmed" => booked[watch.hold] = "confirmed"

CheckoutInvariant ==
    /\ CheckoutTypeOK /\ ConfirmedIsBooked
    /\ AboutAHold /\ PlacingIsNew /\ WatcherTellsTheTruth

(* The types of the checkout, read off its invariant. *)
LEMMA CheckoutType ==
  ASSUME CheckoutInvariant
  PROVE  /\ booked \in [Hold -> {"none", "pending", "confirmed", "expired"}]
         /\ screen \in [at : At, hold : Hold \cup {NoHold}, paying : BOOLEAN]
         /\ tap \in [Tap -> [step : {"idle", "initiating", "gateway"}, hold : Hold \cup {NoHold}]]
         /\ AboutAHold /\ PlacingIsNew /\ ConfirmedIsBooked /\ WatcherTellsTheTruth
         /\ \A at \in At, h \in Hold : Shows(at, h) =>
               /\ screen' \in [at : At, hold : Hold \cup {NoHold}, paying : BOOLEAN]
               /\ screen'.at = at /\ screen'.hold = h
         /\ Idle \in [at : At, hold : Hold \cup {NoHold}, paying : BOOLEAN]
         /\ Idle.at = "idle"
<1>1. \A at \in At, h \in Hold : Shows(at, h) =>
         /\ screen' \in [at : At, hold : Hold \cup {NoHold}, paying : BOOLEAN]
         /\ screen'.at = at /\ screen'.hold = h
  BY DEF Shows
<1>2. /\ Idle \in [at : At, hold : Hold \cup {NoHold}, paying : BOOLEAN]
      /\ Idle.at = "idle"
  BY DEF Idle, At
<1> QED BY <1>1, <1>2 DEF CheckoutInvariant, CheckoutTypeOK

(* A booking moves forward; it comes into being under the screen that      *)
(* placed it, which then shows something else.                             *)
BookedGoesOn ==
    /\ booked' \in [Hold -> {"none", "pending", "confirmed", "expired"}]
    /\ \A h \in Hold :
          /\ booked[h] = "confirmed" => booked'[h] = "confirmed"
          /\ booked[h] # "none" => booked'[h] # "none"
          /\ booked[h] = "none" /\ booked'[h] # "none" =>
                screen.at = "placing" /\ screen'.at # "placing" /\ h = screen.hold

(* The bookings table only goes on. *)
LEMMA BookedMoves ==
  ASSUME CheckoutInvariant, [CheckoutNext]_checkoutVars
  PROVE  BookedGoesOn
<1>0. booked \in [Hold -> {"none", "pending", "confirmed", "expired"}]
  BY CheckoutType
<1>1. CASE booked' = booked
  BY <1>0, <1>1 DEF BookedGoesOn
<1>2. ASSUME NEW h \in Hold, WebhookConfirms(h) \/ HoldLapses(h)
      PROVE  BookedGoesOn
  BY <1>0, <1>2 DEF WebhookConfirms, HoldLapses, BookedGoesOn
<1>3. ASSUME screen.at = "placing", screen'.at # "placing",
             booked' = [booked EXCEPT ![screen.hold] = "pending"]
      PROVE  BookedGoesOn
  <2>1. screen.hold \in Hold /\ booked[screen.hold] = "none"
    BY <1>3, CheckoutType DEF AboutAHold, PlacingIsNew
  <2> QED BY <1>0, <1>3, <2>1 DEF BookedGoesOn
<1>4. CASE HoldPlaced \/ HoldNotAnswered
  <2>1. screen.at = "placing" /\ screen'.at # "placing"
    BY <1>4, CheckoutType DEF HoldPlaced, HoldNotAnswered, Shows, Idle, AboutAHold
  <2>2. booked' = booked \/ booked' = [booked EXCEPT ![screen.hold] = "pending"]
    BY <1>4 DEF HoldPlaced, HoldNotAnswered
  <2> QED BY <1>1, <1>3, <2>1, <2>2
<1>5. CASE LeaveScreen
  <2>1. screen'.at # "placing"
    BY <1>5 DEF LeaveScreen, Idle
  <2>2. \/ booked' = booked
        \/ screen.at = "placing" /\ booked' = [booked EXCEPT ![screen.hold] = "pending"]
    BY <1>5 DEF LeaveScreen
  <2> QED BY <1>1, <1>3, <2>1, <2>2
<1>6. ASSUME \/ \E h \in Hold : PressHold(h)
             \/ \E t \in Tap : \/ PressPay(t) \/ PaymentInitiated(t) \/ InitiateRefused(t)
                               \/ PaymentMade(t) \/ PaymentNotMade(t) \/ PaymentSheet(t)
             \/ CardConfirmed \/ ConfirmationRenders
             \/ WatchReads \/ WatchYields \/ WatchTriggers \/ WatchFails
             \/ CountdownExpires \/ StartOver \/ UNCHANGED checkoutVars
      PROVE  booked' = booked
  BY <1>6 DEF PressHold, PressPay, PaymentInitiated, InitiateRefused, PaymentMade,
              PaymentNotMade, PaymentSheet, CardConfirmed, ConfirmationRenders, WatchReads,
              WatchYields, WatchTriggers, WatchFails, CountdownExpires, StartOver, checkoutVars
<1> QED BY <1>1, <1>2, <1>4, <1>5, <1>6 DEF CheckoutNext

(* What a step may put on the screen. *)
ScreenGoesOn ==
    /\ screen' \in [at : At, hold : Hold \cup {NoHold}, paying : BOOLEAN]
    /\ \/ screen' = screen
       \/ screen'.at = "idle"
       \/ screen'.hold \in Hold /\ screen'.at \notin {"idle", "placing", "confirmed"}
       \/ /\ screen'.hold \in Hold /\ screen'.at = "placing"
          /\ booked[screen'.hold] = "none" /\ booked' = booked
       \/ /\ screen'.hold \in Hold /\ screen'.at = "confirmed"
          /\ booked[screen'.hold] = "confirmed"

(* How each kind of step changes the screen. *)
LEMMA ScreenMoves ==
  ASSUME CheckoutInvariant, [CheckoutNext]_checkoutVars
  PROVE  ScreenGoesOn
<1>0. screen \in [at : At, hold : Hold \cup {NoHold}, paying : BOOLEAN]
  BY CheckoutType
<1>1. ASSUME NEW at \in At \ {"idle", "placing", "confirmed"}, NEW h \in Hold, Shows(at, h)
      PROVE  ScreenGoesOn
  BY <1>1, CheckoutType DEF ScreenGoesOn
<1>2. CASE screen' = screen
  BY <1>0, <1>2 DEF ScreenGoesOn
<1>3. CASE screen' = Idle
  BY <1>3, CheckoutType DEF ScreenGoesOn
<1>4. ASSUME NEW h \in Hold, PressHold(h)
      PROVE  ScreenGoesOn
  <2>1. Shows("placing", h) /\ "placing" \in At /\ booked[h] = "none" /\ booked' = booked
    BY <1>4 DEF PressHold, At
  <2> QED BY <2>1, CheckoutType DEF ScreenGoesOn
<1>5. CASE HoldPlaced \/ HoldNotAnswered
  <2>1. screen.hold \in Hold
    BY <1>5, CheckoutType DEF HoldPlaced, HoldNotAnswered, AboutAHold
  <2>2. Shows("active", screen.hold) \/ Shows("failed", screen.hold) \/ screen' = Idle
    BY <1>5 DEF HoldPlaced, HoldNotAnswered
  <2> QED BY <1>1, <1>3, <2>1, <2>2 DEF At
<1>6. ASSUME NEW t \in Tap, \/ PressPay(t) \/ PaymentInitiated(t) \/ InitiateRefused(t)
                            \/ PaymentMade(t) \/ PaymentNotMade(t) \/ PaymentSheet(t)
      PROVE  ScreenGoesOn
  <2>1. CASE PressPay(t)
    BY <1>2, <2>1 DEF PressPay
  <2>2. CASE ~PressPay(t)
    <3>1. tap[t].hold \in Hold
      BY <1>6, <2>2, CheckoutType
         DEF PaymentInitiated, InitiateRefused, PaymentMade, PaymentNotMade, PaymentSheet,
             AboutAHold
    <3>2. CASE PaymentInitiated(t)
      <4>1. \/ screen' = screen
            \/ screen' = [at |-> "active", hold |-> tap[t].hold, paying |-> TRUE]
        BY <3>2 DEF PaymentInitiated
      <4>2. ASSUME screen' = [at |-> "active", hold |-> tap[t].hold, paying |-> TRUE]
            PROVE  ScreenGoesOn
        <5>1. /\ screen' \in [at : At, hold : Hold \cup {NoHold}, paying : BOOLEAN]
              /\ screen'.at = "active" /\ screen'.hold = tap[t].hold
          BY <3>1, <4>2 DEF At
        <5> QED BY <3>1, <5>1 DEF ScreenGoesOn
      <4> QED BY <1>2, <4>1, <4>2
    <3>3. CASE ~PaymentInitiated(t)
      <4>1. \/ screen' = screen
            \/ \E at \in {"expired", "failed", "returning", "card"} : Shows(at, tap[t].hold)
        BY <1>6, <2>2, <3>3
           DEF InitiateRefused, PaymentMade, Submitted, PaymentNotMade, PaymentSheet
      <4> QED BY <1>1, <1>2, <3>1, <4>1 DEF At
    <3> QED BY <3>2, <3>3
  <2> QED BY <2>1, <2>2
<1>7. CASE CardConfirmed \/ CountdownExpires
  <2>1. screen.hold \in Hold
    BY <1>7, CheckoutType DEF CardConfirmed, CountdownExpires, AboutAHold
  <2>2. Shows("returning", screen.hold) \/ Shows("expired", screen.hold)
    BY <1>7 DEF CardConfirmed, CountdownExpires
  <2> QED BY <1>1, <2>1, <2>2 DEF At
<1>8. CASE ConfirmationRenders
  <2>1. screen.hold \in Hold
    BY <1>8, CheckoutType DEF ConfirmationRenders, AboutAHold
  <2>2. \/ Shows("processing", screen.hold)
        \/ Shows("confirmed", screen.hold) /\ booked[screen.hold] = "confirmed"
    BY <1>8 DEF ConfirmationRenders
  <2>3. "confirmed" \in At /\ "processing" \in At
    BY DEF At
  <2> QED BY <1>1, <2>1, <2>2, <2>3, CheckoutType DEF ScreenGoesOn
<1>9. CASE WatchYields
  <2>1. CASE watch.saw = "pending"
    BY <1>2, <1>9, <2>1 DEF WatchYields
  <2>2. CASE watch.saw # "pending"
    <3>1. watch.hold \in Hold /\ watch.saw \in {"confirmed", "expired"}
      BY <1>9, <2>2
         DEF WatchYields, CheckoutInvariant, CheckoutTypeOK, AboutAHold, WatcherTellsTheTruth
    <3>2. Shows(watch.saw, watch.hold) /\ watch.saw \in At
      BY <1>9, <2>2, <3>1 DEF WatchYields, At
    <3>3. watch.saw = "confirmed" => booked[watch.hold] = "confirmed"
      BY <1>9 DEF WatchYields, CheckoutInvariant, WatcherTellsTheTruth
    <3> QED BY <1>1, <3>1, <3>2, <3>3, CheckoutType DEF ScreenGoesOn
  <2> QED BY <2>1, <2>2
<1>10. ASSUME \/ \E h \in Hold : WebhookConfirms(h) \/ HoldLapses(h)
              \/ WatchReads \/ WatchTriggers \/ WatchFails \/ UNCHANGED checkoutVars
       PROVE  screen' = screen
  BY <1>10 DEF WebhookConfirms, HoldLapses, WatchReads, WatchTriggers, WatchFails, checkoutVars
<1>11. CASE StartOver \/ LeaveScreen
  BY <1>3, <1>11 DEF StartOver, LeaveScreen
<1> QED BY <1>2, <1>4, <1>5, <1>6, <1>7, <1>8, <1>9, <1>10, <1>11 DEF CheckoutNext

(* What the watcher may become: it reads the booking as it is. *)
WatchType == [step : WatchStep, hold : Hold \cup {NoHold},
              saw : {"none", "pending", "confirmed", "expired"}]

WatchGoesOn ==
    /\ watch' \in WatchType
    /\ \/ watch' = watch
       \/ watch'.step = "off"
       \/ /\ watch'.step \in {"fetching", "waiting"}
          /\ watch'.hold \in Hold /\ booked'[watch'.hold] # "none"
       \/ /\ watch'.step = "read" /\ booked' = booked
          /\ watch'.hold \in Hold /\ watch'.saw = booked[watch'.hold]
          /\ booked[watch'.hold] # "none"

(* How each kind of step changes the watcher. *)
LEMMA WatchMoves ==
  ASSUME CheckoutInvariant, [CheckoutNext]_checkoutVars
  PROVE  WatchGoesOn
<1>0. /\ watch \in WatchType /\ Off \in WatchType /\ Off.step = "off"
      /\ booked \in [Hold -> {"none", "pending", "confirmed", "expired"}]
      /\ AboutAHold
  BY DEF CheckoutInvariant, CheckoutTypeOK, WatchType, Off, WatchStep
<1>1. CASE watch' = watch \/ watch' = Off
  BY <1>0, <1>1 DEF WatchGoesOn
<1>2. CASE HoldPlaced
  <2>1. CASE OnPhone
    <3>1. /\ screen.hold \in Hold /\ booked' = [booked EXCEPT ![screen.hold] = "pending"]
          /\ watch' = [step |-> "fetching", hold |-> screen.hold, saw |-> "none"]
      BY <1>0, <1>2, <2>1 DEF HoldPlaced, Watching, AboutAHold
    <3> QED BY <1>0, <3>1 DEF WatchGoesOn, WatchType, WatchStep
  <2>2. CASE ~OnPhone
    BY <1>1, <1>2, <2>2 DEF HoldPlaced
  <2> QED BY <2>1, <2>2
<1>3. CASE WatchReads
  <2>1. /\ watch.hold \in Hold /\ booked' = booked /\ booked[watch.hold] # "none"
        /\ watch' = [step |-> "read", hold |-> watch.hold, saw |-> booked[watch.hold]]
    BY <1>0, <1>3 DEF WatchReads, Watching, AboutAHold
  <2> QED BY <1>0, <2>1 DEF WatchGoesOn, WatchType, WatchStep
<1>4. ASSUME WatchYields \/ WatchTriggers, watch' # Off
      PROVE  WatchGoesOn
  <2>1. /\ watch.hold \in Hold /\ booked' = booked /\ booked[watch.hold] # "none"
        /\ \/ watch' = [step |-> "waiting", hold |-> watch.hold, saw |-> "none"]
           \/ watch' = [step |-> "fetching", hold |-> watch.hold, saw |-> "none"]
    BY <1>0, <1>4 DEF WatchYields, WatchTriggers, Watching, AboutAHold
  <2> QED BY <1>0, <2>1 DEF WatchGoesOn, WatchType, WatchStep
<1>5. ASSUME \/ \E h \in Hold : PressHold(h) \/ WebhookConfirms(h) \/ HoldLapses(h)
             \/ HoldNotAnswered
             \/ \E t \in Tap : \/ PressPay(t) \/ PaymentInitiated(t) \/ InitiateRefused(t)
                               \/ PaymentMade(t) \/ PaymentNotMade(t) \/ PaymentSheet(t)
             \/ CardConfirmed \/ ConfirmationRenders
             \/ WatchFails \/ CountdownExpires \/ StartOver \/ LeaveScreen
             \/ UNCHANGED checkoutVars
      PROVE  watch' = watch \/ watch' = Off
  BY <1>5 DEF PressHold, WebhookConfirms, HoldLapses, HoldNotAnswered, PressPay,
              PaymentInitiated, InitiateRefused, PaymentMade, PaymentNotMade, PaymentSheet,
              CardConfirmed, ConfirmationRenders, WatchFails, CountdownExpires, StartOver,
              LeaveScreen, checkoutVars
<1> QED BY <1>1, <1>2, <1>3, <1>4, <1>5 DEF CheckoutNext

(* The handlers, the rest of the types. *)
LEMMA TapMoves ==
  ASSUME CheckoutInvariant, [CheckoutNext]_checkoutVars
  PROVE  /\ checkout' \in {"app", "site"} /\ captured' \subseteq Hold
         /\ tap' \in [Tap -> [step : {"idle", "initiating", "gateway"},
                              hold : Hold \cup {NoHold}]]
         /\ \A t \in Tap : tap'[t].step # "idle" => tap'[t].hold \in Hold
<1>0. /\ checkout \in {"app", "site"} /\ captured \subseteq Hold
      /\ tap \in [Tap -> [step : {"idle", "initiating", "gateway"}, hold : Hold \cup {NoHold}]]
      /\ AboutAHold
  BY DEF CheckoutInvariant, CheckoutTypeOK
<1>1. ASSUME NEW t \in Tap, PressPay(t)
      PROVE  /\ UNCHANGED <<checkout, captured>> /\ screen.hold \in Hold
             /\ tap' = [tap EXCEPT ![t] = [step |-> "initiating", hold |-> screen.hold]]
  BY <1>0, <1>1 DEF PressPay, TapGoes, AboutAHold
<1>2. ASSUME NEW t \in Tap, \/ PaymentInitiated(t) \/ InitiateRefused(t) \/ PaymentMade(t)
                            \/ PaymentNotMade(t) \/ PaymentSheet(t)
      PROVE  /\ checkout' = checkout /\ captured' \subseteq Hold
             /\ \/ /\ tap' = [tap EXCEPT ![t] = [step |-> "gateway", hold |-> tap[t].hold]]
                   /\ tap[t].hold \in Hold
                \/ tap' = [tap EXCEPT ![t] = [step |-> "idle", hold |-> NoHold]]
  BY <1>0, <1>2 DEF PaymentInitiated, InitiateRefused, PaymentMade, PaymentNotMade,
                    PaymentSheet, TapGoes, AboutAHold
<1>3. CASE LeaveScreen
  BY <1>0, <1>3 DEF LeaveScreen, Returned
<1>4. CASE CardConfirmed
  BY <1>0, <1>4 DEF CardConfirmed, AboutAHold
<1>5. ASSUME \/ \E h \in Hold : PressHold(h) \/ WebhookConfirms(h) \/ HoldLapses(h)
             \/ HoldPlaced \/ HoldNotAnswered \/ ConfirmationRenders
             \/ WatchReads \/ WatchYields \/ WatchTriggers \/ WatchFails
             \/ CountdownExpires \/ StartOver \/ UNCHANGED checkoutVars
      PROVE  UNCHANGED <<checkout, captured, tap>>
  BY <1>5 DEF PressHold, WebhookConfirms, HoldLapses, HoldPlaced, HoldNotAnswered,
              ConfirmationRenders, WatchReads, WatchYields, WatchTriggers, WatchFails,
              CountdownExpires, StartOver, checkoutVars
<1> QED BY <1>0, <1>1, <1>2, <1>3, <1>4, <1>5 DEF CheckoutNext, AboutAHold

(* Every step of the checkout preserves its invariant. *)
LEMMA CheckoutStep ==
  ASSUME CheckoutInvariant, [CheckoutNext]_checkoutVars
  PROVE  CheckoutInvariant'
<1>0. /\ BookedGoesOn /\ ScreenGoesOn /\ WatchGoesOn
      /\ AboutAHold /\ PlacingIsNew /\ ConfirmedIsBooked /\ WatcherTellsTheTruth
  BY BookedMoves, ScreenMoves, WatchMoves, CheckoutType
<1>1. CheckoutTypeOK'
  BY <1>0, TapMoves DEF CheckoutTypeOK, BookedGoesOn, ScreenGoesOn, WatchGoesOn, WatchType
<1>2. AboutAHold'
  BY <1>0, TapMoves DEF AboutAHold, BookedGoesOn, ScreenGoesOn, WatchGoesOn
<1>3. PlacingIsNew'
  BY <1>0 DEF PlacingIsNew, AboutAHold, BookedGoesOn, ScreenGoesOn
<1>4. ConfirmedIsBooked'
  BY <1>0 DEF ConfirmedIsBooked, AboutAHold, BookedGoesOn, ScreenGoesOn
<1>5. WatcherTellsTheTruth'
  BY <1>0 DEF WatcherTellsTheTruth, AboutAHold, BookedGoesOn, WatchGoesOn
<1> QED BY <1>1, <1>2, <1>3, <1>4, <1>5 DEF CheckoutInvariant

(* The invariant of the checkout holds initially. *)
LEMMA CheckoutStarts == Init => CheckoutInvariant
<1> SUFFICES ASSUME Init PROVE CheckoutInvariant
  OBVIOUS
<1>1. /\ checkout \in {"app", "site"} /\ booked = [h \in Hold |-> "none"] /\ captured = {}
      /\ screen = Idle /\ watch = Off /\ tap = [t \in Tap |-> Returned]
  BY DEF Init, CheckoutInit, Client
<1>2. CheckoutTypeOK
  BY <1>1 DEF CheckoutTypeOK, Idle, Off, Returned, At, WatchStep
<1> QED BY <1>1, <1>2 DEF CheckoutInvariant, ConfirmedIsBooked, AboutAHold, PlacingIsNew,
                          WatcherTellsTheTruth, Idle, Off, Returned

(* The invariant of the checkout holds of every behaviour. *)
THEOREM CheckoutInvariantHolds == Spec => []CheckoutInvariant
<1>1. CheckoutInvariant /\ [Next]_vars => CheckoutInvariant'
  BY PartSteps, CheckoutStep
<1> QED BY <1>1, CheckoutStarts, PTL DEF Spec

(* However handlers, watcher and webhook interleave, a screen confirms     *)
(* only what is booked.                                                    *)
THEOREM ConfirmedHoldsAreBooked == Spec => []ConfirmedIsBooked
<1>1. CheckoutInvariant => ConfirmedIsBooked
  BY DEF CheckoutInvariant
<1> QED BY <1>1, CheckoutInvariantHolds, PTL
-----------------------------------------------------------------------------
(* Sign-in: who is about to give a counter its expiry.                     *)
AboutToTime(r, k) ==
    \/ request[r].step = "guardFirst" /\ request[r].route = k
    \/ request[r].step = "sendFirst" /\ k = "sends"

Stored == [no : Nat, attempts : Nat]
Asking == [step : SignStep, route : Route, saw : Stored, typed : Nat]

SignInvariant ==
    /\ count \in [Counter -> Nat] /\ timed \in [Counter -> BOOLEAN]
    /\ code \in Stored /\ codes \in Nat
    /\ request \in [Request -> Asking]
    /\ WindowsOpenAgain

(* The bounds of the limiter are numbers. *)
LEMMA MaxCodesNat == MaxCodes \in Nat /\ RouteLimit \in Nat \ {0} /\ \A n \in 0..MaxCodes : n \in Nat
  BY SignInAssumption

(* The types of sign-in, read off its invariant. *)
LEMMA SignTypes ==
  ASSUME SignInvariant
  PROVE  /\ count \in [Counter -> Nat] /\ timed \in [Counter -> BOOLEAN]
         /\ code \in Stored /\ codes \in Nat /\ request \in [Request -> Asking]
         /\ WindowsOpenAgain
         /\ NoCode \in Stored /\ Done \in Asking
  BY DEF SignInvariant, NoCode, Done, Stored, Asking, SignStep, Route

(* One request moves and the others stay. *)
OnlyMoves(r) ==
    /\ request' \in [Request -> Asking]
    /\ \A q \in Request : q # r => request'[q] = request[q]

(* A request that ends moves no other. *)
LEMMA EndsMoves ==
  ASSUME SignInvariant, NEW r \in Request, Ends(r)
  PROVE  OnlyMoves(r)
  BY SignTypes DEF OnlyMoves, Ends

(* A request that takes a step moves no other, and keeps its route. *)
LEMMA StepMoves ==
  ASSUME SignInvariant, NEW r \in Request, NEW from, NEW to \in SignStep, Step(r, from, to)
  PROVE  OnlyMoves(r) /\ request'[r].step = to /\ request'[r].route = request[r].route
<1>1. request \in [Request -> Asking]
  BY SignTypes
<1>2. request' = [request EXCEPT ![r].step = to]
  BY DEF Step
<1>3. [request[r] EXCEPT !.step = to] \in Asking
  BY <1>1 DEF Asking
<1> QED BY <1>1, <1>2, <1>3 DEF OnlyMoves, Asking

(* A counter that no step touches keeps what will time it. *)
LEMMA UntouchedStays ==
  ASSUME SignInvariant, NEW r \in Request, NEW k \in Counter, OnlyMoves(r), ~AboutToTime(r, k),
         count'[k] > 0 => count[k] > 0,
         timed[k] => timed'[k], k \in unwindowed => k \in unwindowed'
  PROVE  count'[k] > 0 =>
            timed'[k] \/ k \in unwindowed' \/ \E q \in Request : AboutToTime(q, k)'
<1> SUFFICES ASSUME count'[k] > 0
             PROVE  timed'[k] \/ k \in unwindowed' \/ \E q \in Request : AboutToTime(q, k)'
  OBVIOUS
<1>1. timed[k] \/ k \in unwindowed \/ \E q \in Request : AboutToTime(q, k)
  BY SignTypes DEF WindowsOpenAgain, AboutToTime
<1>2. ASSUME NEW q \in Request, AboutToTime(q, k)
      PROVE  AboutToTime(q, k)'
  BY <1>2 DEF OnlyMoves, AboutToTime
<1> QED BY <1>1, <1>2

(* The steps of a request that leave every counter alone. *)
LEMMA QuietSteps ==
  ASSUME SignInvariant, NEW r \in Request,
         \/ \E route \in Route, typed \in 0..MaxCodes : Arrive(r, route, typed)
         \/ GuardFailsOpen(r) \/ ReadCooldown(r) \/ ReadSends(r) \/ StoreCode(r)
         \/ StoreCooldown(r) \/ IssueEnds(r) \/ ReadCode(r) \/ CodeWrong(r) \/ WriteBack(r)
  PROVE  /\ OnlyMoves(r) /\ \A k \in Counter : ~AboutToTime(r, k)
         /\ UNCHANGED <<count, timed, unwindowed>>
         /\ code' \in Stored /\ codes' \in Nat
<1>0. /\ code \in Stored /\ codes \in Nat /\ request \in [Request -> Asking]
      /\ NoCode \in Stored /\ Done \in Asking
  BY SignTypes
<1>1. UNCHANGED <<count, timed, unwindowed>>
  BY DEF Arrive, GuardFailsOpen, ReadCooldown, ReadSends, StoreCode, StoreCooldown, IssueEnds,
         ReadCode, CodeWrong, WriteBack
<1>2. \A k \in Counter : ~AboutToTime(r, k)
  BY DEF Arrive, GuardFailsOpen, ReadCooldown, ReadSends, StoreCode, StoreCooldown, IssueEnds,
         ReadCode, CodeWrong, WriteBack, Step, AboutToTime
<1>3. code' \in Stored /\ codes' \in Nat
  <2>1. CASE StoreCode(r)
    BY <1>0, <2>1 DEF StoreCode, Stored
  <2>2. CASE WriteBack(r)
    <3>1. request[r].saw \in Stored
      BY <1>0 DEF Asking
    <3> QED BY <1>0, <2>2, <3>1 DEF WriteBack, Stored
  <2>3. CASE ~StoreCode(r) /\ ~WriteBack(r)
    BY <1>0, <2>3
       DEF Arrive, GuardFailsOpen, ReadCooldown, ReadSends, StoreCooldown, IssueEnds, ReadCode,
           CodeWrong
  <2> QED BY <2>1, <2>2, <2>3
<1>4. OnlyMoves(r)
  <2>1. ASSUME NEW route \in Route, NEW typed \in 0..MaxCodes, Arrive(r, route, typed)
        PROVE  OnlyMoves(r)
    <3>1. typed \in Nat
      BY MaxCodesNat
    <3>2. [Done EXCEPT !.step = "guard", !.route = route, !.typed = typed] \in Asking
      BY <1>0, <3>1 DEF Asking, Done, SignStep
    <3> QED BY <1>0, <2>1, <3>2 DEF Arrive, OnlyMoves
  <2>2. CASE ReadCode(r)
    <3>1. ASSUME request' = [request EXCEPT ![r].step = "read", ![r].saw = code]
          PROVE  OnlyMoves(r)
      <4> DEFINE seen == [request[r] EXCEPT !.step = "read", !.saw = code]
      <4>1. seen \in Asking
        BY <1>0 DEF Asking, SignStep
      <4>2. request' = [request EXCEPT ![r] = seen]
        BY <3>1
      <4> QED BY <1>0, <4>1, <4>2 DEF OnlyMoves
    <3> QED BY <2>2, <3>1, EndsMoves DEF ReadCode
  <2>3. ASSUME \/ GuardFailsOpen(r) \/ ReadCooldown(r) \/ ReadSends(r) \/ StoreCode(r)
               \/ StoreCooldown(r) \/ IssueEnds(r) \/ CodeWrong(r) \/ WriteBack(r)
        PROVE  OnlyMoves(r)
    <3>1. Ends(r) \/ \E from, to \in SignStep : Step(r, from, to)
      BY <2>3 DEF GuardFailsOpen, ReadCooldown, ReadSends, StoreCode, StoreCooldown, IssueEnds,
                  CodeWrong, WriteBack, SignStep
    <3> QED BY <3>1, EndsMoves, StepMoves
  <2> QED BY <2>1, <2>2, <2>3
<1> QED BY <1>1, <1>2, <1>3, <1>4



(* An INCR: a counter that was gone is timed by whoever made it. *)
LEMMA CountingSteps ==
  ASSUME SignInvariant, NEW r \in Request, GuardCounts(r) \/ CountSend(r)
  PROVE  SignInvariant'
<1>0. /\ count \in [Counter -> Nat] /\ timed \in [Counter -> BOOLEAN]
      /\ code \in Stored /\ codes \in Nat /\ request \in [Request -> Asking]
      /\ WindowsOpenAgain
  BY SignTypes
<1> PICK k \in Counter : IF GuardCounts(r) THEN k = request[r].route ELSE k = "sends"
  BY <1>0 DEF Counter, Asking, Route
<1>1. count[k] \in Nat
  BY <1>0
<1>2. UNCHANGED <<timed, code, codes, unwindowed>>
  BY DEF GuardCounts, CountSend
<1>3. /\ \A c \in Counter : ~AboutToTime(r, c)
      /\ OnlyMoves(r) /\ count' \in [Counter -> Nat]
      /\ \A c \in Counter : c # k => count'[c] = count[c]
      /\ count'[k] > 0 /\ (count[k] = 0 => AboutToTime(r, k)')
  <2>1. CASE GuardCounts(r)
    <3> DEFINE n == count[k] + 1
    <3>1. /\ request[r].step = "guard" /\ k = request[r].route
          /\ count' = [count EXCEPT ![k] = IF n > RouteLimit THEN RouteLimit + 1 ELSE n]
          /\ \/ n = 1 /\ Step(r, "guard", "guardFirst")
             \/ n # 1 /\ (Ends(r) \/ Step(r, "guard", "in"))
      BY <2>1 DEF GuardCounts, FirstOfWindow
    <3>2. \A c \in Counter : ~AboutToTime(r, c)
      BY <3>1 DEF AboutToTime
    <3>3. /\ count' \in [Counter -> Nat] /\ \A c \in Counter : c # k => count'[c] = count[c]
          /\ count'[k] > 0
      BY <1>0, <1>1, <3>1, MaxCodesNat
    <3>4. OnlyMoves(r)
      BY <3>1, EndsMoves, StepMoves DEF SignStep
    <3>5. ASSUME count[k] = 0
          PROVE  AboutToTime(r, k)'
      <4>1. Step(r, "guard", "guardFirst") /\ "guardFirst" \in SignStep
        BY <1>1, <3>1, <3>5 DEF SignStep
      <4>2. request'[r].step = "guardFirst" /\ request'[r].route = request[r].route
        BY <4>1, StepMoves
      <4> QED BY <3>1, <4>2 DEF AboutToTime
    <3> QED BY <3>2, <3>3, <3>4, <3>5
  <2>2. CASE ~GuardCounts(r)
    <3> DEFINE to == IF FirstOfWindow(count'["sends"]) THEN "sendFirst" ELSE "counted"
    <3>1. /\ request[r].step = "cooled" /\ k = "sends"
          /\ count' = [count EXCEPT !["sends"] = @ + 1]
          /\ Step(r, "cooled", to)
      BY <2>2 DEF CountSend
    <3>2. \A c \in Counter : ~AboutToTime(r, c)
      BY <3>1 DEF AboutToTime
    <3>3. /\ count' \in [Counter -> Nat] /\ \A c \in Counter : c # k => count'[c] = count[c]
          /\ count'[k] > 0
      BY <1>0, <1>1, <3>1
    <3>4. OnlyMoves(r) /\ request'[r].step = to
      <4>1. to \in SignStep
        BY DEF SignStep
      <4> QED BY <3>1, <4>1, StepMoves
    <3>5. count[k] = 0 => to = "sendFirst"
      BY <1>0, <3>1 DEF FirstOfWindow
    <3> QED BY <3>1, <3>2, <3>3, <3>4, <3>5 DEF AboutToTime
  <2> QED BY <2>1, <2>2
<1>4. ASSUME NEW c \in Counter
      PROVE  count'[c] > 0 =>
                timed'[c] \/ c \in unwindowed' \/ \E q \in Request : AboutToTime(q, c)'
  <2>1. CASE c = k /\ count[k] = 0
    BY <1>3, <2>1
  <2>2. CASE c # k \/ count[k] # 0
    <3>1. count'[c] > 0 => count[c] > 0
      BY <1>1, <1>3, <2>2
    <3> QED BY <1>2, <1>3, <3>1, UntouchedStays
  <2> QED BY <2>1, <2>2
<1>5. ASSUME NEW c \in Counter, c \in unwindowed'
      PROVE  count'[c] > 0 /\ ~timed'[c]
  <2>1. count[c] > 0 /\ ~timed[c]
    BY <1>0, <1>2, <1>5 DEF WindowsOpenAgain
  <2> QED BY <1>2, <1>3, <2>1
<1> QED BY <1>0, <1>2, <1>3, <1>4, <1>5
        DEF SignInvariant, WindowsOpenAgain, AboutToTime, OnlyMoves

(* An EXPIRE that runs or never will, and the DEL of a matching code. *)
LEMMA WindowSteps ==
  ASSUME SignInvariant, NEW r \in Request,
         \/ GuardWindow(r) \/ GuardWindowLost(r) \/ SendWindow(r) \/ SendWindowLost(r)
         \/ CodeMatches(r)
  PROVE  SignInvariant'
<1>0. /\ count \in [Counter -> Nat] /\ timed \in [Counter -> BOOLEAN]
      /\ code \in Stored /\ codes \in Nat /\ request \in [Request -> Asking]
      /\ NoCode \in Stored
      /\ \A c \in Counter : c \in unwindowed => count[c] > 0 /\ ~timed[c]
  BY SignTypes DEF WindowsOpenAgain
<1> PICK k \in Counter :
       IF GuardWindow(r) \/ GuardWindowLost(r) THEN k = request[r].route ELSE k = "sends"
  BY <1>0 DEF Counter, Asking, Route
<1>2. OnlyMoves(r)
  BY EndsMoves, StepMoves
     DEF GuardWindow, GuardWindowLost, SendWindow, SendWindowLost, CodeMatches, SignStep
<1>3. \A c \in Counter : c # k => ~AboutToTime(r, c)
  BY DEF GuardWindow, GuardWindowLost, SendWindow, SendWindowLost, CodeMatches, Step, AboutToTime
<1>4. code' \in Stored /\ codes' \in Nat
  BY <1>0 DEF GuardWindow, GuardWindowLost, SendWindow, SendWindowLost, CodeMatches
<1>5. /\ count' \in [Counter -> Nat] /\ timed' \in [Counter -> BOOLEAN]
      /\ \A c \in Counter : c # k =>
            /\ count'[c] = count[c] /\ timed'[c] = timed[c]
            /\ c \in unwindowed => c \in unwindowed'
      /\ count'[k] > 0 => timed'[k] \/ k \in unwindowed'
      /\ \A c \in Counter : c \in unwindowed' => count'[c] > 0 /\ ~timed'[c]
  <2>1. CASE GuardWindow(r) \/ SendWindow(r)
    <3>1. count' = count /\ GivesWindow(k)
      BY <2>1 DEF GuardWindow, GuardWindowLost, SendWindow, Step
    <3>2. (count[k] > 0) \in BOOLEAN
      OBVIOUS
    <3> QED BY <1>0, <3>1, <3>2 DEF GivesWindow
  <2>2. CASE GuardWindowLost(r) \/ SendWindowLost(r)
    <3>1. count' = count /\ timed' = timed /\ WindowIsLost(k)
      BY <2>2 DEF GuardWindowLost, SendWindowLost, GuardWindow, SendWindow, Step
    <3> QED BY <1>0, <3>1 DEF WindowIsLost
  <2>3. CASE /\ CodeMatches(r)
             /\ ~GuardWindow(r) /\ ~GuardWindowLost(r)
    <3>1. /\ k = "sends" /\ count' = [count EXCEPT !["sends"] = 0]
          /\ timed' = [timed EXCEPT !["sends"] = FALSE]
          /\ unwindowed' = unwindowed \ {"sends"}
      BY <2>3 DEF CodeMatches
    <3> QED BY <1>0, <3>1
  <2> QED BY <2>1, <2>2, <2>3
<1>6. ASSUME NEW c \in Counter
      PROVE  count'[c] > 0 =>
                timed'[c] \/ c \in unwindowed' \/ \E q \in Request : AboutToTime(q, c)'
  <2>1. CASE c = k
    BY <1>5, <2>1
  <2>2. CASE c # k
    BY <1>2, <1>3, <1>5, <2>2, UntouchedStays
  <2> QED BY <2>1, <2>2
<1> QED BY <1>2, <1>4, <1>5, <1>6 DEF SignInvariant, WindowsOpenAgain, AboutToTime, OnlyMoves

(* Every step of sign-in; a window that closes forgets its counter. *)
LEMMA SignKeeps ==
  ASSUME SignInvariant, [SignNext]_signVars
  PROVE  SignInvariant'
<1>0. /\ count \in [Counter -> Nat] /\ timed \in [Counter -> BOOLEAN]
      /\ code \in Stored /\ codes \in Nat /\ request \in [Request -> Asking]
      /\ WindowsOpenAgain /\ NoCode \in Stored
  BY SignTypes
<1>1. ASSUME NEW r \in Request,
             \/ \E route \in Route, typed \in 0..MaxCodes : Arrive(r, route, typed)
             \/ GuardFailsOpen(r) \/ ReadCooldown(r) \/ ReadSends(r) \/ StoreCode(r)
             \/ StoreCooldown(r) \/ IssueEnds(r) \/ ReadCode(r) \/ CodeWrong(r) \/ WriteBack(r)
      PROVE  SignInvariant'
  <2>1. /\ OnlyMoves(r) /\ \A k \in Counter : ~AboutToTime(r, k)
        /\ UNCHANGED <<count, timed, unwindowed>>
        /\ code' \in Stored /\ codes' \in Nat
    BY <1>1, QuietSteps
  <2>2. \A k \in Counter : count'[k] > 0 =>
            timed'[k] \/ k \in unwindowed' \/ \E q \in Request : AboutToTime(q, k)'
    BY <2>1, UntouchedStays
  <2> QED BY <1>0, <2>1, <2>2 DEF SignInvariant, WindowsOpenAgain, AboutToTime, OnlyMoves
<1>2. ASSUME NEW k \in Counter, WindowCloses(k)
      PROVE  SignInvariant'
  <2>1. /\ count' \in [Counter -> Nat] /\ timed' \in [Counter -> BOOLEAN]
        /\ \A c \in Counter : c # k => count'[c] = count[c] /\ timed'[c] = timed[c]
        /\ count'[k] = 0 /\ timed[k]
    BY <1>0, <1>2 DEF WindowCloses
  <2>2. UNCHANGED <<code, codes, request, unwindowed>>
    BY <1>2 DEF WindowCloses
  <2>3. WindowsOpenAgain'
    BY <1>0, <2>1, <2>2 DEF WindowsOpenAgain
  <2> QED BY <1>0, <2>1, <2>2, <2>3 DEF SignInvariant
<1>3. CASE CooldownEnds \/ CodeExpires \/ UNCHANGED signVars
  <2>1. UNCHANGED <<count, timed, codes, request, unwindowed>> /\ code' \in Stored
    BY <1>0, <1>3 DEF CooldownEnds, CodeExpires, signVars
  <2>2. WindowsOpenAgain'
    BY <1>0, <2>1 DEF WindowsOpenAgain
  <2> QED BY <1>0, <2>1, <2>2 DEF SignInvariant
<1> QED BY <1>1, <1>2, <1>3, CountingSteps, WindowSteps DEF SignNext

(* The invariant of sign-in holds initially. *)
LEMMA SignStarts == Init => SignInvariant
<1> SUFFICES ASSUME Init PROVE SignInvariant
  OBVIOUS
<1>1. SignInit
  BY DEF Init
<1>2. NoCode \in Stored /\ Done \in Asking
  BY DEF NoCode, Done, Stored, Asking, SignStep, Route
<1> QED BY <1>1, <1>2 DEF SignInit, SignInvariant, WindowsOpenAgain

(* The invariant of sign-in holds of every behaviour. *)
THEOREM SignInvariantHolds == Spec => []SignInvariant
<1>1. SignInvariant /\ [Next]_vars => SignInvariant'
  BY PartSteps, SignKeeps
<1> QED BY <1>1, SignStarts, PTL DEF Spec

(* However the Redis commands of the requests interleave, a counter that   *)
(* exists is timed, about to be, or its EXPIRE was lost to a fault.        *)
THEOREM CountersAreForgotten == Spec => []WindowsOpenAgain
<1>1. SignInvariant => WindowsOpenAgain
  BY DEF SignInvariant
<1> QED BY <1>1, SignInvariantHolds, PTL

-----------------------------------------------------------------------------
(* The limits of sign-in.  A request that was told it may send has not     *)
(* counted yet: the send counter can pass MAX_SENDS_PER_HOUR, but by the   *)
(* requests under way only.  A guess is written back while it is not the   *)
(* last one.                                                               *)
ToCount == {"may", "stored", "cooled"}
Sending == {r \in Request : request[r].step \in ToCount}

Within(x) ==
    /\ x.saw \in Code /\ x.typed \in 0..MaxCodes
    /\ x.step = "wrong" => x.saw.attempts + 1 < MaxAttempts

SignLimits ==
    /\ \A k \in Route : count[k] <= RouteLimit + 1
    /\ count["sends"] + Cardinality(Sending) < MaxSends + Cardinality(Request)
    /\ code \in Code /\ codes \in 0..MaxCodes /\ cooling \in BOOLEAN
    /\ unwindowed \subseteq Counter
    /\ \A r \in Request : Within(request[r])

(* Sets of requests are finite. *)
LEMMA SendingIsFinite ==
  ASSUME NEW S \in SUBSET Request
  PROVE  /\ IsFiniteSet(S) /\ Cardinality(S) \in Nat /\ Cardinality(Request) \in Nat
         /\ Cardinality(S) <= Cardinality(Request)
         /\ \A T \in SUBSET S : Cardinality(T) <= Cardinality(S)
         /\ \A r \in S : Cardinality(S \ {r}) = Cardinality(S) - 1
<1>1. IsFiniteSet(Request)
  BY SignInAssumption
<1>2. IsFiniteSet(S) /\ Cardinality(S) <= Cardinality(Request)
  BY <1>1, FS_Subset
<1>3. Cardinality(S) \in Nat /\ Cardinality(Request) \in Nat
  BY <1>1, <1>2, FS_CardinalityType
<1>4. \A T \in SUBSET S : Cardinality(T) <= Cardinality(S)
  BY <1>2, FS_Subset
<1>5. \A r \in S : Cardinality(S \ {r}) = Cardinality(S) - 1
  BY <1>2, FS_RemoveElement
<1> QED BY <1>2, <1>3, <1>4, <1>5

(* The bounds are positive numbers. *)
LEMMA SignBounds ==
  /\ RouteLimit \in Nat \ {0} /\ MaxSends \in Nat \ {0}
  /\ MaxAttempts \in Nat \ {0} /\ MaxCodes \in Nat \ {0}
  BY SignInAssumption

(* One step of one request. *)
OneRequest(r) ==
    \/ \E route \in Route, typed \in 0..MaxCodes : Arrive(r, route, typed)
    \/ GuardCounts(r) \/ GuardFailsOpen(r) \/ GuardWindow(r) \/ GuardWindowLost(r)
    \/ ReadCooldown(r) \/ ReadSends(r) \/ StoreCode(r) \/ StoreCooldown(r)
    \/ CountSend(r) \/ SendWindow(r) \/ SendWindowLost(r) \/ IssueEnds(r)
    \/ ReadCode(r) \/ CodeMatches(r) \/ CodeWrong(r) \/ WriteBack(r)

(* A request stays within the limits, and is told that it may send by the  *)
(* read of the send counter only.                                          *)
LEMMA RequestsWithin ==
  ASSUME SignInvariant, SignLimits, NEW r \in Request, OneRequest(r)
  PROVE  /\ \A q \in Request : Within(request'[q])
         /\ \A q \in Request : q # r => request'[q] = request[q]
         /\ request'[r].step \in ToCount => request[r].step \in ToCount \/ ReadSends(r)
<1>0. request \in [Request -> Asking] /\ \A q \in Request : Within(request[q])
  BY SignTypes DEF SignLimits
<1>1. NoCode \in Code /\ 0 \in 0..MaxCodes
  BY SignBounds DEF NoCode, Code
<1>2. ASSUME Ends(r)
      PROVE  /\ Within(request'[r]) /\ \A q \in Request : q # r => request'[q] = request[q]
             /\ request'[r].step \notin ToCount
  BY <1>0, <1>1, <1>2 DEF Ends, Within, Done, ToCount
<1>3. ASSUME NEW from, NEW to, Step(r, from, to),
             to = "wrong" => request[r].saw.attempts + 1 < MaxAttempts
      PROVE  /\ Within(request'[r]) /\ \A q \in Request : q # r => request'[q] = request[q]
             /\ request'[r].step = to /\ request[r].step = from
  <2> DEFINE moved == [request[r] EXCEPT !.step = to]
  <2>1. request' = [request EXCEPT ![r] = moved] /\ request[r].step = from
    BY <1>3 DEF Step
  <2>2. moved.saw = request[r].saw /\ moved.typed = request[r].typed /\ moved.step = to
    BY <1>0 DEF Asking
  <2> HIDE DEF moved
  <2>3. request'[r] = moved /\ \A q \in Request : q # r => request'[q] = request[q]
    BY <1>0, <2>1
  <2> QED BY <1>0, <1>3, <2>1, <2>2, <2>3 DEF Within
<1>4. ASSUME NEW route \in Route, NEW typed \in 0..MaxCodes, Arrive(r, route, typed)
      PROVE  /\ Within(request'[r]) /\ \A q \in Request : q # r => request'[q] = request[q]
             /\ request'[r].step \notin ToCount
  <2> DEFINE new == [Done EXCEPT !.step = "guard", !.route = route, !.typed = typed]
  <2>1. new.saw = NoCode /\ new.typed = typed /\ new.step = "guard"
    BY DEF Done
  <2>2. request' = [request EXCEPT ![r] = new]
    BY <1>4 DEF Arrive
  <2> HIDE DEF new
  <2> QED BY <1>0, <1>1, <2>1, <2>2 DEF Within, ToCount
<1>5. CASE ReadCode(r) /\ ~Ends(r)
  <2> DEFINE seen == [request[r] EXCEPT !.step = "read", !.saw = code]
  <2>1. seen.saw = code /\ seen.typed = request[r].typed /\ seen.step = "read"
    BY <1>0 DEF Asking
  <2>2. request' = [request EXCEPT ![r] = seen]
    BY <1>5 DEF ReadCode
  <2>3. code \in Code
    BY DEF SignLimits
  <2> HIDE DEF seen
  <2> QED BY <1>0, <2>1, <2>2, <2>3 DEF Within, ToCount
<1>6. ASSUME \/ GuardCounts(r) \/ GuardFailsOpen(r) \/ GuardWindow(r) \/ GuardWindowLost(r)
             \/ ReadCooldown(r) \/ ReadSends(r) \/ StoreCode(r) \/ StoreCooldown(r)
             \/ CountSend(r) \/ SendWindow(r) \/ SendWindowLost(r) \/ IssueEnds(r)
             \/ CodeMatches(r) \/ CodeWrong(r) \/ WriteBack(r)
      PROVE  \/ Ends(r)
             \/ \E from, to \in SignStep :
                   /\ Step(r, from, to)
                   /\ to = "wrong" => request[r].saw.attempts + 1 < MaxAttempts
                   /\ to \in ToCount => from \in ToCount \/ ReadSends(r)
  <2>1. CASE CodeWrong(r)
    <3>1. request[r].saw.attempts \in Nat
      BY <1>0 DEF Asking, Stored
    <3> QED BY <2>1, <3>1, SignBounds DEF CodeWrong, SignStep, ToCount
  <2>2. CASE CountSend(r)
    <3>1. Step(r, "cooled", "sendFirst") \/ Step(r, "cooled", "counted")
      BY <2>2 DEF CountSend
    <3> QED BY <3>1 DEF SignStep, ToCount
  <2>3. CASE GuardCounts(r) \/ GuardFailsOpen(r) \/ GuardWindow(r) \/ GuardWindowLost(r)
    <3>1. Ends(r) \/ Step(r, "guard", "guardFirst") \/ Step(r, "guard", "in")
                  \/ Step(r, "guardFirst", "in")
      BY <2>3 DEF GuardCounts, GuardFailsOpen, GuardWindow, GuardWindowLost
    <3> QED BY <3>1 DEF SignStep, ToCount
  <2>4. CASE \/ ReadCooldown(r) \/ StoreCode(r) \/ StoreCooldown(r)
             \/ SendWindow(r) \/ SendWindowLost(r) \/ IssueEnds(r)
             \/ CodeMatches(r) \/ WriteBack(r)
    <3>1. Ends(r) \/ Step(r, "in", "cool") \/ Step(r, "may", "stored")
                  \/ Step(r, "stored", "cooled") \/ Step(r, "sendFirst", "counted")
      BY <2>4 DEF ReadCooldown, StoreCode, StoreCooldown, SendWindow, SendWindowLost, IssueEnds,
                  CodeMatches, WriteBack
    <3> QED BY <3>1 DEF SignStep, ToCount
  <2>5. CASE ReadSends(r)
    <3>1. Ends(r) \/ Step(r, "cool", "may")
      BY <2>5 DEF ReadSends
    <3> QED BY <2>5, <3>1 DEF SignStep, ToCount
  <2> QED BY <1>6, <2>1, <2>2, <2>3, <2>4, <2>5
<1>7. /\ Within(request'[r]) /\ \A q \in Request : q # r => request'[q] = request[q]
      /\ request'[r].step \in ToCount => request[r].step \in ToCount \/ ReadSends(r)
  <2>1. CASE Ends(r)
    BY <1>2, <2>1
  <2>2. CASE \E from, to \in SignStep :
                /\ Step(r, from, to)
                /\ to = "wrong" => request[r].saw.attempts + 1 < MaxAttempts
                /\ to \in ToCount => from \in ToCount \/ ReadSends(r)
    BY <1>3, <2>2
  <2>3. CASE \E route \in Route, typed \in 0..MaxCodes : Arrive(r, route, typed)
    BY <1>4, <2>3
  <2> QED BY <1>5, <1>6, <2>1, <2>2, <2>3 DEF OneRequest
<1> QED BY <1>0, <1>7

(* The send counter and those who have yet to count, step by step. *)
LEMMA SendsFit ==
  ASSUME SignInvariant, SignLimits, NEW r \in Request, OneRequest(r)
  PROVE  count'["sends"] + Cardinality(Sending') < MaxSends + Cardinality(Request)
<1>0. /\ count \in [Counter -> Nat] /\ request \in [Request -> Asking]
      /\ count["sends"] \in Nat /\ "sends" \in Counter
      /\ count["sends"] + Cardinality(Sending) < MaxSends + Cardinality(Request)
  BY SignTypes DEF SignLimits, Counter
<1>1. /\ Sending \in SUBSET Request /\ Sending' \in SUBSET Request
      /\ Cardinality(Sending) \in Nat /\ Cardinality(Sending') \in Nat
      /\ Cardinality(Request) \in Nat /\ Cardinality(Sending') <= Cardinality(Request)
  <2>1. Sending \in SUBSET Request /\ Sending' \in SUBSET Request
    BY DEF Sending
  <2> QED BY <2>1, SendingIsFinite
<1>2. CASE ReadSends(r)
  <2>1. CASE Ends(r)
    <3>1. Sending' \subseteq Sending
      BY <1>0, <2>1 DEF Ends, Sending, Done, ToCount
    <3>2. Cardinality(Sending') <= Cardinality(Sending) /\ count' = count
      BY <1>1, <1>2, <3>1, SendingIsFinite DEF ReadSends
    <3> QED BY <1>0, <1>1, <3>2, SignBounds
  <2>2. CASE ~Ends(r)
    <3>1. count["sends"] < MaxSends /\ count' = count
      BY <1>0, <1>2, <2>2, SignBounds DEF ReadSends
    <3> QED BY <1>0, <1>1, <3>1, SignBounds
  <2> QED BY <2>1, <2>2
<1>3. CASE ~ReadSends(r)
  <2>1. Sending' \subseteq Sending
    <3>1. /\ \A q \in Request : q # r => request'[q] = request[q]
          /\ request'[r].step \in ToCount => request[r].step \in ToCount
      BY <1>3, RequestsWithin
    <3> QED BY <3>1 DEF Sending
  <2>2. Cardinality(Sending') <= Cardinality(Sending)
    BY <1>1, <2>1, SendingIsFinite
  <2>3. CASE CountSend(r)
    <3>1. r \in Sending /\ r \notin Sending'
      <4>1. request[r].step = "cooled"
        BY <2>3 DEF CountSend
      <4>2. request'[r].step \in {"sendFirst", "counted"}
        BY <1>0, <2>3 DEF CountSend, Step, Asking
      <4> QED BY <4>1, <4>2 DEF Sending, ToCount
    <3>2. Sending' \in SUBSET (Sending \ {r}) /\ Sending \ {r} \in SUBSET Request
      BY <1>1, <2>1, <3>1
    <3>3. Cardinality(Sending') <= Cardinality(Sending \ {r})
      BY <3>2, SendingIsFinite
    <3>4. Cardinality(Sending \ {r}) = Cardinality(Sending) - 1
      BY <1>1, <3>1, SendingIsFinite
    <3>5. count'["sends"] = count["sends"] + 1
      BY <1>0, <2>3 DEF CountSend
    <3> QED BY <1>0, <1>1, <3>3, <3>4, <3>5, SignBounds
  <2>4. CASE ~CountSend(r)
    <3>1. count'["sends"] \in {count["sends"], 0}
      <4>1. CASE GuardCounts(r)
        <5>1. request[r].route \in Route
          BY <1>0 DEF Asking
        <5> QED BY <1>0, <4>1, <5>1 DEF GuardCounts, Route
      <4>2. CASE CodeMatches(r)
        BY <1>0, <4>2 DEF CodeMatches
      <4>3. CASE ~GuardCounts(r) /\ ~CodeMatches(r)
        BY <2>4, <4>3
           DEF OneRequest, Arrive, GuardFailsOpen, GuardWindow, GuardWindowLost, ReadCooldown,
               ReadSends, StoreCode, StoreCooldown, SendWindow, SendWindowLost, IssueEnds,
               ReadCode, CodeWrong, WriteBack
      <4> QED BY <4>1, <4>2, <4>3
    <3> QED BY <1>0, <1>1, <2>2, <3>1, SignBounds
  <2> QED BY <2>3, <2>4
<1> QED BY <1>2, <1>3

(* The rest of the limits, step by step. *)
LEMMA LimitsKept ==
  ASSUME SignInvariant, SignLimits, NEW r \in Request, OneRequest(r)
  PROVE  SignLimits'
<1>0. /\ count \in [Counter -> Nat] /\ request \in [Request -> Asking]
      /\ code \in Code /\ codes \in 0..MaxCodes /\ cooling \in BOOLEAN
      /\ unwindowed \subseteq Counter /\ Within(request[r])
      /\ \A k \in Route : count[k] <= RouteLimit + 1
      /\ request[r].route \in Route /\ Route \subseteq Counter /\ "sends" \in Counter
      /\ "sends" \notin Route
  BY SignTypes DEF SignLimits, Asking, Counter, Route
<1>1. NoCode \in Code
  BY SignBounds DEF NoCode, Code
<1>2. \A k \in Route : count'[k] <= RouteLimit + 1
  <2>1. CASE GuardCounts(r)
    <3> DEFINE n == count[request[r].route] + 1
    <3>1. count' = [count EXCEPT ![request[r].route] = IF n > RouteLimit THEN RouteLimit + 1 ELSE n]
      BY <2>1 DEF GuardCounts
    <3>2. n \in Nat
      BY <1>0
    <3> HIDE DEF n
    <3> QED BY <1>0, <3>1, <3>2, SignBounds
  <2>2. CASE CodeMatches(r) \/ CountSend(r)
    <3>1. \A k \in Route : count'[k] = count[k]
      BY <1>0, <2>2 DEF CodeMatches, CountSend
    <3> QED BY <1>0, <3>1
  <2>3. CASE ~GuardCounts(r) /\ ~CodeMatches(r) /\ ~CountSend(r)
    <3>1. count' = count
      BY <2>3 DEF OneRequest, Arrive, GuardFailsOpen, GuardWindow, GuardWindowLost, ReadCooldown,
                  ReadSends, StoreCode, StoreCooldown, SendWindow, SendWindowLost, IssueEnds,
                  ReadCode, CodeWrong, WriteBack
    <3> QED BY <1>0, <3>1
  <2> QED BY <2>1, <2>2, <2>3
<1>3. code' \in Code /\ codes' \in 0..MaxCodes
  <2>1. CASE StoreCode(r)
    <3>1. codes' = codes + 1 /\ codes < MaxCodes /\ code' = [no |-> codes', attempts |-> 0]
      BY <2>1 DEF StoreCode
    <3>2. codes' \in 0..MaxCodes /\ 0 \in 0..MaxAttempts
      BY <1>0, <3>1, SignBounds
    <3> QED BY <3>1, <3>2 DEF Code
  <2>2. CASE WriteBack(r)
    <3>1. PICK saw \in Code : saw = request[r].saw
      BY <1>0 DEF Within
    <3>2. saw.attempts \in 0..MaxAttempts /\ saw.attempts + 1 < MaxAttempts
      BY <1>0, <2>2, <3>1 DEF Within, WriteBack, Code
    <3>3. saw.attempts + 1 \in 0..MaxAttempts
      BY <3>2, SignBounds
    <3>4. code' = [saw EXCEPT !.attempts = saw.attempts + 1] /\ codes' = codes
      BY <2>2, <3>1 DEF WriteBack
    <3> QED BY <1>0, <3>1, <3>3, <3>4 DEF Code
  <2>3. CASE ~StoreCode(r) /\ ~WriteBack(r)
    BY <1>0, <1>1, <2>3
       DEF OneRequest, Arrive, GuardCounts, GuardFailsOpen, GuardWindow, GuardWindowLost,
           ReadCooldown, ReadSends, StoreCooldown, CountSend, SendWindow, SendWindowLost,
           IssueEnds, ReadCode, CodeMatches, CodeWrong
  <2> QED BY <2>1, <2>2, <2>3
<1>4. cooling' \in BOOLEAN /\ unwindowed' \subseteq Counter
  BY <1>0
     DEF OneRequest, Arrive, GuardCounts, GuardFailsOpen, GuardWindow, GuardWindowLost,
         ReadCooldown, ReadSends, StoreCode, StoreCooldown, CountSend, SendWindow,
         SendWindowLost, IssueEnds, ReadCode, CodeMatches, CodeWrong, WriteBack, GivesWindow,
         WindowIsLost
<1>5. \A q \in Request : Within(request'[q])
  BY RequestsWithin
<1>6. count'["sends"] + Cardinality(Sending') < MaxSends + Cardinality(Request)
  BY SendsFit
<1> QED BY <1>2, <1>3, <1>4, <1>5, <1>6 DEF SignLimits, Within

(* Every step of sign-in stays within the limits. *)
LEMMA LimitsStep ==
  ASSUME SignInvariant, SignLimits, [SignNext]_signVars
  PROVE  SignLimits'
<1>0. /\ count \in [Counter -> Nat] /\ code \in Code /\ cooling \in BOOLEAN
      /\ \A k \in Route : count[k] <= RouteLimit + 1
      /\ Route \subseteq Counter /\ "sends" \in Counter
      /\ count["sends"] + Cardinality(Sending) < MaxSends + Cardinality(Request)
  BY SignTypes DEF SignLimits, Counter
<1>1. Cardinality(Sending) \in Nat /\ Cardinality(Request) \in Nat
  <2>1. Sending \in SUBSET Request
    BY DEF Sending
  <2> QED BY <2>1, SendingIsFinite
<1>2. ASSUME NEW r \in Request, OneRequest(r)
      PROVE  SignLimits'
  BY <1>2, LimitsKept
<1>3. CASE \/ \E k \in Counter : WindowCloses(k)
           \/ CooldownEnds \/ CodeExpires \/ UNCHANGED signVars
  <2>1. /\ UNCHANGED <<codes, request, unwindowed>> /\ cooling' \in BOOLEAN
        /\ code' \in {code, NoCode}
        /\ \A k \in Counter : count'[k] \in {count[k], 0}
    <3>1. ASSUME NEW k \in Counter, WindowCloses(k)
          PROVE  /\ UNCHANGED <<codes, request, unwindowed, code, cooling>>
                 /\ \A c \in Counter : count'[c] \in {count[c], 0}
      BY <1>0, <3>1 DEF WindowCloses
    <3>2. CASE CooldownEnds \/ CodeExpires \/ UNCHANGED signVars
      BY <1>0, <3>2 DEF CooldownEnds, CodeExpires, signVars
    <3> QED BY <1>0, <1>3, <3>1, <3>2
  <2>2. Sending' = Sending
    BY <2>1 DEF Sending
  <2>3. count'["sends"] + Cardinality(Sending') < MaxSends + Cardinality(Request)
    <3>1. count["sends"] \in Nat /\ count'["sends"] \in {count["sends"], 0}
      BY <1>0, <2>1
    <3> QED BY <1>0, <1>1, <2>2, <3>1, SignBounds
  <2>4. \A k \in Route : count'[k] <= RouteLimit + 1
    <3>1. ASSUME NEW k \in Route
          PROVE  count'[k] <= RouteLimit + 1
      <4>1. count'[k] \in {count[k], 0} /\ count[k] <= RouteLimit + 1
        BY <1>0, <2>1
      <4> QED BY <4>1, SignBounds
    <3> QED BY <3>1
  <2>5. code' \in Code
    BY <1>0, <2>1, SignBounds DEF NoCode, Code
  <2> QED BY <2>1, <2>3, <2>4, <2>5 DEF SignLimits, Within
<1> QED BY <1>2, <1>3 DEF SignNext, OneRequest

(* The limits hold initially. *)
LEMMA LimitsStart == Init => SignLimits
<1> SUFFICES ASSUME Init PROVE SignLimits
  OBVIOUS
<1>1. SignInit
  BY DEF Init
<1>2. NoCode \in Code /\ 0 \in 0..MaxCodes
  BY SignBounds DEF NoCode, Code
<1>3. Sending = {}
  BY <1>1 DEF SignInit, Sending, Done, ToCount
<1>4. Cardinality(Sending) = 0 /\ Cardinality(Request) \in Nat
  BY <1>3, FS_EmptySet, SendingIsFinite
<1>5. /\ count["sends"] = 0 /\ \A k \in Route : count[k] = 0
  BY <1>1 DEF SignInit, Counter
<1>6. \A r \in Request : Within(request[r])
  BY <1>1, <1>2 DEF SignInit, Within, Done
<1>7. count["sends"] + Cardinality(Sending) < MaxSends + Cardinality(Request)
  BY <1>4, <1>5, SignBounds
<1>8. \A k \in Route : count[k] <= RouteLimit + 1
  BY <1>5, SignBounds
<1> QED BY <1>1, <1>2, <1>6, <1>7, <1>8 DEF SignInit, SignLimits

(* However many requests read the send counter before any of them counts:  *)
(* it passes MAX_SENDS_PER_HOUR by less than the requests under way; and   *)
(* no code is written back with its last guess used up.                    *)
THEOREM SignLimitsHold == Spec => []SignLimits
<1>1. SignInvariant /\ SignLimits /\ [Next]_vars => SignLimits'
  BY PartSteps, LimitsStep
<1> QED BY <1>1, LimitsStart, SignInvariantHolds, PTL DEF Spec

(* The types of sign-in are what its invariant and its limits say. *)
LEMMA SignTyped ==
  ASSUME SignInvariant, SignLimits
  PROVE  SignTypeOK
<1>0. /\ count \in [Counter -> Nat] /\ timed \in [Counter -> BOOLEAN]
      /\ request \in [Request -> Asking]
  BY SignTypes
<1>1. Cardinality(Sending) \in Nat /\ Cardinality(Request) \in Nat
  <2>1. Sending \in SUBSET Request
    BY DEF Sending
  <2> QED BY <2>1, SendingIsFinite
<1>2. \A k \in Counter : count[k] \in 0..(RouteLimit + MaxSends + Cardinality(Request))
  <2>1. ASSUME NEW k \in Route
        PROVE  count[k] \in 0..(RouteLimit + MaxSends + Cardinality(Request))
    <3>1. count[k] \in Nat /\ count[k] <= RouteLimit + 1
      BY <1>0 DEF SignLimits, Counter
    <3> QED BY <1>1, <3>1, SignBounds
  <2>2. count["sends"] \in 0..(RouteLimit + MaxSends + Cardinality(Request))
    <3>1. /\ count["sends"] \in Nat
          /\ count["sends"] + Cardinality(Sending) < MaxSends + Cardinality(Request)
      BY <1>0 DEF SignLimits, Counter
    <3> QED BY <1>1, <3>1, SignBounds
  <2> QED BY <2>1, <2>2 DEF Counter
<1>3. count \in [Counter -> 0..(RouteLimit + MaxSends + Cardinality(Request))]
  BY <1>0, <1>2
<1>4. request \in [Request -> [step : SignStep, route : Route, saw : Code, typed : 0..MaxCodes]]
  <2>1. ASSUME NEW r \in Request
        PROVE  request[r] \in [step : SignStep, route : Route, saw : Code, typed : 0..MaxCodes]
    BY <1>0 DEF Asking, SignLimits, Within
  <2> QED BY <1>0, <2>1
<1> QED BY <1>0, <1>3, <1>4 DEF SignLimits, SignTypeOK

-----------------------------------------------------------------------------
(* The site's session.  Whatever a redirect is for, the cookie and the     *)
(* actor say where it can lead: home, which the middleware grants to that  *)
(* actor, or to the sign-in form without a cookie, where it ends.          *)
NeverRevived ==
    /\ cookie = "live" => asked.cookie = "live"
    /\ cookie = "garbled" => asked.cookie = "garbled"

HopsLead ==
    /\ hops = 0 => path = asked.path
    /\ hops = 1 => path = HomePath \/ (path = "/login" /\ cookie = "none")
    /\ hops = 2 => path = "/login" /\ cookie = "none"
    /\ hops <= 2

SignedOutStays == asked.cookie # "live" => path \in {asked.path, "/login"}

(* A page that fetches was let through for a session of the right role.    *)
PageAdmitted ==
    phase = "page" =>
       /\ path \in {"/bookings", "/admin", "/host"} => asked.cookie = "live"
       /\ path = "/admin" => actor = "ADMIN"
       /\ path = "/host" => actor \in {"ADMIN", "HOST"}

WebInvariant ==
    WebTypeOK /\ NeverRevived /\ HopsLead /\ SignedOutStays /\ PageAdmitted /\ AdmittedIsNotRefused

(* Home is where the actor may be. *)
LEMMA HomeIs ==
  ASSUME actor \in Actor
  PROVE  /\ actor = "ADMIN" => HomePath = "/admin"
         /\ actor = "HOST" => HomePath = "/host"
         /\ actor = "GUEST" => HomePath = "/discover"
         /\ HomePath \in Path
  BY DEF HomePath, Actor, Path, Matched

(* What the middleware answers, with a session and without one. *)
LEMMA DestinationIs ==
  ASSUME WebTypeOK
  PROVE  /\ Destination \in Path
         /\ ~HasClaims => Destination \in {path, "/login"}
         /\ HasClaims => Destination \in {path, HomePath}
         /\ HasClaims /\ path = HomePath => Destination = path
         /\ path = "/login" /\ ~HasClaims => Destination = path
         /\ Destination = path /\ path \in {"/bookings", "/admin", "/host"} => HasClaims
         /\ Destination = path /\ path = "/admin" => actor = "ADMIN"
         /\ Destination = path /\ path = "/host" => actor \in {"ADMIN", "HOST"}
<1>1. path \in Path /\ actor \in Actor
  BY DEF WebTypeOK
<1>2. /\ actor = "ADMIN" => HomePath = "/admin"
      /\ actor = "HOST" => HomePath = "/host"
      /\ actor = "GUEST" => HomePath = "/discover"
      /\ HomePath \in Path
  BY <1>1, HomeIs
<1>3. "/login" \in Path
  BY DEF Path, Matched
<1> QED BY <1>1, <1>2, <1>3 DEF Destination, Actor, Path, Matched

(* A reader who acts anew. *)
LEMMA ReaderActs ==
  ASSUME WebInvariant, \/ \E p \in Path : Visit(p)
                       \/ \E u \in Account : SignsIn(u)
                       \/ Registers \/ SignsOut
  PROVE  WebInvariant'
<1>0. WebTypeOK
  BY DEF WebInvariant
<1>1. ASSUME NEW p \in Path, Arriving(p)
      PROVE  /\ path' = p /\ phase' \in {"middleware", "page"}
             /\ phase' = "page" => p \notin {"/bookings", "/admin", "/host"}
  BY <1>1 DEF Arriving, Matched
<1>2. ASSUME NEW p \in Path, Visit(p)
      PROVE  WebInvariant'
  <2>1. /\ path' = p /\ phase' \in {"middleware", "page"}
        /\ phase' = "page" => p \notin {"/bookings", "/admin", "/host"}
    BY <1>1, <1>2 DEF Visit
  <2>2. /\ hops' = 0 /\ asked' = [path |-> p, cookie |-> cookie]
        /\ UNCHANGED <<cookie, actor, outcome>>
    BY <1>2 DEF Visit
  <2>3. WebTypeOK'
    BY <1>0, <2>1, <2>2 DEF WebTypeOK, MaxHops
  <2> QED BY <2>1, <2>2, <2>3
          DEF WebInvariant, NeverRevived, HopsLead, SignedOutStays, PageAdmitted, AdmittedIsNotRefused
<1>3. ASSUME NEW u \in Account, SessionFor(u)
      PROVE  WebInvariant'
  <2>1. actor' \in Actor /\ cookie' = "live"
    BY <1>3 DEF SessionFor, ClaimsOf, Actor
  <2>2. Arriving(HomePath') /\ HomePath' \in Path
    <3>1. PICK a \in Actor : a = actor'
      BY <2>1
    <3>2. HomePath' = CASE a = "ADMIN" -> "/admin" [] a = "HOST" -> "/host" [] OTHER -> "/discover"
      BY <3>1 DEF HomePath
    <3> QED BY <1>3, <3>1, <3>2 DEF SessionFor, Actor, Path, Matched
  <2>3. /\ path' = HomePath' /\ phase' \in {"middleware", "page"}
        /\ phase' = "page" => path' \notin {"/bookings", "/admin", "/host"}
    BY <1>1, <2>2
  <2>4. hops' = 1 /\ asked' = [path |-> path', cookie |-> "live"] /\ UNCHANGED outcome
    BY <1>3 DEF SessionFor
  <2>5. WebTypeOK'
    BY <1>0, <2>1, <2>2, <2>3, <2>4 DEF WebTypeOK, MaxHops, Cookie
  <2> QED BY <2>1, <2>3, <2>4, <2>5
          DEF WebInvariant, NeverRevived, HopsLead, SignedOutStays, PageAdmitted, AdmittedIsNotRefused
<1>4. CASE SignsOut
  <2>1. "/login" \in Path
    BY DEF Path, Matched
  <2>2. /\ path' = "/login" /\ phase' \in {"middleware", "page"}
    BY <1>1, <1>4, <2>1 DEF SignsOut
  <2>3. /\ cookie' = "none" /\ hops' = 1
        /\ asked' = [path |-> "/login", cookie |-> "none"] /\ UNCHANGED <<actor, outcome>>
    BY <1>4 DEF SignsOut
  <2>4. WebTypeOK'
    BY <1>0, <2>1, <2>2, <2>3 DEF WebTypeOK, MaxHops, Cookie
  <2> QED BY <2>2, <2>3, <2>4
          DEF WebInvariant, NeverRevived, HopsLead, SignedOutStays, PageAdmitted, AdmittedIsNotRefused
<1>5. NewAccount \in Account
  BY DEF NewAccount, Account
<1> QED BY <1>2, <1>3, <1>4, <1>5 DEF SignsIn, Registers

(* The site answers: the middleware, then the page.                        *)
LEMMA SiteAnswers ==
  ASSUME WebInvariant, Middleware \/ PageRenders
  PROVE  WebInvariant'
<1>0. /\ WebTypeOK /\ NeverRevived /\ HopsLead /\ SignedOutStays /\ PageAdmitted
      /\ path \in Path /\ actor \in Actor /\ cookie \in Cookie /\ hops \in {0, 1, 2}
  BY DEF WebInvariant, WebTypeOK, HopsLead, MaxHops
<1>1. ASSUME NEW p \in Path, Redirect(p)
      PROVE  /\ path' = p /\ phase' \in {"middleware", "page"} /\ hops' = hops + 1
             /\ phase' = "page" => p \notin {"/bookings", "/admin", "/host"}
  BY <1>1 DEF Redirect, Arriving, Matched
<1>2. CASE Middleware
  <2>1. /\ cookie' = IF HasClaims THEN cookie ELSE "none"
        /\ UNCHANGED <<actor, outcome, asked>> /\ phase = "middleware"
    BY <1>2 DEF Middleware
  <2>2. HomePath' = HomePath
    BY <2>1 DEF HomePath
  <2>3. CASE Destination = path
    <3>1. phase' = "page" /\ UNCHANGED <<path, hops>>
      BY <1>2, <2>3 DEF Middleware
    <3>2. WebTypeOK'
      BY <1>0, <2>1, <3>1 DEF WebTypeOK, Cookie
    <3>3. PageAdmitted'
      BY <1>0, <2>1, <2>3, <3>1, DestinationIs DEF PageAdmitted, NeverRevived, HasClaims
    <3>4. (NeverRevived /\ HopsLead /\ SignedOutStays /\ AdmittedIsNotRefused)'
      BY <1>0, <2>1, <2>2, <3>1
         DEF NeverRevived, HopsLead, SignedOutStays, AdmittedIsNotRefused, HasClaims
    <3> QED BY <3>2, <3>3, <3>4 DEF WebInvariant
  <2>4. CASE Destination # path
    <3>1. Destination \in Path /\ Redirect(Destination)
      BY <1>0, <1>2, <2>4, DestinationIs DEF Middleware
    <3> PICK p \in Path : p = Destination
      BY <3>1
    <3>2. /\ path' = p /\ phase' \in {"middleware", "page"} /\ hops' = hops + 1
          /\ phase' = "page" => p \notin {"/bookings", "/admin", "/host"}
      BY <1>1, <3>1
    <3>3. HasClaims \/ p = "/login"
      BY <1>0, <2>4, DestinationIs
    <3>4. HasClaims => p = HomePath /\ path # HomePath
      BY <1>0, <2>4, DestinationIs
    <3>5. ~HasClaims => path # "/login" /\ p = "/login" /\ cookie' = "none"
      BY <1>0, <2>1, <2>4, DestinationIs
    <3>6. hops = 0 \/ (hops = 1 /\ ~HasClaims)
      <4>1. hops # 2
        BY <1>0, <3>4, <3>5 DEF HopsLead, HasClaims
      <4>2. hops = 1 => ~HasClaims
        BY <1>0, <3>4 DEF HopsLead, HasClaims
      <4> QED BY <1>0, <4>1, <4>2
    <3>7. WebTypeOK'
      BY <1>0, <2>1, <3>2, <3>6 DEF WebTypeOK, Cookie, MaxHops
    <3>8. HopsLead'
      BY <2>2, <3>2, <3>4, <3>5, <3>6 DEF HopsLead
    <3>9. (NeverRevived /\ SignedOutStays /\ PageAdmitted /\ AdmittedIsNotRefused)'
      BY <1>0, <2>1, <3>2, <3>5
         DEF NeverRevived, SignedOutStays, PageAdmitted, AdmittedIsNotRefused, HasClaims
    <3> QED BY <3>7, <3>8, <3>9 DEF WebInvariant
  <2> QED BY <2>3, <2>4
<1>3. CASE PageRenders
  <2>1. UNCHANGED <<cookie, actor, asked>> /\ phase = "page"
    BY <1>3 DEF PageRenders
  <2>2. HomePath' = HomePath
    BY <2>1 DEF HomePath
  <2>3. CASE path = "/bookings" /\ cookie \in {"none", "garbled"}
    <3>1. "/login" \in Path /\ "/login" \in Matched
      BY DEF Path, Matched
    <3>2. path' = "/login" /\ phase' = "middleware" /\ hops' = hops + 1 /\ UNCHANGED outcome
      BY <1>3, <2>3, <3>1 DEF PageRenders, Redirect, Arriving
    <3>3. hops = 0 /\ asked.cookie = "live"
      BY <1>0, <2>1, <2>3, HomeIs DEF HopsLead, PageAdmitted, Actor
    <3>4. cookie = "none"
      BY <1>0, <2>3, <3>3 DEF NeverRevived
    <3>5. WebTypeOK'
      BY <1>0, <2>1, <3>1, <3>2, <3>3 DEF WebTypeOK, MaxHops
    <3> QED BY <1>0, <2>1, <3>2, <3>3, <3>4, <3>5
            DEF WebInvariant, NeverRevived, HopsLead, SignedOutStays, PageAdmitted,
                AdmittedIsNotRefused
  <2>4. CASE ~(path = "/bookings" /\ cookie \in {"none", "garbled"})
    <3>1. /\ phase' = "settled" /\ UNCHANGED <<path, hops>>
          /\ outcome' \in {"page", "refused", "failed"}
          /\ outcome' = "refused" => FetchRefused
      BY <1>3, <2>4 DEF PageRenders, PageOutcome
    <3>2. FetchRefused => asked.cookie = "live" /\ cookie # "live"
      BY <1>0, <2>1 DEF FetchRefused, TokenAccepted, RoleAccepted, RequiredRole, PageAdmitted
    <3>3. WebTypeOK'
      BY <1>0, <2>1, <3>1 DEF WebTypeOK
    <3> QED BY <1>0, <2>1, <2>2, <3>1, <3>2, <3>3
            DEF WebInvariant, NeverRevived, HopsLead, SignedOutStays, PageAdmitted,
                AdmittedIsNotRefused
  <2> QED BY <2>3, <2>4
<1> QED BY <1>2, <1>3

(* The cookie only loses its worth, whenever it does. *)
LEMMA CookieEnds ==
  ASSUME WebInvariant, TokenExpires \/ CookieExpires \/ UNCHANGED webVars
  PROVE  WebInvariant'
<1>1. /\ UNCHANGED <<actor, path, phase, hops, outcome, asked>>
      /\ cookie' \in {cookie, "none"} \/ (cookie = "live" /\ cookie' = "expired")
  <2>1. CASE TokenExpires
    BY <2>1 DEF TokenExpires
  <2>2. CASE CookieExpires
    BY <2>2 DEF CookieExpires
  <2>3. CASE UNCHANGED webVars
    BY <2>3 DEF webVars
  <2> QED BY <2>1, <2>2, <2>3
<1>2. HomePath' = HomePath
  BY <1>1 DEF HomePath
<1>3. WebTypeOK'
  BY <1>1 DEF WebInvariant, WebTypeOK, Cookie
<1> QED BY <1>1, <1>2, <1>3
        DEF WebInvariant, NeverRevived, HopsLead, SignedOutStays, PageAdmitted, AdmittedIsNotRefused

(* Every step of the session. *)
LEMMA WebKeeps ==
  ASSUME WebInvariant, [WebNext]_webVars
  PROVE  WebInvariant'
  BY ReaderActs, SiteAnswers, CookieEnds DEF WebNext

(* The invariant of the session holds initially, whatever the cookie. *)
LEMMA WebStarts == Init => WebInvariant
<1> SUFFICES ASSUME Init PROVE WebInvariant
  OBVIOUS
<1>1. WebInit
  BY DEF Init
<1>2. WebTypeOK
  BY <1>1 DEF WebInit, WebTypeOK, Path, MaxHops
<1> QED BY <1>1, <1>2
        DEF WebInit, WebInvariant, NeverRevived, HopsLead, SignedOutStays, PageAdmitted,
            AdmittedIsNotRefused

(* The invariant of the session holds of every behaviour. *)
THEOREM WebInvariantHolds == Spec => []WebInvariant
<1>1. WebInvariant /\ [Next]_vars => WebInvariant'
  BY PartSteps, WebKeeps
<1> QED BY <1>1, WebStarts, PTL DEF Spec

(* At most two redirects follow what a reader does, wherever the token     *)
(* expires, and who comes with a dead session is not bounced about.        *)
THEOREM RedirectsAlwaysSettle == Spec => []RedirectsSettle
<1>1. WebInvariant => RedirectsSettle
  BY DEF WebInvariant, HopsLead, SignedOutStays, RedirectsSettle
<1> QED BY <1>1, WebInvariantHolds, PTL

(* The middleware and the API agree on every role: a refusal behind the    *)
(* middleware means that the token ended on the way.                       *)
THEOREM AdmittedAreNotRefused == Spec => []AdmittedIsNotRefused
<1>1. WebInvariant => AdmittedIsNotRefused
  BY DEF WebInvariant
<1> QED BY <1>1, WebInvariantHolds, PTL

-----------------------------------------------------------------------------
(* The consoles: their invariant, whose steps ConsolesProofs takes.        *)
THEOREM ConsoleInvariantHolds == Spec => []ConsoleInvariant
<1>1. Init => ConsoleInvariant
  BY ConsoleStarts DEF Init
<1>2. ConsoleInvariant /\ [Next]_vars => ConsoleInvariant'
  BY PartSteps, ConsoleStep
<1> QED BY <1>1, <1>2, PTL DEF Spec

(* However old the page and whichever answers get lost: what a reader is   *)
(* told was done is done, a refund that was announced is of a payment that *)
(* was made, the money of a booking is set going once, and only a host or  *)
(* an administrator records arrivals and releases payouts.                 *)
THEOREM ConsolesAlwaysKeepTheirWord == Spec => []ConsolesKeepTheirWord
<1>1. ConsoleInvariant => ConsolesKeepTheirWord
  BY ConsolesPromise
<1> QED BY <1>1, ConsoleInvariantHolds, PTL

(* What a step leaves of the rows the consoles write. *)
KeepsTheCourse ==
    /\ \A b \in Booking : GoesOn(status[b], status'[b])
    /\ paid \subseteq paid'
    /\ \A r \in Row : jobs[r] > 0 => jobs'[r] > 0

NoWayBack == [][KeepsTheCourse]_consoleVars

(* However old the pages pressed on, and whatever captures, expiries and   *)
(* workers do meanwhile, no booking goes back: it moves from its payment   *)
(* over the stay to its end, and what was paid or queued stays so.         *)
THEOREM RowsNeverGoBack == Spec => NoWayBack
<1>1. ConsoleInvariant /\ [Next]_vars => [KeepsTheCourse]_consoleVars
  <2> SUFFICES ASSUME ConsoleInvariant, [Next]_vars PROVE [KeepsTheCourse]_consoleVars
    OBVIOUS
  <2>1. [ConsoleNext]_consoleVars
    BY PartSteps
  <2> QED BY <2>1, ConsoleGoesOn DEF AllGoOn, RowsGoOn, KeepsTheCourse
<1> QED BY <1>1, ConsoleInvariantHolds, PTL DEF Spec, NoWayBack

-----------------------------------------------------------------------------
(* The part a behaviour exercises never changes. *)
OnePart == part \in Part

(* So it remains one of the six. *)
LEMMA PartStays == Spec => []OnePart
<1>1. Init => OnePart
  BY DEF Init, OnePart
<1>2. OnePart /\ [Next]_vars => OnePart'
  BY DEF Next, vars, OnePart
<1> QED BY <1>1, <1>2, PTL DEF Spec

(* All six parts stay within their types, for any views, holds, requests,  *)
(* limits, photos, editors, rows and accounts.                             *)
THEOREM GuestAppTypes == Spec => []TypeOK
<1>1. /\ OnePart /\ MapInvariant /\ CheckoutInvariant /\ SignInvariant /\ SignLimits
      /\ WebInvariant /\ PhotosInvariant /\ ConsoleInvariant
      => TypeOK
  BY SignTyped DEF OnePart, MapInvariant, CheckoutInvariant, WebInvariant, PhotosInvariant,
     ConsoleInvariant, TypeOK
<1> QED BY <1>1, PartStays, MapInvariantHolds, CheckoutInvariantHolds, SignInvariantHolds,
           SignLimitsHold, WebInvariantHolds, PhotosInvariantHolds, ConsoleInvariantHolds, PTL
===============================================================================
