------------------------------- MODULE MapScreen -------------------------------
(***************************************************************************)
(* The map of both clients: the camera moves, a debounced search asks for  *)
(* the area, and answers of several searches are on the wire at once.  The *)
(* phone fetches a margin around the viewport and skips a search the       *)
(* margin covers; the site searches again after every change.              *)
(***************************************************************************)
EXTENDS Naturals, FiniteSets

CONSTANTS
    View,         \* camera positions
    Home,         \* kDefaultBounds / DEFAULT_BOUNDS
    Wide,         \* the ones whose span exceeds the server's cap
    Margin,       \* Margin[v]: the views inside the box fetched for v
    Query,        \* booking type, dates, guests and price range
    NoView,
    MaxSearches   \* bound on the requests of a behaviour

ASSUME MapAssumption ==
    /\ Home \in View \ Wide /\ Query # {}
    /\ Wide \subseteq View
    /\ Margin \in [View -> SUBSET View]
    /\ NoView \notin View
    /\ MaxSearches \in Nat \ {0}

VARIABLES
    mapClient,  \* "app" or "site"
    view,       \* the bounds on screen
    query,
    timer,      \* the view the pending debounce will search, or NoView
    flying,     \* the requests whose answer will be heeded
    searches,   \* how many were sent
    shown,      \* the request the pins on screen answered
    fetched,    \* phone: the view _fetchedBounds was computed from
    spinner,
    mapError

mapVars == <<mapClient, view, query, timer, flying, searches, shown, fetched, spinner, mapError>>

MapRequest == [no : 0..MaxSearches, view : View \cup {NoView}, query : Query]

MapTypeOK ==
    /\ mapClient \in {"app", "site"}
    /\ view \in View /\ query \in Query
    /\ timer \in View \cup {NoView} /\ fetched \in View \cup {NoView}
    /\ flying \subseteq MapRequest /\ shown \in MapRequest
    /\ searches \in 0..MaxSearches
    /\ spinner \in BOOLEAN /\ mapError \in {"none", "wide", "failed"}

FirstQuery == CHOOSE q \in Query : TRUE

(* The phone's microtask sends the first search before the first frame; on *)
(* the site the mount effect starts the debounce.                          *)
MapInit(clients) ==
    /\ mapClient \in clients
    /\ view = Home /\ query = FirstQuery
    /\ shown = [no |-> 0, view |-> NoView, query |-> FirstQuery]
    /\ IF mapClient = "app"
       THEN /\ searches = 1 /\ timer = NoView
            /\ flying = {[no |-> 1, view |-> Home, query |-> FirstQuery]}
       ELSE searches = 0 /\ timer = Home /\ flying = {}
    /\ fetched = NoView
    /\ spinner = TRUE /\ mapError = "none"

-----------------------------------------------------------------------------
(* Mutant: the earlier request is not cancelled. *)
KeepEarlier(r) == flying \cup {r}

(* A new request cancels the one in flight, whose answer is swallowed. *)
Supersede(r) == {r}

Ask(v, q) ==
    /\ searches < MaxSearches
    /\ searches' = searches + 1
    /\ flying' = Supersede([no |-> searches', view |-> v, query |-> q])
    /\ spinner' = TRUE

(* Says so instead of sending a certain 400; what is in flight stays there. *)
TooWide ==
    /\ spinner' = FALSE
    /\ mapError' = "wide"
    /\ UNCHANGED <<flying, searches>>

(* _search of the phone. *)
SearchNow(v, q) ==
    \/ v \in Wide /\ TooWide
    \/ v \notin Wide /\ Ask(v, q) /\ mapError' = "none"

(* Mutant: the site skips what the last answer already covers. *)
SiteEffectUnlessShown ==
    /\ IF shown.view # NoView /\ view' \in Margin[shown.view]
       THEN UNCHANGED <<timer, flying, searches, spinner, mapError>>
       ELSE timer' = view' /\ UNCHANGED <<flying, searches, spinner, mapError>>

(* The site's effect on [bounds, bookingType]: the cleanup drops the timer. *)
SiteEffect ==
    \/ view' \in Wide /\ TooWide /\ timer' = NoView
    \/ view' \notin Wide /\ timer' = view' /\ UNCHANGED <<flying, searches, spinner, mapError>>

Covered(v) == fetched # NoView /\ v \in Margin[fetched]

Pan(v) ==
    /\ v # view
    /\ view' = v
    /\ IF mapClient = "site" THEN SiteEffect
       ELSE /\ timer' = IF Covered(v) THEN timer ELSE v
            /\ UNCHANGED <<flying, searches, spinner, mapError>>
    /\ UNCHANGED <<mapClient, query, shown, fetched>>

(* setBookingType and applyFilters: the phone searches at once and leaves  *)
(* the debounce alone.                                                     *)
SetQuery(q) ==
    /\ q # query
    /\ query' = q
    /\ IF mapClient = "site" THEN view' = view /\ SiteEffect
       ELSE SearchNow(view, q) /\ UNCHANGED <<view, timer>>
    /\ UNCHANGED <<mapClient, shown, fetched>>

Refresh ==
    /\ mapClient = "app"
    /\ SearchNow(view, query)
    /\ UNCHANGED <<mapClient, view, query, timer, shown, fetched>>

TimerFires ==
    /\ timer # NoView
    /\ IF mapClient = "site" THEN Ask(timer, query) /\ UNCHANGED mapError
       ELSE SearchNow(timer, query)
    /\ timer' = NoView
    /\ UNCHANGED <<mapClient, view, query, shown, fetched>>

(* MapSearchService answers a box within the span cap.  The phone asks for *)
(* the margin only when that fits the cap, else for the viewport alone.    *)
Served(r) == r.view \notin Wide

Answered(r) ==
    /\ Served(r)
    /\ flying' = flying \ {r}
    /\ shown' = r
    /\ fetched' = IF mapClient = "app" THEN r.view ELSE fetched
    /\ spinner' = FALSE /\ mapError' = "none"
    /\ UNCHANGED <<mapClient, view, query, timer, searches>>

(* Mutant: the error path forgets the spinner. *)
SearchFailsSpinning(r) ==
    /\ flying' = flying \ {r}
    /\ mapError' = "failed"
    /\ UNCHANGED <<mapClient, view, query, timer, searches, shown, fetched, spinner>>

(* The pins of the last success stay. *)
SearchFails(r) ==
    /\ flying' = flying \ {r}
    /\ spinner' = FALSE /\ mapError' = "failed"
    /\ UNCHANGED <<mapClient, view, query, timer, searches, shown, fetched>>

MapNext ==
    \/ \E v \in View : Pan(v)
    \/ \E q \in Query : SetQuery(q)
    \/ Refresh
    \/ TimerFires
    \/ \E r \in flying : Answered(r) \/ SearchFails(r)

-----------------------------------------------------------------------------
(* The pins on screen never go back to an earlier search: a slow answer    *)
(* does not paint over a later one.                                        *)
AnswersInOrder == [][shown'.no >= shown.no]_mapVars

(* A spinner is always about something that will end.                      *)
SpinnerEnds == spinner => timer # NoView \/ flying # {}

(* When the site has come to rest without an error, its pins are those of  *)
(* the area and the query on screen, whatever was panned and answered on   *)
(* the way.  (The phone's are not: see the README.)                        *)
SiteShowsItsView ==
    mapClient = "site" /\ timer = NoView /\ flying = {} /\ mapError = "none" /\ view \notin Wide
    => shown.view = view /\ shown.query = query
===============================================================================
