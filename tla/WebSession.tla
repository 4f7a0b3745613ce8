------------------------------ MODULE WebSession ------------------------------
(***************************************************************************)
(* Getting around the site with a session cookie: the middleware decides   *)
(* from the claims it can decode, the page behind it decides again, and    *)
(* the token may expire between the two.                                   *)
(***************************************************************************)
EXTENDS Naturals

VARIABLES
    cookie,   \* lc_session
    actor,    \* the actorType in its claims; role is ADMIN for an ADMIN only
    path,     \* where the browser is
    phase,    \* "settled", at the "middleware", or rendering the "page"
    hops,     \* redirects since the reader last acted
    outcome,  \* the last page: itself, or its error boundary, since the API
              \* "refused" the reader or something else "failed"
    asked     \* history: the path the reader asked for, and with what cookie

webVars == <<cookie, actor, path, phase, hops, outcome, asked>>

Cookie == {"none", "garbled", "expired", "live"}
Actor == {"GUEST", "HOST", "ADMIN"}
Matched == {"/login", "/register", "/bookings", "/book", "/admin", "/host"}
Path == Matched \cup {"/discover"}
MaxHops == 3  \* a browser gives up later; enough to see a loop

WebTypeOK ==
    /\ cookie \in Cookie /\ actor \in Actor /\ path \in Path
    /\ phase \in {"settled", "middleware", "page"}
    /\ hops \in 0..MaxHops /\ outcome \in {"page", "refused", "failed"}
    /\ asked \in [path : Path, cookie : Cookie]

(* The cookie any browser may come back with. *)
WebInit ==
    /\ cookie \in Cookie /\ actor \in Actor
    /\ path = "/discover" /\ phase = "settled" /\ hops = 0 /\ outcome = "page"
    /\ asked = [path |-> "/discover", cookie |-> cookie]

-----------------------------------------------------------------------------
Arriving(p) == path' = p /\ phase' = IF p \in Matched THEN "middleware" ELSE "page"

Visit(p) ==
    /\ phase = "settled"
    /\ Arriving(p)
    /\ hops' = 0
    /\ asked' = [path |-> p, cookie |-> cookie]
    /\ UNCHANGED <<cookie, actor, outcome>>

Redirect(p) ==
    /\ hops < MaxHops
    /\ hops' = hops + 1
    /\ Arriving(p)

(* Mutant: whatever decodes counts, as it did before the expiry check. *)
Decodes == cookie \in {"live", "expired"}

(* decodePayload of the middleware: unreadable and expired are the same.   *)
HasClaims == cookie = "live"

(* "Where this actor belongs when they land somewhere they should not be." *)
HomePath == CASE actor = "ADMIN" -> "/admin"
              [] actor = "HOST" -> "/host"
              [] OTHER -> "/discover"

(* Mutant: the host pages are open to whoever is signed in. *)
HostPagesOpen ==
    CASE path \in {"/login", "/register"} -> IF HasClaims THEN HomePath ELSE path
      [] path \in {"/bookings", "/book", "/host"} -> IF HasClaims THEN path ELSE "/login"
      [] path = "/admin" -> IF ~HasClaims THEN "/login"
                            ELSE IF actor = "ADMIN" THEN path ELSE HomePath
      [] OTHER -> path

(* Where the middleware sends this request; its own path: it proceeds. *)
Destination ==
    CASE path \in {"/login", "/register"} -> IF HasClaims THEN HomePath ELSE path
      [] path \in {"/bookings", "/book"} -> IF HasClaims THEN path ELSE "/login"
      [] path = "/admin" -> IF ~HasClaims THEN "/login"
                            ELSE IF actor = "ADMIN" THEN path ELSE HomePath
      [] path = "/host" -> IF ~HasClaims THEN "/login"
                           ELSE IF actor \in {"ADMIN", "HOST"} THEN path ELSE HomePath
      [] OTHER -> path

(* A cookie that yields no claims is dropped with the answer. *)
Middleware ==
    /\ phase = "middleware"
    /\ cookie' = IF HasClaims THEN cookie ELSE "none"
    /\ IF Destination = path THEN phase' = "page" /\ UNCHANGED <<path, hops>>
       ELSE Redirect(Destination)
    /\ UNCHANGED <<actor, outcome, asked>>

(* JwtAuthGuard in production: a token that verifies, or 401.              *)
TokenAccepted == cookie = "live"

(* RolesGuard: administrators always pass. *)
RoleAccepted(required) == actor \in {"ADMIN", required}

(* The role behind the calls of a page, where one is required.             *)
RequiredRole == [p \in {"/admin", "/host"} |-> IF p = "/admin" THEN "ADMIN" ELSE "HOST"]

(* 401 or 403; the other pages fetch what is public, nothing, or catch it. *)
FetchRefused ==
    \/ path = "/bookings" /\ ~TokenAccepted
    \/ /\ path \in DOMAIN RequiredRole
       /\ ~(TokenAccepted /\ RoleAccepted(RequiredRole[path]))

(* The pages that let a failing fetch throw. *)
Unguarded == {"/bookings", "/admin", "/host", "/discover"}

(* The overview of a host who has a profile maps over its bookings, which  *)
(* the API answers as a page with items: that always throws.  A host has a *)
(* profile; an administrator may.                                          *)
OverviewThrows == path = "/host" /\ actor = "HOST"

(* api() throws on any answer that is not OK: a refusal, but as well a 429,*)
(* a 5xx or no answer, whatever the session.                               *)
PageOutcome ==
    IF path \notin Unguarded THEN {"page"}
    ELSE {"failed"} \cup (IF FetchRefused THEN {"refused"}
                          ELSE IF OverviewThrows THEN {} ELSE {"page"})

(* getSession decodes without looking at the expiry; only the bookings     *)
(* page redirects on its answer.                                           *)
PageRenders ==
    /\ phase = "page"
    /\ IF path = "/bookings" /\ cookie \in {"none", "garbled"}
       THEN Redirect("/login") /\ UNCHANGED outcome
       ELSE /\ phase' = "settled"
            /\ outcome' \in PageOutcome
            /\ UNCHANGED <<path, hops>>
    /\ UNCHANGED <<cookie, actor, asked>>

(* platform_role = ADMIN, and whether a host profile exists. *)
Account == [admin : BOOLEAN, host : BOOLEAN]
NewAccount == [admin |-> FALSE, host |-> FALSE]

(* issueFor: the claims of a token are those of the rows when it is signed. *)
ClaimsOf(account) ==
    CASE account.admin -> "ADMIN"
      [] account.host /\ ~account.admin -> "HOST"
      [] OTHER -> "GUEST"

(* The cookie is set, then the redirect follows; who signs in has nothing  *)
(* to do with who did before.                                              *)
SessionFor(account) ==
    /\ cookie' = "live" /\ actor' = ClaimsOf(account)
    /\ Arriving(CASE actor' = "ADMIN" -> "/admin"
                  [] actor' = "HOST" -> "/host"
                  [] OTHER -> "/discover")
    /\ hops' = 1
    /\ asked' = [path |-> path', cookie |-> "live"]
    /\ UNCHANGED outcome

(* loginAction; wrong credentials leave everything as it is. *)
SignsIn(account) ==
    /\ phase = "settled" /\ path = "/login"
    /\ SessionFor(account)

(* registerAction. *)
Registers ==
    /\ phase = "settled" /\ path = "/register"
    /\ SessionFor(NewAccount)

(* logoutAction. *)
SignsOut ==
    /\ phase = "settled" /\ cookie # "none"
    /\ cookie' = "none"
    /\ Arriving("/login")
    /\ hops' = 1
    /\ asked' = [path |-> "/login", cookie |-> "none"]
    /\ UNCHANGED <<actor, outcome>>

TokenExpires ==
    /\ cookie = "live"
    /\ cookie' = "expired"
    /\ UNCHANGED <<actor, path, phase, hops, outcome, asked>>

(* maxAge: the browser forgets it. *)
CookieExpires ==
    /\ cookie # "none"
    /\ cookie' = "none"
    /\ UNCHANGED <<actor, path, phase, hops, outcome, asked>>

WebNext ==
    \/ \E p \in Path : Visit(p)
    \/ \E u \in Account : SignsIn(u)
    \/ Registers
    \/ Middleware \/ PageRenders \/ SignsOut \/ TokenExpires \/ CookieExpires

-----------------------------------------------------------------------------
(* No guard sends the reader to another guard and back, even when the      *)
(* token expires on the way; and a reader who came with a session that     *)
(* cannot work ends up where they asked to be or at the sign-in form,      *)
(* never bounced away from it.                                             *)
RedirectsSettle ==
    /\ hops <= 2
    /\ phase = "settled" /\ asked.cookie # "live" => path \in {asked.path, "/login"}

(* The middleware and the API agree on every role: whom the one lets       *)
(* through the other refuses only for a token that was live when the       *)
(* reader acted and ended before the page had fetched.  An error boundary  *)
(* in the place of "please sign in again" is left to that, and to what is  *)
(* no refusal: an API that fails, and the overview of the hosts.           *)
AdmittedIsNotRefused ==
    phase = "settled" /\ outcome = "refused" => asked.cookie = "live" /\ cookie # "live"
===============================================================================
