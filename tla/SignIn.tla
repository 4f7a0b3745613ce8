-------------------------------- MODULE SignIn --------------------------------
(***************************************************************************)
(* Phone sign-in for one number, over Redis keys that several requests     *)
(* read and write one command at a time: the rate limiter's counters, the  *)
(* hourly send counter, the cooldown and the stored code.  A counter is    *)
(* given its expiry by a second command, after the INCR that created it.   *)
(***************************************************************************)
EXTENDS Naturals, FiniteSets

CONSTANTS
    Request,      \* HTTP requests under way
    RouteLimit,   \* @RateLimit of the two routes
    MaxSends,     \* MAX_SENDS_PER_HOUR
    MaxAttempts,  \* MAX_ATTEMPTS
    MaxCodes      \* bound on the codes of a behaviour

ASSUME SignInAssumption ==
    /\ IsFiniteSet(Request)
    /\ {RouteLimit, MaxSends, MaxAttempts, MaxCodes} \subseteq Nat \ {0}

VARIABLES
    count,      \* the counters; 0: no such key
    timed,      \* whether the key has an expiry
    code,       \* the stored code: its number and the wrong guesses; number 0: none
    codes,      \* how many were issued
    cooling,    \* the cooldown key
    request,    \* the HTTP requests
    unwindowed  \* history: counters there now whose EXPIRE was lost

signVars == <<count, timed, code, codes, cooling, request, unwindowed>>

Route == {"request-otp", "verify-otp"}
Counter == Route \cup {"sends"}
Code == [no : 0..MaxCodes, attempts : 0..MaxAttempts]
NoCode == [no |-> 0, attempts |-> 0]

SignStep == {"idle", "guard", "guardFirst", "in", "cool", "may", "stored",
             "cooled", "sendFirst", "counted", "read", "wrong"}

SignTypeOK ==
    /\ count \in [Counter -> 0..(RouteLimit + MaxSends + Cardinality(Request))]
    /\ timed \in [Counter -> BOOLEAN]
    /\ code \in Code /\ codes \in 0..MaxCodes /\ cooling \in BOOLEAN
    /\ request \in [Request -> [step : SignStep, route : Route,
                                saw : Code, typed : 0..MaxCodes]]
    /\ unwindowed \subseteq Counter

Done == [step |-> "idle", route |-> "request-otp", saw |-> NoCode, typed |-> 0]

SignInit ==
    /\ count = [k \in Counter |-> 0] /\ timed = [k \in Counter |-> FALSE]
    /\ code = NoCode /\ codes = 0 /\ cooling = FALSE
    /\ request = [r \in Request |-> Done]
    /\ unwindowed = {}

Step(r, from, to) ==
    /\ request[r].step = from
    /\ request' = [request EXCEPT ![r].step = to]
Ends(r) == request' = [request EXCEPT ![r] = Done]

(* Mutant: the expiry is set by the second increment. *)
SecondOfWindow(n) == n = 2

(* Which INCR answer makes the caller set the expiry.                      *)
FirstOfWindow(n) == n = 1

(* An EXPIRE does nothing to a key that is gone. *)
GivesWindow(k) ==
    /\ timed' = [timed EXCEPT ![k] = count[k] > 0]
    /\ unwindowed' = unwindowed \ {k}

(* The counter it was for may be gone, or have been given one meanwhile.   *)
WindowIsLost(k) ==
    unwindowed' = IF count[k] > 0 /\ ~timed[k] THEN unwindowed \cup {k} ELSE unwindowed

-----------------------------------------------------------------------------
(* RateLimitGuard, on every route. *)

Arrive(r, route, typed) ==
    /\ request[r].step = "idle"
    /\ route = "request-otp" => typed = 0
    /\ request' = [request EXCEPT ![r] = [Done EXCEPT !.step = "guard", !.route = route,
                                                      !.typed = typed]]
    /\ UNCHANGED <<count, timed, code, codes, cooling, unwindowed>>

(* The count stops one above the limit, where more makes no difference.    *)
GuardCounts(r) ==
    LET k == request[r].route
        n == count[k] + 1
    IN  /\ request[r].step = "guard"
        /\ count' = [count EXCEPT ![k] = IF n > RouteLimit THEN RouteLimit + 1 ELSE n]
        /\ IF FirstOfWindow(n) THEN Step(r, "guard", "guardFirst")
           ELSE IF n > RouteLimit THEN Ends(r) ELSE Step(r, "guard", "in")
        /\ UNCHANGED <<timed, code, codes, cooling, unwindowed>>

(* A Redis hiccup lets the request through. *)
GuardFailsOpen(r) ==
    /\ Step(r, "guard", "in")
    /\ UNCHANGED <<count, timed, code, codes, cooling, unwindowed>>

GuardWindow(r) ==
    /\ Step(r, "guardFirst", "in")
    /\ GivesWindow(request[r].route)
    /\ UNCHANGED <<count, code, codes, cooling>>

(* PEXPIRE fails and the request goes on, or the process dies. *)
GuardWindowLost(r) ==
    /\ request[r].step = "guardFirst"
    /\ Step(r, "guardFirst", "in") \/ Ends(r)
    /\ WindowIsLost(request[r].route)
    /\ UNCHANGED <<count, timed, code, codes, cooling>>

-----------------------------------------------------------------------------
(* OtpService.issue. *)

ReadCooldown(r) ==
    /\ request[r].route = "request-otp"
    /\ request[r].step = "in"
    /\ IF cooling THEN Ends(r) ELSE Step(r, "in", "cool")
    /\ UNCHANGED <<count, timed, code, codes, cooling, unwindowed>>

ReadSends(r) ==
    /\ request[r].step = "cool"
    /\ IF count["sends"] >= MaxSends THEN Ends(r) ELSE Step(r, "cool", "may")
    /\ UNCHANGED <<count, timed, code, codes, cooling, unwindowed>>

StoreCode(r) ==
    /\ Step(r, "may", "stored")
    /\ codes < MaxCodes
    /\ codes' = codes + 1
    /\ code' = [no |-> codes', attempts |-> 0]
    /\ UNCHANGED <<count, timed, cooling, unwindowed>>

StoreCooldown(r) ==
    /\ Step(r, "stored", "cooled")
    /\ cooling' = TRUE
    /\ UNCHANGED <<count, timed, code, codes, unwindowed>>

CountSend(r) ==
    /\ request[r].step = "cooled"
    /\ count' = [count EXCEPT !["sends"] = @ + 1]
    /\ Step(r, "cooled", IF FirstOfWindow(count'["sends"]) THEN "sendFirst" ELSE "counted")
    /\ UNCHANGED <<timed, code, codes, cooling, unwindowed>>

SendWindow(r) ==
    /\ Step(r, "sendFirst", "counted")
    /\ GivesWindow("sends")
    /\ UNCHANGED <<count, code, codes, cooling>>

SendWindowLost(r) ==
    /\ request[r].step = "sendFirst"
    /\ Ends(r)
    /\ WindowIsLost("sends")
    /\ UNCHANGED <<count, timed, code, codes, cooling>>

(* The message is accepted or refused; the keys stay either way, and so    *)
(* they do when the process dies on the way here.                          *)
IssueEnds(r) ==
    /\ request[r].step \in {"stored", "cooled", "counted"}
    /\ Ends(r)
    /\ UNCHANGED <<count, timed, code, codes, cooling, unwindowed>>

-----------------------------------------------------------------------------
(* OtpService.verify. *)

ReadCode(r) ==
    /\ request[r].route = "verify-otp"
    /\ request[r].step = "in"
    /\ IF code = NoCode THEN Ends(r)
       ELSE request' = [request EXCEPT ![r].step = "read", ![r].saw = code]
    /\ UNCHANGED <<count, timed, code, codes, cooling, unwindowed>>

(* Consumed with the send counter, in one DEL; an unwindowed key goes too. *)
CodeMatches(r) ==
    /\ request[r].step = "read" /\ request[r].typed = request[r].saw.no
    /\ code' = NoCode
    /\ count' = [count EXCEPT !["sends"] = 0]
    /\ timed' = [timed EXCEPT !["sends"] = FALSE]
    /\ unwindowed' = unwindowed \ {"sends"}
    /\ Ends(r)
    /\ UNCHANGED <<codes, cooling>>

(* The last wrong guess burns the code. *)
CodeWrong(r) ==
    /\ request[r].step = "read" /\ request[r].typed # request[r].saw.no
    /\ IF request[r].saw.attempts + 1 >= MaxAttempts
       THEN code' = NoCode /\ Ends(r)
       ELSE Step(r, "read", "wrong") /\ UNCHANGED code
    /\ UNCHANGED <<count, timed, codes, cooling, unwindowed>>

(* What was read, with one attempt more, over whatever is there now. *)
WriteBack(r) ==
    /\ request[r].step = "wrong"
    /\ code' = [request[r].saw EXCEPT !.attempts = @ + 1]
    /\ Ends(r)
    /\ UNCHANGED <<count, timed, codes, cooling, unwindowed>>

-----------------------------------------------------------------------------
(* Redis expires a key that has an expiry. *)
WindowCloses(k) ==
    /\ timed[k]
    /\ count' = [count EXCEPT ![k] = 0]
    /\ timed' = [timed EXCEPT ![k] = FALSE]
    /\ UNCHANGED <<code, codes, cooling, request, unwindowed>>

CooldownEnds ==
    /\ cooling
    /\ cooling' = FALSE
    /\ UNCHANGED <<count, timed, code, codes, request, unwindowed>>

CodeExpires ==
    /\ code # NoCode
    /\ code' = NoCode
    /\ UNCHANGED <<count, timed, codes, cooling, request, unwindowed>>

SignNext ==
    \/ \E r \in Request :
          \/ \E route \in Route, typed \in 0..MaxCodes : Arrive(r, route, typed)
          \/ GuardCounts(r) \/ GuardFailsOpen(r) \/ GuardWindow(r) \/ GuardWindowLost(r)
          \/ ReadCooldown(r) \/ ReadSends(r) \/ StoreCode(r) \/ StoreCooldown(r)
          \/ CountSend(r) \/ SendWindow(r) \/ SendWindowLost(r) \/ IssueEnds(r)
          \/ ReadCode(r) \/ CodeMatches(r) \/ CodeWrong(r) \/ WriteBack(r)
    \/ \E k \in Counter : WindowCloses(k)
    \/ CooldownEnds \/ CodeExpires

-----------------------------------------------------------------------------
(* A counter that exists will be forgotten again: it has its expiry, or    *)
(* the request that made it is about to set one.  Otherwise a number, or   *)
(* an address, would be shut out for good.  It is so only of a counter     *)
(* whose EXPIRE was lost to a fault, and of that one no longer than the    *)
(* key lasts.                                                              *)
WindowsOpenAgain ==
    \A k \in Counter :
       /\ count[k] > 0 =>
             \/ timed[k]
             \/ k \in unwindowed
             \/ \E r \in Request :
                   \/ request[r].step = "guardFirst" /\ request[r].route = k
                   \/ request[r].step = "sendFirst" /\ k = "sends"
       /\ k \in unwindowed => count[k] > 0 /\ ~timed[k]
===============================================================================
