------------------------------- MODULE GuestApp -------------------------------
(***************************************************************************)
(* Six parts of the clients and of the API behind them that share no       *)
(* state: the map, the checkout, phone sign-in, the site's session, a      *)
(* host's photos, and the pages that decide on bookings and payouts.       *)
(* Steps of different parts commute and no property speaks of two of them, *)
(* so a behaviour exercises one part.                                      *)
(***************************************************************************)
EXTENDS MapScreen, GuestCheckout, SignIn, WebSession, UnitPhotos, Consoles

VARIABLES part  \* which one; it never changes

vars == <<part, mapVars, checkoutVars, signVars, webVars, photoVars, consoleVars>>

Part == {"map", "checkout", "signin", "web", "photos", "console"}
Client == {"app", "site"}

TypeOK ==
    /\ part \in Part
    /\ MapTypeOK /\ CheckoutTypeOK /\ SignTypeOK /\ WebTypeOK /\ PhotosTypeOK
    /\ ConsoleTypeOK

(* The parts that rest start in one of their initial states.               *)
Init ==
    /\ part \in Part
    /\ MapInit(IF part = "map" THEN Client ELSE {"app"})
    /\ CheckoutInit(IF part = "checkout" THEN Client ELSE {"app"})
    /\ SignInit
    /\ WebInit
    /\ part # "web" => cookie = "none" /\ actor = "GUEST"
    /\ PhotosInit
    /\ ConsoleInit(IF part = "console" THEN {"stays", "money"} ELSE {"stays"})

Next ==
    \/ /\ part = "map" /\ MapNext
       /\ UNCHANGED <<part, checkoutVars, signVars, webVars, photoVars, consoleVars>>
    \/ /\ part = "checkout" /\ CheckoutNext
       /\ UNCHANGED <<part, mapVars, signVars, webVars, photoVars, consoleVars>>
    \/ /\ part = "signin" /\ SignNext
       /\ UNCHANGED <<part, mapVars, checkoutVars, webVars, photoVars, consoleVars>>
    \/ /\ part = "web" /\ WebNext
       /\ UNCHANGED <<part, mapVars, checkoutVars, signVars, photoVars, consoleVars>>
    \/ /\ part = "photos" /\ PhotosNext
       /\ UNCHANGED <<part, mapVars, checkoutVars, signVars, webVars, consoleVars>>
    \/ /\ part = "console" /\ ConsoleNext
       /\ UNCHANGED <<part, mapVars, checkoutVars, signVars, webVars, photoVars>>

Spec == Init /\ [][Next]_vars
===============================================================================
