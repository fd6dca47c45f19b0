----------------------------- MODULE MCRequests -----------------------------
(* Three components whose requests race over rows of the database: sessions,   *)
(* one-time codes, the booking of the portal. They share no state: the initial   *)
(* state chooses the one that moves, the others stay at their beginning. A       *)
(* request, a session or a code is one of the same model values in all of them,  *)
(* so one symmetry serves the three.                                             *)
EXTENDS Sessions, Otp, Portal, TLC

CONSTANTS Pairs, Triples    \* sets of two and of three model values

VARIABLE part
vars == <<part, sessionVars, otpVars, portalVars>>

RequestSymmetry == Permutations(Pairs) \cup Permutations(Triples)

Init ==
    /\ part \in {"sessions", "otp", "portal"}
    /\ SessionsInit
    /\ OtpInit /\ (part # "otp" => contact = NoMailbox)
    /\ PortalInit /\ (part # "portal" => ~clientKnown)

Next ==
    /\ UNCHANGED part
    /\ \/ part = "sessions" /\ SessionsNext /\ UNCHANGED <<otpVars, portalVars>>
       \/ part = "otp" /\ OtpNext /\ UNCHANGED <<sessionVars, portalVars>>
       \/ part = "portal" /\ PortalNext /\ UNCHANGED <<sessionVars, otpVars>>

Spec == Init /\ [][Next]_vars
=============================================================================
