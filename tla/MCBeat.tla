------------------------------- MODULE MCBeat -------------------------------
(* Three components that time brings back: the billing of the stores, the       *)
(* offers of the waitlist, the breaker around the calls to Mercado Pago. They    *)
(* share no state: the initial state chooses the one that moves, the others      *)
(* stay at their beginning. Three calls through the breaker; three entries of    *)
(* the list, two of them of one person.                                         *)
EXTENDS CircuitBreaker, Waitlist, Billing, TLC

VARIABLE part
vars == <<part, breakerVars, wlVars, billingVars>>

Phone(e) == IF e <= 2 THEN "first" ELSE "second"
HasMailbox(e) == TRUE

Init ==
    /\ part \in {"breaker", "waitlist", "billing"}
    /\ BreakerInit /\ WaitlistInit /\ BillingInit

Next ==
    /\ UNCHANGED part
    /\ \/ part = "breaker" /\ BreakerNext /\ UNCHANGED <<wlVars, billingVars>>
       \/ part = "waitlist" /\ WaitlistNext /\ UNCHANGED <<breakerVars, billingVars>>
       \/ part = "billing" /\ BillingNext /\ UNCHANGED <<breakerVars, wlVars>>

(* The fairness of the part that moves. *)
Fairness ==
    \/ part = "breaker" /\ BreakerFairness
    \/ part = "waitlist" /\ WaitlistFairness
    \/ part = "billing" /\ BillingFairness

Spec == Init /\ [][Next]_vars /\ Fairness
=============================================================================
