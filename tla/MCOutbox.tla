------------------------------ MODULE MCOutbox ------------------------------
(* The runs of the outbox, and the expiry of the holds that publishes to it.    *)
(* They share no state: the initial state chooses the one that moves, the other *)
(* stays at its beginning. Two concurrent runs, one event with its mail, three  *)
(* rows to expire of which two have no preference, two rows per claim; three    *)
(* holds of every kind, one per page.                                           *)
EXTENDS Outbox, PaymentJobs

CONSTANTS w1, w2, x1, x2, x3, e1

VARIABLE part
allVars == <<part, vars, paymentJobVars>>

(* While the outbox moves no hold is owed an answer. *)
AllInit ==
    /\ part \in {"outbox", "expiry"}
    /\ Init /\ PaymentJobsInit
    /\ part = "outbox" => \A h \in Holds : hold[h].kind = "paid"

AllNext ==
    /\ UNCHANGED part
    /\ \/ part = "outbox" /\ Next /\ UNCHANGED paymentJobVars
       \/ part = "expiry" /\ ExpiryNext /\ UNCHANGED vars

(* The fairness of the part that moves. *)
AllFairness ==
    \/ part = "outbox" /\ Fairness
    \/ part = "expiry" /\ ExpiryFairness

AllSpec == AllInit /\ [][AllNext]_allVars /\ AllFairness
=============================================================================
