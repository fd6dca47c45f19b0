------------------------------- MODULE MCStore -------------------------------
(* Four components of a store that share no state: its accounts, the debts of    *)
(* its clients, its reminders, its deposits. The initial state chooses the one     *)
(* that moves, the others stay at their beginning.                               *)
EXTENDS Admins, Ledger, Notifications, Deposits, TLC

CONSTANT Pair    \* two model values: requests or runs

VARIABLE part
vars == <<part, adminVars, ledgerVars, notifyVars, depositVars>>

PairSymmetry == Permutations(Pair)

Inputs == {<<1, "confirmed", "mailbox">>, <<1, "pending_payment", "technical">>,
           <<1, "pending", "off">>, <<2, "pending", "mailbox">>}

(* Deposits: four selections of services, the surcharges, two promotions. *)
Service(m, t, a, p) == [mode |-> m, type |-> t, amount |-> a, price |-> p, active |-> TRUE]
Chosen ==
    {<<Service("required", "percent", 50, 10)>>,
     <<Service("optional", "fixed", 30, 10)>>,
     <<Service("none", "percent", 0, 10), Service("required", "full", 0, 0)>>,
     <<Service("none", "percent", 0, 10)>>}
Surcharges == {[farDays |-> 7, farExtra |-> 20, newExtra |-> 40, absentExtra |-> 30]}
Offers == {[active |-> TRUE, percent |-> 50, minimum |-> 10],
           [active |-> TRUE, percent |-> 100, minimum |-> 11]}
Asked(w, p, v, h, m) ==
    [wait |-> w, promo |-> p, verified |-> v, history |-> h, method |-> m]
Asks ==
    {Asked(1, FALSE, TRUE, "new", "auto"), Asked(6, FALSE, TRUE, "absent", "manual"),
     Asked(1488, FALSE, FALSE, "new", "manual"), Asked(1488, TRUE, TRUE, "absent", "auto"),
     Asked(400, TRUE, TRUE, "new", "mercadopago"), Asked(6, TRUE, FALSE, "new", "manual")}

Init ==
    /\ part \in {"admins", "ledger", "notifications", "deposits"}
    /\ AdminsInit /\ LedgerInit /\ NotificationsInit
    /\ DepositsInit
    /\ part # "deposits" =>
          store.whatsapp /\ store.payments /\ store.manual /\ store.usable
          /\ services = <<Service("none", "percent", 0, 10)>> /\ promo.percent = 50

Next ==
    /\ UNCHANGED part
    /\ \/ /\ part = "admins" /\ AdminsNext
          /\ UNCHANGED <<ledgerVars, notifyVars, depositVars>>
       \/ /\ part = "ledger" /\ LedgerNext
          /\ UNCHANGED <<adminVars, notifyVars, depositVars>>
       \/ /\ part = "notifications" /\ NotificationsNext
          /\ UNCHANGED <<adminVars, ledgerVars, depositVars>>
       \/ /\ part = "deposits" /\ DepositsNext
          /\ UNCHANGED <<adminVars, ledgerVars, notifyVars>>

Spec == Init /\ [][Next]_vars
=============================================================================
