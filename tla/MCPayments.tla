----------------------------- MODULE MCPayments -----------------------------
(* Four components of the money, and of what is told of it, that share no state: *)
(* the rest of a turn, the credentials of Mercado Pago, the notifications it       *)
(* sends, the announcements. The initial state chooses the one that moves, the     *)
(* others stay at their beginning.                                                *)
EXTENDS Balance, Gateway, Receipt, Announcements, TLC

CONSTANTS p1, p2, h1

VARIABLE part
vars == <<part, balanceVars, gatewayVars, receiptVars, announcementVars>>

RequestSymmetry == Permutations(BalanceRequests)

(* A genuine notification, and each thing that may be wrong with one. *)
Genuine == [topic |-> "payment", ownId |-> TRUE, signed |-> p1, body |-> p1,
            signature |-> "good"]
Notifications ==
    {Genuine, [Genuine EXCEPT !.ownId = FALSE], [Genuine EXCEPT !.signed = p2],
     [Genuine EXCEPT !.body = p2], [Genuine EXCEPT !.signature = "forged"],
     [Genuine EXCEPT !.topic = "order"]}

(* A payment of the charge, and each thing that may be wrong with one of the two. *)
Due == [account |-> "store", amount |-> "link", reference |-> "link", live |-> TRUE]
InMercadoPago ==
    {Due, [Due EXCEPT !.account = "other"], [Due EXCEPT !.account = "missing"],
     [Due EXCEPT !.amount = "other"], [Due EXCEPT !.amount = "missing"],
     [Due EXCEPT !.reference = "replaced"], [Due EXCEPT !.reference = "turn"],
     [Due EXCEPT !.reference = "foreign"], [Due EXCEPT !.live = FALSE]}

(* Every event for the owner. *)
OwnerEventsOf == OwnerEventKinds

HandlersOf == {h1, "job"}

Init ==
    /\ part \in {"balance", "gateway", "receipt", "announcements"}
    /\ BalanceInit /\ (part # "balance" => fee["first"] = NoFee)
    /\ GatewayInit /\ (part # "gateway" => production)
    /\ ReceiptInit /\ \E p \in MpPayments : mpForm[p] = Due
    /\ part # "receipt" => \A p \in MpPayments : mpForm[p] = Due
    /\ AnnouncementsInit
    /\ bell.of = NoOwnerEvent => mailbox /\ (turn[1] = "none" => autoMails)
    /\ part # "announcements" =>
          bell.of = NoOwnerEvent /\ turn[1] = "none" /\ autoMails

Next ==
    /\ UNCHANGED part
    /\ \/ /\ part = "balance" /\ BalanceNext
          /\ UNCHANGED <<gatewayVars, receiptVars, announcementVars>>
       \/ /\ part = "gateway" /\ GatewayNext
          /\ UNCHANGED <<balanceVars, receiptVars, announcementVars>>
       \/ /\ part = "receipt" /\ ReceiptNext
          /\ UNCHANGED <<balanceVars, gatewayVars, announcementVars>>
       \/ /\ part = "announcements" /\ AnnouncementsNext
          /\ UNCHANGED <<balanceVars, gatewayVars, receiptVars>>

Spec == Init /\ [][Next]_vars
=============================================================================
