---------------------------- MODULE PaymentProofs ----------------------------
(* Money around the charge, for any number of notifications, payments,        *)
(* credentials, workers and requests, any price and any amounts: which credit a *)
(* payment may earn, that no step of the refresh loses the credential that    *)
(* Mercado Pago accepts, and that a turn is paid once.                        *)
EXTENDS Receipt, Gateway, Balance, SequenceTheorems, FiniteSetTheorems,
        TLAPS

(* The receipt of a notification                                              *)

(* Whoever holds or waits for an answer asks about a payment a signed notification named; *)
(* and what was answered was true of it when it was asked.                               *)
AskedIsGenuine ==
    /\ \A h \in Handlers : handler[h].at = "verified" =>
          /\ handler[h].event \in EventIds
          /\ handler[h].of \in MpPayments \cap genuine
          /\ handler[h].got \in {"approved", "charged_back"} => mpStatus[handler[h].of] # "pending"
    /\ \A e \in EventIds : noteRow[e].state = "waiting" => noteRow[e].of \in MpPayments \cap genuine

(* A mark is written only after its alert went out. *)
MarkedWasAlerted == alertMarks \subseteq alerted

(* A row that is not given up has tries left. *)
OpenRowsHaveTries ==
    \A e \in EventIds : noteRow[e].state \in {"none", "waiting"}
                            => noteRow[e].attempts < MaxRowAttempts

ReceiptInv ==
    /\ ReceiptTypeOK
    /\ OpenRowsHaveTries
    /\ AskedIsGenuine
    /\ deposit.status = "pending" => deposit.by = NoPayment
    /\ deposit.status # "pending" => deposit.by \in MpPayments
    /\ CreditIsGenuine
    /\ MarkedWasAlerted
    /\ RefusedIsAlerted

(* Nothing was notified at the start. *)
LEMMA InitReceiptInv == ReceiptInit => ReceiptInv
<1> SUFFICES ASSUME ReceiptInit PROVE ReceiptInv
  OBVIOUS
<1>1. IdleHandler \in HandlerState /\ IdleHandler.at = "idle"
  BY DEF IdleHandler, HandlerState
<1>2. [state |-> "none", of |-> NoPayment, attempts |-> 0] \in NoteRow
  BY ReceiptAssumption DEF NoteRow
<1>3. ReceiptTypeOK
  BY <1>1, <1>2, ReceiptAssumption DEF ReceiptInit, ReceiptTypeOK
<1>4. QED
  BY <1>1, <1>3, ReceiptAssumption
     DEF ReceiptInit, ReceiptInv, AskedIsGenuine, CreditIsGenuine, MarkedWasAlerted,
         RefusedIsAlerted, OpenRowsHaveTries

(* What is applied to the charge as an approval is of the charge, whole and real. *)
LEMMA AppliedIsDue ==
    ASSUME NEW p \in MpPayments, mpForm[p] \in PaymentForms, FindsCharge(p), deposit.by # p,
           deposit.status = "pending", Reason(p, "approved") = {},
           mpForm[p].reference # "replaced"
    PROVE  mpForm[p] = [account |-> "store", amount |-> "link", reference |-> "link", live |-> TRUE]
<1>1. /\ mpForm[p].account \in {"store", "other", "missing"}
      /\ mpForm[p].amount \in {"link", "other", "missing"}
      /\ mpForm[p].reference \in {"link", "turn"}
      /\ mpForm[p].live \in BOOLEAN
      /\ mpForm[p] = [account |-> mpForm[p].account, amount |-> mpForm[p].amount,
                      reference |-> mpForm[p].reference, live |-> mpForm[p].live]
  BY ReceiptAssumption DEF FindsCharge
<1>2. IdentityReason(p, "approved") = {}
  BY DEF Reason
<1>3. mpForm[p].account = "store"
  BY <1>1, <1>2 DEF IdentityReason, AccountReason
<1>4. mpForm[p].amount # "missing" /\ mpForm[p].live
  BY <1>2 DEF IdentityReason, AmountMissing, TestPayment
<1>5. mpForm[p].reference = "link" /\ mpForm[p].amount = "link"
  BY <1>1, <1>2, <1>4 DEF Reason, OfAnotherPayment, LinkReason
<1>6. mpForm[p].live = TRUE
  BY <1>1, <1>4
<1>7. QED
  BY <1>1, <1>3, <1>5, <1>6

(* A step that leaves the charge, the rows and the alerts alone. *)
LEMMA HandlerGoes ==
    ASSUME ReceiptInv, NEW h, NEW x \in HandlerState,
           handler' = [handler EXCEPT ![h] = x],
           UNCHANGED <<mpForm, mpStatus, noteRow, deposit, refused, alertMarks>>,
           alerted \subseteq alerted', genuine \subseteq genuine', genuine' \subseteq MpPayments,
           notes' \in 0..MaxNotes,
           x.at = "verified" =>
             /\ x.event \in EventIds
             /\ x.of \in MpPayments \cap genuine'
             /\ x.got \in {"approved", "charged_back"} => mpStatus[x.of] # "pending"
    PROVE  ReceiptInv'
<1>1. \A k \in Handlers : handler'[k] = IF k = h THEN x ELSE handler[k]
  BY DEF ReceiptInv, ReceiptTypeOK
<1>2. ReceiptTypeOK'
  BY DEF ReceiptInv, ReceiptTypeOK
<1>3. AskedIsGenuine'
  BY <1>1 DEF ReceiptInv, AskedIsGenuine
<1>4. QED
  BY <1>2, <1>3 DEF ReceiptInv, CreditIsGenuine, MarkedWasAlerted, RefusedIsAlerted, OpenRowsHaveTries

(* Every payment, notification, handler and ask of the job keeps the invariant. *)
LEMMA NextReceiptInv == ReceiptInv /\ [ReceiptNext]_receiptVars => ReceiptInv'
<1> SUFFICES ASSUME ReceiptInv, [ReceiptNext]_receiptVars PROVE ReceiptInv'
  OBVIOUS
<1>0. /\ ReceiptTypeOK /\ AskedIsGenuine /\ CreditIsGenuine /\ MarkedWasAlerted /\ RefusedIsAlerted
      /\ deposit.status = "pending" => deposit.by = NoPayment
      /\ deposit.status # "pending" => deposit.by \in MpPayments
      /\ IdleHandler \in HandlerState /\ IdleHandler.at = "idle"
      /\ OpenRowsHaveTries
  BY DEF ReceiptInv, IdleHandler, HandlerState
<1>1. ASSUME NEW p \in MpPayments, PaymentMoves(p) PROVE ReceiptInv'
  <2>1. /\ mpStatus' \in [MpPayments -> {"pending", "approved", "charged_back"}]
        /\ \A q \in MpPayments : mpStatus[q] # "pending" => mpStatus'[q] # "pending"
        /\ UNCHANGED <<mpForm, noteRow, deposit, handler, genuine, refused, alerted, alertMarks, notes>>
    BY <1>0, <1>1 DEF PaymentMoves, ReceiptTypeOK
  <2>2. ReceiptTypeOK' /\ AskedIsGenuine' /\ CreditIsGenuine'
    BY <1>0, <2>1 DEF ReceiptTypeOK, AskedIsGenuine, CreditIsGenuine
  <2>3. QED
    BY <1>0, <2>1, <2>2 DEF ReceiptInv, MarkedWasAlerted, RefusedIsAlerted, OpenRowsHaveTries
<1>2. ASSUME NEW n \in NoteForms, NoteRejected(n) PROVE ReceiptInv'
  <2>1. /\ notes' \in 0..MaxNotes
        /\ UNCHANGED <<mpForm, mpStatus, noteRow, deposit, handler, genuine, refused, alerted, alertMarks>>
    BY <1>0, <1>2, ReceiptAssumption DEF NoteRejected, ReceiptTypeOK
  <2>2. QED
    BY <1>0, <2>1 DEF ReceiptInv, ReceiptTypeOK, AskedIsGenuine, CreditIsGenuine, MarkedWasAlerted,
                      RefusedIsAlerted, OpenRowsHaveTries
<1>3. ASSUME NEW e \in EventIds, JobAsks(e) PROVE ReceiptInv'
  <2>1. PICK got \in Verified(noteRow[e].of) :
          handler' = [handler EXCEPT !["job"] =
             [at |-> "verified", event |-> e, of |-> noteRow[e].of, got |-> got]]
    BY <1>3 DEF JobAsks
  <2> DEFINE x == [at |-> "verified", event |-> e, of |-> noteRow[e].of, got |-> got]
  <2>2. /\ UNCHANGED <<mpForm, mpStatus, noteRow, deposit, genuine, refused, alerted, alertMarks, notes>>
        /\ noteRow[e].of \in MpPayments \cap genuine
    BY <1>0, <1>3 DEF JobAsks, AskedIsGenuine
  <2>3. /\ got \in {"none", "pending", "approved", "charged_back"}
        /\ got \in {"approved", "charged_back"} => mpStatus[noteRow[e].of] # "pending"
    BY <1>0, <2>2 DEF Verified, ReceiptTypeOK
  <2>4. x \in HandlerState /\ x.event = e /\ x.of = noteRow[e].of /\ x.got = got
    BY <2>2, <2>3 DEF HandlerState
  <2>5. handler' = [handler EXCEPT !["job"] = x]
    BY <2>1
  <2>6. notes' \in 0..MaxNotes /\ genuine' \subseteq MpPayments
    BY <1>0, <2>2 DEF ReceiptTypeOK
  <2> HIDE DEF x
  <2>7. QED
    BY <2>2, <2>3, <2>4, <2>5, <2>6, HandlerGoes
<1>4. ASSUME NEW h \in Handlers, NEW n \in NoteForms, NoteArrives(h, n) PROVE ReceiptInv'
  <2>1. PICK got \in Verified(AskedPayment(n)) :
          handler' = [handler EXCEPT ![h] =
             [at |-> "verified", event |-> EventId(n), of |-> AskedPayment(n), got |-> got]]
    BY <1>4 DEF NoteArrives
  <2> DEFINE x == [at |-> "verified", event |-> EventId(n), of |-> AskedPayment(n), got |-> got]
  <2>2. /\ UNCHANGED <<mpForm, mpStatus, noteRow, deposit, refused, alerted, alertMarks>>
        /\ notes < MaxNotes /\ notes' = notes + 1 /\ genuine' = genuine \cup {n.signed}
    BY <1>4 DEF NoteArrives
  <2>3. n.signed \in MpPayments /\ AskedPayment(n) = n.signed
    BY ReceiptAssumption DEF AskedPayment
  <2>4. notes' \in 0..MaxNotes /\ genuine' \subseteq MpPayments /\ EventId(n) \in EventIds
    BY <1>0, <2>2, <2>3, ReceiptAssumption DEF ReceiptTypeOK, EventId, EventIds
  <2>5. /\ got \in {"none", "pending", "approved", "charged_back"}
        /\ got \in {"approved", "charged_back"} => mpStatus[n.signed] # "pending"
    BY <1>0, <2>3 DEF Verified, ReceiptTypeOK
  <2>6. x \in HandlerState /\ x.event = EventId(n) /\ x.of = n.signed /\ x.got = got
    BY <2>3, <2>4, <2>5 DEF HandlerState
  <2>7. handler' = [handler EXCEPT ![h] = x]
    BY <2>1
  <2> HIDE DEF x
  <2>8. QED
    BY <2>2, <2>3, <2>4, <2>5, <2>6, <2>7, HandlerGoes
<1>5. ASSUME NEW h \in Handlers, HandlerDies(h) PROVE ReceiptInv'
  <2>1. /\ handler' = [handler EXCEPT ![h] = IdleHandler]
        /\ UNCHANGED <<mpForm, mpStatus, noteRow, deposit, genuine, refused, alertMarks, notes>>
    BY <1>5 DEF HandlerDies
  <2>2. alerted \subseteq alerted'
    BY <1>5 DEF HandlerDies
  <2>3. notes' \in 0..MaxNotes /\ genuine' \subseteq MpPayments
    BY <1>0, <2>1 DEF ReceiptTypeOK
  <2>4. QED
    BY <1>0, <2>1, <2>2, <2>3, HandlerGoes
<1>6. ASSUME NEW h \in Handlers, ApplyAndNote(h) PROVE ReceiptInv'
  <2> DEFINE e == handler[h].event
             p == handler[h].of
             got == handler[h].got
             row == noteRow[e]
             applied == got # "none" /\ FindsCharge(p) /\ Reason(p, got) = {}
  <2>1. /\ handler' = [handler EXCEPT ![h] = IdleHandler] /\ handler[h].at = "verified"
        /\ UNCHANGED <<mpForm, mpStatus, genuine, notes>>
        /\ e \in EventIds /\ p \in MpPayments /\ p \in genuine
        /\ got \in {"none", "pending", "approved", "charged_back"}
        /\ got \in {"approved", "charged_back"} => mpStatus[p] # "pending"
        /\ notes' \in 0..MaxNotes /\ genuine \subseteq MpPayments /\ row \in NoteRow
        /\ mpForm[p] \in PaymentForms
    BY <1>0, <1>6 DEF ApplyAndNote, AskedIsGenuine, ReceiptTypeOK, HandlerState
  <2>2. CASE row.state \in {"done", "dropped"}
    <3>1. UNCHANGED <<noteRow, deposit, refused, alerted, alertMarks>>
      BY <1>6, <2>2 DEF ApplyAndNote
    <3>2. QED
      BY <1>0, <2>1, <3>1, HandlerGoes
  <2>3. CASE row.state \notin {"done", "dropped"}
    <3>1. /\ noteRow' = [noteRow EXCEPT ![e] =
                 IF applied THEN [state |-> "done", of |-> p, attempts |-> row.attempts]
                 ELSE RowFailed(row, p)]
          /\ deposit' = IF applied THEN Stamped(p, got) ELSE deposit
          /\ IF got # "none" /\ FindsCharge(p)
             THEN /\ refused' = refused \cup
                       {<<p, w>> : w \in IF got = "approved" THEN Reason(p, got) ELSE {}}
                  /\ alerted' = alerted \cup Alerts(p, got)
                  /\ alertMarks' = alertMarks \cup {AlertKey(a[1], a[2]) : a \in Alerts(p, got)}
             ELSE UNCHANGED <<refused, alerted, alertMarks>>
      BY <1>6, <2>3 DEF ApplyAndNote
    <3>2. \A k \in Handlers : handler'[k] = IF k = h THEN IdleHandler ELSE handler[k]
      BY <1>0, <2>1 DEF ReceiptTypeOK
    <3>3. /\ noteRow' \in [EventIds -> NoteRow]
          /\ \A f \in EventIds : noteRow'[f].of = p \/ noteRow'[f] = noteRow[f]
          /\ OpenRowsHaveTries'
      <4> DEFINE new == IF applied THEN [state |-> "done", of |-> p, attempts |-> row.attempts]
                        ELSE RowFailed(row, p)
      <4>1. row.attempts \in 0..MaxRowAttempts /\ row.attempts < MaxRowAttempts
        BY <1>0, <2>1, <2>3 DEF NoteRow, OpenRowsHaveTries
      <4>2. /\ new \in NoteRow /\ new.of = p
            /\ new.state \in {"none", "waiting"} => new.attempts < MaxRowAttempts
        <5>1. CASE applied
          BY <2>1, <4>1, <5>1 DEF NoteRow
        <5>2. CASE ~ applied
          <6>1. new = RowFailed(row, p)
            BY <5>2
          <6>2. row.attempts + 1 \in 0..MaxRowAttempts
            BY <4>1, ReceiptAssumption
          <6> HIDE DEF new, row, p, applied
          <6>3. QED
            BY <2>1, <4>1, <6>1, <6>2, ReceiptAssumption DEF RowFailed, NoteRow
        <5>3. QED
          BY <5>1, <5>2
      <4>3. noteRow' = [noteRow EXCEPT ![e] = new]
        BY <3>1
      <4> HIDE DEF new
      <4>4. \A f \in EventIds : noteRow'[f] = IF f = e THEN new ELSE noteRow[f]
        BY <1>0, <4>3 DEF ReceiptTypeOK
      <4>5. noteRow' \in [EventIds -> NoteRow]
        BY <1>0, <2>1, <4>2, <4>3 DEF ReceiptTypeOK
      <4>6. QED
        BY <1>0, <4>2, <4>4, <4>5 DEF OpenRowsHaveTries
    <3>4. AskedIsGenuine'
      BY <1>0, <2>1, <3>2, <3>3 DEF AskedIsGenuine
    <3>5. /\ deposit' \in [status : {"pending", "approved", "charged_back"},
                           by : MpPayments \cup {NoPayment}]
          /\ deposit'.status = "pending" => deposit'.by = NoPayment
          /\ deposit'.status # "pending" => deposit'.by \in MpPayments
          /\ CreditIsGenuine'
      <4>1. CASE deposit' = deposit
        BY <1>0, <2>1, <4>1 DEF ReceiptTypeOK, CreditIsGenuine
      <4>2. CASE deposit' # deposit
        <5>1. applied /\ deposit' = Stamped(p, got)
          BY <3>1, <4>2
        <5>2. mpForm[p].reference # "replaced" /\ ~OfAnotherPayment(p)
          BY <4>2, <5>1 DEF Stamped
        <5>3. CASE got = "approved" /\ deposit.status = "pending"
          <6>1. deposit' = [status |-> "approved", by |-> p]
            BY <5>1, <5>2, <5>3 DEF Stamped
          <6>2. deposit.by # p
            BY <1>0, <2>1, <5>3, ReceiptAssumption
          <6>3. mpForm[p] = [account |-> "store", amount |-> "link", reference |-> "link", live |-> TRUE]
            BY <2>1, <5>1, <5>2, <5>3, <6>2, AppliedIsDue
          <6>4. QED
            BY <2>1, <5>3, <6>1, <6>3 DEF CreditIsGenuine
        <5>4. CASE got = "charged_back" /\ deposit.status = "approved"
          <6>1. deposit' = [deposit EXCEPT !.status = "charged_back"]
            BY <5>1, <5>2, <5>4 DEF Stamped
          <6>2. deposit'.status = "charged_back" /\ deposit'.by = deposit.by
            BY <1>0, <6>1 DEF ReceiptTypeOK
          <6>3. QED
            BY <1>0, <2>1, <5>4, <6>1, <6>2 DEF ReceiptTypeOK, CreditIsGenuine
        <5>5. QED
          BY <4>2, <5>1, <5>2, <5>3, <5>4 DEF Stamped
      <4>3. QED
        BY <4>1, <4>2
    <3>6. MarkedWasAlerted' /\ RefusedIsAlerted'
      <4>1. CASE ~ (got # "none" /\ FindsCharge(p))
        BY <1>0, <3>1, <4>1 DEF MarkedWasAlerted, RefusedIsAlerted
      <4>2. CASE got # "none" /\ FindsCharge(p)
        <5>1. /\ refused' = refused \cup {<<p, w>> : w \in IF got = "approved" THEN Reason(p, got) ELSE {}}
              /\ alerted' = alerted \cup Alerts(p, got)
              /\ alertMarks' = alertMarks \cup {AlertKey(a[1], a[2]) : a \in Alerts(p, got)}
          BY <3>1, <4>2
        <5>2. {AlertKey(a[1], a[2]) : a \in Alerts(p, got)} \subseteq Alerts(p, got)
          BY DEF Alerts, AlertKey
        <5>3. MarkedWasAlerted'
          BY <1>0, <5>1, <5>2 DEF MarkedWasAlerted
        <5>4. ASSUME NEW w \in IF got = "approved" THEN Reason(p, got) ELSE {}
              PROVE  <<p, w>> \in alerted'
          <6>1. got = "approved" /\ w \in Reason(p, got)
            BY <5>4
          <6>2. CASE <<p, w>> \in alertMarks
            BY <1>0, <5>1, <6>2 DEF MarkedWasAlerted
          <6>3. CASE <<p, w>> \notin alertMarks
            BY <5>1, <6>1, <6>3 DEF Alerts, AlertKey
          <6>4. QED
            BY <6>2, <6>3
        <5>5. RefusedIsAlerted'
          BY <1>0, <5>1, <5>4 DEF RefusedIsAlerted
        <5>6. QED
          BY <5>3, <5>5
      <4>3. QED
        BY <4>1, <4>2
    <3>7. ReceiptTypeOK'
      BY <1>0, <2>1, <3>3, <3>5 DEF ReceiptTypeOK
    <3>8. QED
      BY <3>3, <3>4, <3>5, <3>6, <3>7 DEF ReceiptInv
  <2>4. QED
    BY <2>2, <2>3
<1>7. CASE UNCHANGED receiptVars
  BY <1>0, <1>7 DEF receiptVars, ReceiptInv, ReceiptTypeOK, AskedIsGenuine, CreditIsGenuine,
                    MarkedWasAlerted, RefusedIsAlerted, OpenRowsHaveTries
<1>8. QED
  BY <1>1, <1>2, <1>3, <1>4, <1>5, <1>6, <1>7 DEF ReceiptNext

(* What is credited was collected for this charge, and what cannot be credited reaches a *)
(* person, for any payments, notifications and handlers.                                  *)
THEOREM ReceiptEarnsCredit == ReceiptSpec => []CreditIsEarned
<1>1. ReceiptInv => CreditIsEarned
  BY DEF ReceiptInv, CreditIsEarned
<1>2. QED
  BY <1>1, InitReceiptInv, NextReceiptInv, PTL DEF ReceiptSpec

------------------------------------------------------------------------------
(* The credentials of a store                                                 *)

(* A grant nobody spent and no row or copy has yet: in the hands of who asked for it. *)
FreshGrant(g) ==
    g # NoGrant => /\ grants[g].refresh # "rotated"
                   /\ config.refresh # g
                   /\ \A w \in GatewayWorkers : caller[w].copy.refresh # g

HandsHoldFresh ==
    /\ \A w \in GatewayWorkers : FreshGrant(caller[w].got)
    /\ FreshGrant(oauth.got)
    /\ \A w \in GatewayWorkers : caller[w].got # NoGrant =>
          /\ caller[w].got # oauth.got
          /\ \A v \in GatewayWorkers : v # w => caller[v].got # caller[w].got

(* What was refused stays refused. *)
RefusedIsDead ==
    \A w \in GatewayWorkers : caller[w].at = "refused" => ~ Accepts(caller[w].copy.refresh)

(* Who saves, and nobody else, has something to save. *)
SaversHold ==
    /\ \A w \in GatewayWorkers : caller[w].at = "save" <=> caller[w].got # NoGrant
    /\ \A w \in GatewayWorkers : caller[w].at = "save" => caller[w].copy.refresh # NoGrant
    /\ oauth.at = "exchanged" => oauth.got # NoGrant

GatewayInv ==
    /\ GatewayTypeOK
    /\ HandsHoldFresh
    /\ RefusedIsDead
    /\ SaversHold
    /\ MarkIsTrue
    /\ RotatedIsKept

(* The typing of the grants and the workers, taken apart. *)
LEMMA GatewayFacts ==
    ASSUME GatewayTypeOK
    PROVE  /\ Len(grants) \in Nat /\ DOMAIN grants = 1..Len(grants)
           /\ \A g \in 1..Len(grants) : grants[g] \in GrantRecords
           /\ \A w \in GatewayWorkers :
                 /\ caller[w] \in CallerStates(Len(grants))
                 /\ caller[w].copy \in ConfigRows(Len(grants))
                 /\ caller[w].copy.refresh \in 0..Len(grants)
                 /\ caller[w].got \in 0..Len(grants)
           /\ config.refresh \in 0..Len(grants) /\ oauth.got \in 0..Len(grants)
           /\ config.id \in 0..MaxRows
           /\ NoConfig \in ConfigRows(Len(grants)) /\ IdleCaller \in CallerStates(Len(grants))
           /\ NoConfig.id = 0 /\ NoConfig.refresh = NoGrant
           /\ IdleCaller.at = "idle" /\ IdleCaller.copy = NoConfig /\ IdleCaller.got = NoGrant
<1>1. /\ Len(grants) \in Nat /\ DOMAIN grants = 1..Len(grants)
      /\ \A g \in 1..Len(grants) : grants[g] \in GrantRecords
  BY DEF GatewayTypeOK
<1>2. \A w \in GatewayWorkers : caller[w] \in CallerStates(Len(grants))
  BY DEF GatewayTypeOK
<1>3. \A w \in GatewayWorkers : /\ caller[w].copy \in ConfigRows(Len(grants))
                                /\ caller[w].got \in 0..Len(grants)
  BY <1>2 DEF CallerStates
<1>4. \A w \in GatewayWorkers : caller[w].copy.refresh \in 0..Len(grants)
  BY <1>3 DEF ConfigRows
<1>5. /\ config.refresh \in 0..Len(grants) /\ oauth.got \in 0..Len(grants)
      /\ config.id \in 0..MaxRows
  BY DEF GatewayTypeOK, ConfigRows
<1>6. /\ NoConfig \in ConfigRows(Len(grants))
      /\ NoConfig.id = 0 /\ NoConfig.refresh = NoGrant
  BY <1>1, GatewayAssumption DEF NoConfig, ConfigRows, NoGrant
<1>7. /\ IdleCaller \in CallerStates(Len(grants))
      /\ IdleCaller.at = "idle" /\ IdleCaller.copy = NoConfig /\ IdleCaller.got = NoGrant
  <2> HIDE DEF NoConfig
  <2>1. QED
    BY <1>1, <1>6 DEF IdleCaller, CallerStates, NoGrant
<1>8. QED
  BY <1>1, <1>2, <1>3, <1>4, <1>5, <1>6, <1>7

(* More grants make room for more rows and copies. *)
LEMMA RowsGrow ==
    ASSUME NEW m \in Nat, NEW n \in Nat, m <= n
    PROVE  ConfigRows(m) \subseteq ConfigRows(n) /\ CallerStates(m) \subseteq CallerStates(n)
<1>1. ConfigRows(m) \subseteq ConfigRows(n)
  BY DEF ConfigRows
<1>2. CallerStates(m) \subseteq CallerStates(n)
  BY <1>1 DEF CallerStates
<1>3. QED
  BY <1>1, <1>2

(* What is typed for the grants given so far is typed for more of them. *)
LEMMA TypeGrows ==
    ASSUME GatewayTypeOK, NEW n \in Nat, Len(grants) <= n
    PROVE  /\ config \in ConfigRows(n)
           /\ caller \in [GatewayWorkers -> CallerStates(n)]
           /\ oauth \in [at : {"none", "started", "exchanged"}, got : 0..n]
<1>1. Len(grants) \in Nat
  BY GatewayFacts
<1>2. ConfigRows(Len(grants)) \subseteq ConfigRows(n) /\ CallerStates(Len(grants)) \subseteq CallerStates(n)
  BY <1>1, RowsGrow
<1>3. QED
  BY <1>1, <1>2 DEF GatewayTypeOK

(* What Mercado Pago keeps once it gives another grant. *)
LEMMA GrantGiven ==
    ASSUME NEW gs \in Seq(GrantRecords), NEW a \in MpAccounts
    PROVE  /\ WithGrant(gs, a) \in Seq(GrantRecords)
           /\ Len(WithGrant(gs, a)) = Len(gs) + 1
           /\ \A g \in 1..Len(gs) : WithGrant(gs, a)[g] = gs[g]
           /\ WithGrant(gs, a)[Len(gs) + 1].refresh = "live"
           /\ WithGrant(gs, a)[Len(gs) + 1].account = a
<1> DEFINE r == [account |-> a, refresh |-> "live", access |-> TRUE]
<1>1. r \in GrantRecords /\ r.refresh = "live" /\ r.account = a
  BY DEF GrantRecords, RefreshStates
<1>2. WithGrant(gs, a) = Append(gs, r)
  BY DEF WithGrant
<1> HIDE DEF r
<1>3. QED
  BY <1>1, <1>2, AppendProperties

(* Changing the state of one refresh token changes that token alone. *)
LEMMA GrantMarked ==
    ASSUME NEW t \in 1..Len(grants), NEW into \in RefreshStates, GatewayTypeOK
    PROVE  /\ [grants EXCEPT ![t].refresh = into] \in Seq(GrantRecords)
           /\ Len([grants EXCEPT ![t].refresh = into]) = Len(grants)
           /\ \A g \in 1..Len(grants) :
                 /\ [grants EXCEPT ![t].refresh = into][g].refresh
                       = IF g = t THEN into ELSE grants[g].refresh
                 /\ [grants EXCEPT ![t].refresh = into][g].account = grants[g].account
<1> DEFINE q == [grants[t] EXCEPT !.refresh = into]
           gs == [grants EXCEPT ![t].refresh = into]
<1>1. grants \in Seq(GrantRecords) /\ grants[t] \in GrantRecords /\ Len(grants) \in Nat
  BY GatewayFacts DEF GatewayTypeOK
<1>2. q \in GrantRecords /\ q.refresh = into /\ q.account = grants[t].account
  BY <1>1 DEF GrantRecords
<1>3. gs = [grants EXCEPT ![t] = q]
  OBVIOUS
<1> HIDE DEF q
<1>4. gs \in Seq(GrantRecords) /\ Len(gs) = Len(grants)
  BY <1>1, <1>2, <1>3, ExceptSeq
<1>5. \A g \in 1..Len(grants) : gs[g] = IF g = t THEN q ELSE grants[g]
  BY <1>1, <1>3
<1>6. QED
  BY <1>2, <1>4, <1>5

(* A rotation adds one live grant and changes one earlier token alone. *)
LEMMA RotationGiven ==
    ASSUME NEW t \in 1..Len(grants), NEW into \in RefreshStates, GatewayTypeOK,
           grants' = Rotated(t, into)
    PROVE  /\ grants' \in Seq(GrantRecords) /\ Len(grants') = Len(grants) + 1
           /\ \A g \in 1..Len(grants) :
                 grants'[g].refresh = IF g = t THEN into ELSE grants[g].refresh
           /\ grants'[Len(grants) + 1].refresh = "live"
<1> DEFINE gs == [grants EXCEPT ![t].refresh = into]
<1>1. /\ gs \in Seq(GrantRecords) /\ Len(gs) = Len(grants)
      /\ \A g \in 1..Len(grants) : gs[g].refresh = IF g = t THEN into ELSE grants[g].refresh
  BY GrantMarked
<1>2. grants[t].account \in MpAccounts
  BY GatewayFacts DEF GrantRecords
<1>3. grants' = WithGrant(gs, grants[t].account)
  BY DEF Rotated
<1> HIDE DEF gs
<1>4. /\ WithGrant(gs, grants[t].account) \in Seq(GrantRecords)
      /\ Len(WithGrant(gs, grants[t].account)) = Len(gs) + 1
      /\ \A g \in 1..Len(gs) : WithGrant(gs, grants[t].account)[g] = gs[g]
      /\ WithGrant(gs, grants[t].account)[Len(gs) + 1].refresh = "live"
  BY <1>1, <1>2, GrantGiven
<1>5. /\ grants' \in Seq(GrantRecords) /\ Len(grants') = Len(grants) + 1
      /\ \A g \in 1..Len(grants) : grants'[g] = gs[g]
      /\ grants'[Len(grants) + 1].refresh = "live"
  BY <1>1, <1>3, <1>4
<1>6. QED
  BY <1>1, <1>5

(* A worker moves, the row and Mercado Pago stay. *)
LEMMA CallerMoves ==
    ASSUME GatewayInv, NEW w \in GatewayWorkers, NEW x \in CallerStates(Len(grants)),
           caller' = [caller EXCEPT ![w] = x],
           UNCHANGED <<config, rows, grants, oauth, notice>>,
           caller[w].at # "save",
           x.copy \in {caller[w].copy, config, NoConfig}, x.got = NoGrant, x.at # "save",
           x.at = "refused" => ~ Accepts(x.copy.refresh)
    PROVE  GatewayInv'
<1>0. GatewayTypeOK /\ HandsHoldFresh /\ RefusedIsDead /\ SaversHold /\ MarkIsTrue /\ RotatedIsKept
  BY DEF GatewayInv
<1>1. \A v \in GatewayWorkers : caller'[v] = IF v = w THEN x ELSE caller[v]
  BY <1>0 DEF GatewayTypeOK
<1>2. GatewayTypeOK'
  BY <1>0 DEF GatewayTypeOK
<1>3. \A g : FreshGrant(g) => FreshGrant(g)'
  <2> SUFFICES ASSUME NEW g, FreshGrant(g), g # NoGrant PROVE FreshGrant(g)'
    BY DEF FreshGrant
  <2>1. x.copy.refresh # g
    BY <1>0, GatewayFacts DEF FreshGrant
  <2>2. QED
    BY <1>1, <2>1 DEF FreshGrant
<1>4. HandsHoldFresh'
  <2>1. \A v \in GatewayWorkers : caller'[v].got = IF v = w THEN NoGrant ELSE caller[v].got
    BY <1>1
  <2>2. FreshGrant(NoGrant)
    BY DEF FreshGrant
  <2>3. QED
    BY <1>0, <1>3, <2>1, <2>2 DEF HandsHoldFresh, FreshGrant
<1>5. RefusedIsDead' /\ SaversHold'
  BY <1>0, <1>1 DEF RefusedIsDead, SaversHold, Accepts
<1>6. MarkIsTrue' /\ RotatedIsKept'
  BY <1>0, <1>1 DEF MarkIsTrue, RotatedIsKept, Accepts
<1>7. QED
  BY <1>2, <1>4, <1>5, <1>6 DEF GatewayInv

(* Tokens lapse and accounts revoke: nothing comes back to life. *)
LEMMA GrantsFade ==
    ASSUME GatewayInv, grants' \in Seq(GrantRecords), Len(grants') = Len(grants),
           UNCHANGED <<config, rows, caller, oauth, notice>>,
           \A g \in 1..Len(grants) : grants'[g].refresh \in {grants[g].refresh, "revoked"}
    PROVE  GatewayInv'
<1>0. GatewayTypeOK /\ HandsHoldFresh /\ RefusedIsDead /\ SaversHold /\ MarkIsTrue /\ RotatedIsKept
  BY DEF GatewayInv
<1>1. GatewayTypeOK'
  BY <1>0 DEF GatewayTypeOK
<1>2. \A g \in 0..Len(grants) : /\ Accepts(g)' => Accepts(g)
                                /\ FreshGrant(g) => FreshGrant(g)'
  BY <1>0, GatewayFacts DEF Accepts, FreshGrant, NoGrant
<1>3. HandsHoldFresh' /\ RefusedIsDead' /\ SaversHold'
  BY <1>0, <1>2, GatewayFacts DEF HandsHoldFresh, RefusedIsDead, SaversHold
<1>4. MarkIsTrue' /\ RotatedIsKept'
  BY <1>0, <1>2, GatewayFacts DEF MarkIsTrue, RotatedIsKept, NoGrant
<1>5. QED
  BY <1>1, <1>3, <1>4 DEF GatewayInv

(* Mercado Pago gives a grant to who asked with a refresh token. *)
LEMMA Refreshes ==
    ASSUME GatewayInv, NEW w \in GatewayWorkers, caller[w].at = "refresh",
           Accepts(caller[w].copy.refresh),
           NEW into \in {"rotated", "lost"}, grants' = Rotated(caller[w].copy.refresh, into),
           NEW x \in CallerStates(Len(grants) + 1), caller' = [caller EXCEPT ![w] = x],
           x.copy \in {caller[w].copy, NoConfig}, x.at \in {"idle", "save"},
           x.got = (IF x.at = "save" THEN NewGrant ELSE NoGrant),
           into = "rotated" => x.at = "save",
           x.at = "save" => x.copy = caller[w].copy,
           UNCHANGED <<config, rows, oauth, notice>>
    PROVE  GatewayInv'
<1>a. PICK t : t = caller[w].copy.refresh
  OBVIOUS
<1>b. PICK n : n = Len(grants)
  OBVIOUS
<1>0. GatewayTypeOK /\ HandsHoldFresh /\ RefusedIsDead /\ SaversHold /\ MarkIsTrue /\ RotatedIsKept
  BY DEF GatewayInv
<1>1. n \in Nat /\ t \in 1..n /\ grants[t].refresh = "live" /\ into \in RefreshStates
  BY <1>0, <1>a, <1>b, GatewayFacts DEF Accepts, NoGrant, RefreshStates
<1>2. /\ grants' \in Seq(GrantRecords) /\ Len(grants') = n + 1
      /\ \A g \in 1..n : grants'[g].refresh = IF g = t THEN into ELSE grants[g].refresh
      /\ grants'[n + 1].refresh = "live"
  BY <1>0, <1>1, <1>a, <1>b, RotationGiven
<1>3. \A v \in GatewayWorkers : caller'[v] = IF v = w THEN x ELSE caller[v]
  BY <1>0 DEF GatewayTypeOK
<1>4. GatewayTypeOK'
  <2>1. /\ config' \in ConfigRows(n + 1)
        /\ caller \in [GatewayWorkers -> CallerStates(n + 1)]
        /\ oauth' \in [at : {"none", "started", "exchanged"}, got : 0..(n + 1)]
    BY <1>0, <1>1, <1>b, TypeGrows
  <2>2. caller' \in [GatewayWorkers -> CallerStates(n + 1)]
    BY <1>b, <2>1
  <2>3. QED
    BY <1>0, <1>2, <2>1, <2>2 DEF GatewayTypeOK
<1>5. \A g \in 0..n : g # t /\ g # NoGrant =>
        /\ grants'[g].refresh = grants[g].refresh
        /\ FreshGrant(g) => /\ config'.refresh # g
                           /\ \A v \in GatewayWorkers : caller'[v].copy.refresh # g
  <2> SUFFICES ASSUME NEW g \in 0..n, g # t, g # NoGrant
               PROVE  /\ grants'[g].refresh = grants[g].refresh
                      /\ FreshGrant(g) => /\ config'.refresh # g
                                         /\ \A v \in GatewayWorkers : caller'[v].copy.refresh # g
    OBVIOUS
  <2>1. grants'[g].refresh = grants[g].refresh
    BY <1>1, <1>2 DEF NoGrant
  <2>2. FreshGrant(g) => x.copy.refresh # g
    BY <1>0, GatewayFacts DEF FreshGrant
  <2>3. QED
    BY <1>3, <2>1, <2>2 DEF FreshGrant
<1>6. ~ Accepts(t)'
  BY <1>1, <1>2 DEF Accepts
<1>7. FreshGrant(n + 1)' /\ FreshGrant(NoGrant)'
  <2>1. \A v \in GatewayWorkers : caller'[v].copy.refresh \in 0..n
    BY <1>0, <1>1, <1>3, <1>b, GatewayFacts DEF NoGrant
  <2>2. config'.refresh \in 0..n
    BY <1>0, <1>b, GatewayFacts
  <2>3. QED
    BY <1>1, <1>2, <2>1, <2>2 DEF FreshGrant
<1>8. HandsHoldFresh'
  <2>1. \A v \in GatewayWorkers : caller[v].got \in 0..n /\ caller[v].got # t
    BY <1>0, <1>1, <1>a, <1>b, GatewayFacts DEF HandsHoldFresh, FreshGrant, NoGrant
  <2>2. oauth.got \in 0..n /\ oauth.got # t
    BY <1>0, <1>1, <1>a, <1>b, GatewayFacts DEF HandsHoldFresh, FreshGrant, NoGrant
  <2>3. x.got \in {n + 1, NoGrant}
    BY <1>b DEF NewGrant
  <2>4. \A v \in GatewayWorkers : FreshGrant(caller[v].got)'
    <3> SUFFICES ASSUME NEW v \in GatewayWorkers PROVE FreshGrant(caller[v].got)'
      OBVIOUS
    <3>1. PICK g : g = caller'[v].got
      OBVIOUS
    <3>2. FreshGrant(g)'
      <4>1. CASE v = w
        BY <1>3, <1>7, <2>3, <3>1, <4>1
      <4>2. CASE v # w
        <5>1. g = caller[v].got /\ FreshGrant(g)
          BY <1>0, <1>3, <3>1, <4>2 DEF HandsHoldFresh
        <5>2. QED
          BY <1>5, <2>1, <5>1 DEF FreshGrant
      <4>3. QED
        BY <4>1, <4>2
    <3>3. QED
      BY <3>1, <3>2 DEF FreshGrant
  <2>5. FreshGrant(oauth.got)'
    <3>1. PICK g : g = oauth.got
      OBVIOUS
    <3>2. FreshGrant(g)'
      BY <1>0, <1>5, <2>2, <3>1 DEF HandsHoldFresh, FreshGrant
    <3>3. QED
      BY <3>1, <3>2 DEF FreshGrant
  <2>6. ASSUME NEW u \in GatewayWorkers, caller'[u].got # NoGrant
        PROVE  /\ caller'[u].got # oauth'.got
               /\ \A v \in GatewayWorkers : v # u => caller'[v].got # caller'[u].got
    <3>1. CASE u = w
      BY <1>1, <1>3, <2>1, <2>2, <2>3, <2>6, <3>1
    <3>2. CASE u # w
      <4>1. caller'[u].got = caller[u].got
        BY <1>3, <3>2
      <4>2. /\ caller[u].got # oauth.got
            /\ \A v \in GatewayWorkers : v # u => caller[v].got # caller[u].got
        BY <1>0, <2>6, <4>1 DEF HandsHoldFresh
      <4>3. QED
        BY <1>1, <1>3, <2>1, <2>3, <2>6, <4>1, <4>2
    <3>3. QED
      BY <3>1, <3>2
  <2>7. QED
    BY <2>4, <2>5, <2>6 DEF HandsHoldFresh
<1>9. RefusedIsDead' /\ SaversHold'
  <2>1. SaversHold'
    BY <1>0, <1>1, <1>3, <1>a, <1>b DEF SaversHold, NewGrant, NoGrant
  <2>2. ASSUME NEW v \in GatewayWorkers, caller'[v].at = "refused"
        PROVE  ~ Accepts(caller[v].copy.refresh)'
    <3>1. PICK g : g = caller'[v].copy.refresh
      OBVIOUS
    <3>2. caller'[v] = caller[v] /\ g \in 0..n
      BY <1>0, <1>3, <1>b, <2>2, <3>1, GatewayFacts
    <3>3. ~ Accepts(g)
      BY <1>0, <2>2, <3>1, <3>2 DEF RefusedIsDead
    <3>4. ~ Accepts(g)'
      BY <1>1, <1>2, <1>5, <3>2, <3>3 DEF Accepts
    <3>5. QED
      BY <3>1, <3>4 DEF Accepts
  <2>3. QED
    BY <2>1, <2>2 DEF RefusedIsDead
<1>10. MarkIsTrue'
  <2>1. PICK g : g = config.refresh
    OBVIOUS
  <2>2. g \in 0..n /\ (Accepts(g)' => Accepts(g))
    BY <1>0, <1>1, <1>2, <1>5, <1>b, <2>1, GatewayFacts DEF Accepts
  <2>3. QED
    BY <1>0, <2>1, <2>2 DEF MarkIsTrue, Accepts
<1>11. RotatedIsKept'
  <2> SUFFICES ASSUME config.refresh # NoGrant, grants'[config.refresh].refresh = "rotated"
               PROVE  \E v \in GatewayWorkers :
                         caller'[v].at = "save" /\ caller'[v].copy.refresh = config.refresh
    BY DEF RotatedIsKept
  <2>1. CASE config.refresh = t
    BY <1>1, <1>2, <1>3, <1>a, <2>1
  <2>2. CASE config.refresh # t
    <3>1. grants[config.refresh].refresh = "rotated"
      BY <1>0, <1>1, <1>2, <1>b, <2>2, GatewayFacts DEF NoGrant
    <3>2. PICK v \in GatewayWorkers : caller[v].at = "save" /\ caller[v].copy.refresh = config.refresh
      BY <1>0, <3>1 DEF RotatedIsKept
    <3>3. QED
      BY <1>3, <3>2
  <2>3. QED
    BY <2>1, <2>2
<1>12. QED
  BY <1>4, <1>8, <1>9, <1>10, <1>11 DEF GatewayInv

(* What a refresh writes is a row of the same configuration, with the tokens of its grant. *)
LEMMA AppliedRow ==
    ASSUME GatewayTypeOK, NEW row \in ConfigRows(Len(grants)),
           NEW copy \in ConfigRows(Len(grants)), NEW g \in 1..Len(grants)
    PROVE  /\ AppliedPayload(row, copy, g) \in ConfigRows(Len(grants))
           /\ AppliedPayload(row, copy, g).id = row.id
           /\ AppliedPayload(row, copy, g).refresh = g
           /\ AppliedPayload(row, copy, g).broken = FALSE
<1>1. PICK a, m : /\ a = (IF grants[g].account # copy.account THEN grants[g].account ELSE row.account)
                  /\ m = (IF copy.mode # "oauth" THEN "oauth" ELSE row.mode)
  OBVIOUS
<1>2. a \in MpAccounts \cup {NoAccountId} /\ m \in {"manual", "oauth"}
  <2>1. grants[g].account \in MpAccounts
    BY GatewayFacts DEF GrantRecords
  <2>2. row.account \in MpAccounts \cup {NoAccountId} /\ row.mode \in {"manual", "oauth"}
    BY DEF ConfigRows
  <2>3. QED
    BY <1>1, <2>1, <2>2
<1>3. AppliedPayload(row, copy, g)
        = [row EXCEPT !.access = g, !.refresh = g, !.account = a, !.mode = m, !.broken = FALSE]
  BY <1>1 DEF AppliedPayload
<1>4. Len(grants) \in Nat
  BY GatewayFacts
<1>5. AppliedPayload(row, copy, g) = [id |-> row.id, access |-> g, refresh |-> g, account |-> a,
                                     mode |-> m, broken |-> FALSE]
  BY <1>3 DEF ConfigRows
<1>6. row.id \in 0..MaxRows /\ g \in 0..Len(grants)
  BY <1>4 DEF ConfigRows
<1>7. QED
  BY <1>2, <1>5, <1>6 DEF ConfigRows

(* The row is rewritten with tokens nobody spent, or with none, and the mark is gone. *)
LEMMA RowSaved ==
    ASSUME GatewayInv, NEW row \in ConfigRows(Len(grants)), config' = row, ~ row.broken,
           FreshGrant(row.refresh),
           rows' \in 0..MaxRows, UNCHANGED <<grants, notice>>,
           caller' \in [GatewayWorkers -> CallerStates(Len(grants))],
           oauth' \in [at : {"none", "started", "exchanged"}, got : 0..Len(grants)],
           \A w \in GatewayWorkers :
              \/ caller'[w] = caller[w] /\ (row.refresh = NoGrant \/ caller[w].got # row.refresh)
              \/ /\ caller'[w].got = NoGrant /\ caller'[w].at \in {"idle", "call"}
                 /\ caller'[w].copy.refresh \in {row.refresh, NoGrant},
           \/ oauth' = oauth /\ (row.refresh = NoGrant \/ oauth.got # row.refresh)
           \/ oauth'.got = NoGrant /\ oauth'.at = "none"
    PROVE  GatewayInv'
<1>0. GatewayTypeOK /\ HandsHoldFresh /\ RefusedIsDead /\ SaversHold /\ MarkIsTrue /\ RotatedIsKept
  BY DEF GatewayInv
<1>1. GatewayTypeOK'
  BY <1>0 DEF GatewayTypeOK
<1>2. \A g : FreshGrant(g) /\ g # NoGrant /\ g # row.refresh =>
         /\ config'.refresh # g
         /\ \A w \in GatewayWorkers : caller'[w].copy.refresh # g
  BY DEF FreshGrant
<1>3. \A w \in GatewayWorkers : FreshGrant(caller[w].got)'
  <2> SUFFICES ASSUME NEW w \in GatewayWorkers, caller'[w].got # NoGrant
               PROVE  FreshGrant(caller[w].got)'
    BY DEF FreshGrant
  <2>1. caller'[w] = caller[w] /\ (row.refresh = NoGrant \/ caller[w].got # row.refresh)
    OBVIOUS
  <2>2. FreshGrant(caller[w].got) /\ caller[w].got # NoGrant /\ caller[w].got # row.refresh
    BY <1>0, <2>1 DEF HandsHoldFresh
  <2>3. QED
    BY <1>2, <2>1, <2>2 DEF FreshGrant
<1>4. FreshGrant(oauth.got)'
  <2>1. CASE oauth'.got = NoGrant
    BY <2>1 DEF FreshGrant
  <2>2. CASE oauth'.got # NoGrant
    <3>1. oauth' = oauth /\ FreshGrant(oauth.got) /\ oauth.got # NoGrant /\ oauth.got # row.refresh
      BY <1>0, <2>2 DEF HandsHoldFresh
    <3>2. QED
      BY <1>2, <3>1 DEF FreshGrant
  <2>3. QED
    BY <2>1, <2>2
<1>5. HandsHoldFresh'
  BY <1>0, <1>3, <1>4 DEF HandsHoldFresh
<1>6. RefusedIsDead' /\ SaversHold'
  BY <1>0 DEF RefusedIsDead, SaversHold, Accepts
<1>7. MarkIsTrue' /\ RotatedIsKept'
  BY DEF MarkIsTrue, RotatedIsKept, FreshGrant
<1>8. QED
  BY <1>1, <1>5, <1>6, <1>7 DEF GatewayInv

(* Mercado Pago gives a grant nobody spent anything for. *)
LEMMA GrantArrives ==
    ASSUME GatewayInv, NEW a \in MpAccounts, grants' = WithGrant(grants, a),
           config' \in ConfigRows(Len(grants) + 1), rows' \in 0..MaxRows,
           UNCHANGED <<caller, notice>>,
           \/ config' = config
           \/ ~ config'.broken /\ config'.refresh = NoGrant,
           oauth' \in [at : {"none", "started", "exchanged"}, got : 0..(Len(grants) + 1)],
           \/ oauth' = oauth
           \/ oauth'.got = NewGrant
    PROVE  GatewayInv'
<1>b. PICK n : n = Len(grants)
  OBVIOUS
<1>0. GatewayTypeOK /\ HandsHoldFresh /\ RefusedIsDead /\ SaversHold /\ MarkIsTrue /\ RotatedIsKept
  BY DEF GatewayInv
<1>1. /\ n \in Nat /\ grants' \in Seq(GrantRecords) /\ Len(grants') = n + 1
      /\ \A g \in 1..n : grants'[g] = grants[g]
      /\ grants'[n + 1].refresh = "live"
  BY <1>0, <1>b, GrantGiven, GatewayFacts DEF GatewayTypeOK
<1>2. GatewayTypeOK'
  <2>1. caller \in [GatewayWorkers -> CallerStates(n + 1)]
    BY <1>0, <1>1, <1>b, TypeGrows
  <2>2. QED
    BY <1>0, <1>1, <1>b, <2>1 DEF GatewayTypeOK
<1>3. /\ config.refresh \in 0..n /\ oauth.got \in 0..n
      /\ \A w \in GatewayWorkers : caller[w].copy.refresh \in 0..n /\ caller[w].got \in 0..n
  BY <1>0, <1>b, GatewayFacts
<1>4. \A w \in GatewayWorkers : FreshGrant(caller[w].got)'
  BY <1>0, <1>1, <1>3 DEF HandsHoldFresh, FreshGrant, NoGrant
<1>5. FreshGrant(oauth.got)'
  <2>1. CASE oauth' = oauth
    BY <1>0, <1>1, <1>3, <2>1 DEF HandsHoldFresh, FreshGrant, NoGrant
  <2>2. CASE oauth'.got = NewGrant
    BY <1>1, <1>3, <1>b, <2>2 DEF FreshGrant, NewGrant, NoGrant
  <2>3. QED
    BY <2>1, <2>2
<1>6. HandsHoldFresh'
  BY <1>0, <1>1, <1>3, <1>4, <1>5, <1>b DEF HandsHoldFresh, NewGrant, NoGrant
<1>7. RefusedIsDead' /\ SaversHold'
  BY <1>0, <1>1, <1>3, <1>b DEF RefusedIsDead, SaversHold, Accepts, NewGrant, NoGrant
<1>8. MarkIsTrue' /\ RotatedIsKept'
  BY <1>0, <1>1, <1>3 DEF MarkIsTrue, RotatedIsKept, Accepts, NoGrant
<1>9. QED
  BY <1>2, <1>6, <1>7, <1>8 DEF GatewayInv

(* The invariant holds of a store before any refresh. *)
LEMMA InitGatewayInv == GatewayInit => GatewayInv
<1> SUFFICES ASSUME GatewayInit PROVE GatewayInv
  OBVIOUS
<1>1. grants = <<>> /\ grants \in Seq(GrantRecords) /\ Len(grants) = 0
  BY DEF GatewayInit
<1>2. NoConfig \in ConfigRows(0) /\ NoConfig.refresh = NoGrant /\ NoConfig.id = 0
  BY GatewayAssumption DEF NoConfig, ConfigRows, NoGrant
<1>3. IdleCaller \in CallerStates(0) /\ IdleCaller.got = NoGrant /\ IdleCaller.at = "idle"
  <2> HIDE DEF NoConfig
  <2>1. QED
    BY <1>2 DEF IdleCaller, CallerStates, NoGrant
<1>4. GatewayTypeOK
  BY <1>1, <1>2, <1>3, GatewayAssumption DEF GatewayInit, GatewayTypeOK, NoGrant
<1>5. QED
  BY <1>2, <1>3, <1>4 DEF GatewayInit, GatewayInv, HandsHoldFresh, FreshGrant, RefusedIsDead,
                          SaversHold, MarkIsTrue, RotatedIsKept

(* Refreshes, reconnections, marks and whatever Mercado Pago does keep the invariant. *)
LEMMA NextGatewayInv == GatewayInv /\ [GatewayNext]_gatewayVars => GatewayInv'
<1> SUFFICES ASSUME GatewayInv, [GatewayNext]_gatewayVars PROVE GatewayInv'
  OBVIOUS
<1>0. GatewayTypeOK /\ HandsHoldFresh /\ RefusedIsDead /\ SaversHold /\ MarkIsTrue /\ RotatedIsKept
  BY DEF GatewayInv
<1>f. /\ Len(grants) \in Nat
      /\ \A w \in GatewayWorkers : /\ caller[w] \in CallerStates(Len(grants))
                                   /\ caller[w].copy \in ConfigRows(Len(grants))
      /\ config \in ConfigRows(Len(grants))
      /\ IdleCaller \in CallerStates(Len(grants)) /\ IdleCaller.at = "idle"
      /\ IdleCaller.copy = NoConfig /\ IdleCaller.got = NoGrant
  BY <1>0, GatewayFacts DEF GatewayTypeOK
<1>1. ASSUME NEW g \in 1..MaxGrants, AccessExpires(g) \/ GrantRevoked(g) PROVE GatewayInv'
  <2>1. g \in 1..Len(grants) /\ grants[g] \in GrantRecords /\ grants \in Seq(GrantRecords)
    BY <1>0, <1>1, GatewayFacts DEF AccessExpires, GrantRevoked, GatewayTypeOK
  <2>2. PICK q \in GrantRecords : /\ q.refresh \in {grants[g].refresh, "revoked"}
                                 /\ grants' = [grants EXCEPT ![g] = q]
    <3>1. CASE AccessExpires(g)
      <4>1. [grants[g] EXCEPT !.access = FALSE] \in GrantRecords
        BY <2>1 DEF GrantRecords
      <4>2. [grants[g] EXCEPT !.access = FALSE].refresh = grants[g].refresh
        BY <2>1 DEF GrantRecords
      <4>3. grants' = [grants EXCEPT ![g] = [grants[g] EXCEPT !.access = FALSE]]
        BY <3>1 DEF AccessExpires
      <4>4. QED
        BY <4>1, <4>2, <4>3
    <3>2. CASE GrantRevoked(g)
      <4> DEFINE q == [grants[g] EXCEPT !.access = FALSE, !.refresh = "revoked"]
      <4>1. q \in GrantRecords /\ q.refresh = "revoked"
        BY <2>1 DEF GrantRecords, RefreshStates
      <4>2. grants' = [grants EXCEPT ![g] = q]
        BY <2>1, <3>2 DEF GrantRevoked
      <4> HIDE DEF q
      <4>3. QED
        BY <4>1, <4>2
    <3>3. QED
      BY <1>1, <3>1, <3>2
  <2>3. /\ grants' \in Seq(GrantRecords) /\ Len(grants') = Len(grants)
        /\ \A h \in 1..Len(grants) : grants'[h] = IF h = g THEN q ELSE grants[h]
    BY <2>1, <2>2, ExceptSeq
  <2>4. UNCHANGED <<config, rows, caller, oauth, notice>>
    BY <1>1 DEF AccessExpires, GrantRevoked
  <2>5. \A h \in 1..Len(grants) : grants'[h].refresh \in {grants[h].refresh, "revoked"}
    BY <2>2, <2>3
  <2>6. QED
    BY <2>3, <2>4, <2>5, GrantsFade
<1>2. ASSUME NEW w \in GatewayWorkers, PreparePreference(w) \/ LoadGatewayConfigs(w) PROVE GatewayInv'
  <2> DEFINE x == [IdleCaller EXCEPT !.at = "call", !.copy = config]
  <2>1. /\ caller[w].at = "idle" /\ caller' = [caller EXCEPT ![w] = x]
        /\ UNCHANGED <<config, rows, grants, oauth, notice>>
    BY <1>2 DEF PreparePreference, LoadGatewayConfigs
  <2>2. x \in CallerStates(Len(grants)) /\ x.copy = config /\ x.at = "call" /\ x.got = NoGrant
    BY <1>f DEF CallerStates
  <2> HIDE DEF x
  <2>3. QED
    BY <2>1, <2>2, CallerMoves
<1>3. ASSUME NEW w \in GatewayWorkers, RefreshFromPanel(w) PROVE GatewayInv'
  <2> DEFINE x == [IdleCaller EXCEPT !.at = "refresh", !.copy = config, !.retried = TRUE]
  <2>1. /\ caller[w].at = "idle" /\ caller' = [caller EXCEPT ![w] = x]
        /\ UNCHANGED <<config, rows, grants, oauth, notice>>
    BY <1>3 DEF RefreshFromPanel
  <2>2. x \in CallerStates(Len(grants)) /\ x.copy = config /\ x.at = "refresh" /\ x.got = NoGrant
    BY <1>f DEF CallerStates
  <2> HIDE DEF x
  <2>3. QED
    BY <2>1, <2>2, CallerMoves
<1>4. ASSUME NEW w \in GatewayWorkers, EndCall(w), caller[w].at # "save",
             UNCHANGED <<config, rows, grants, oauth, notice>>
      PROVE  GatewayInv'
  BY <1>4, <1>f, CallerMoves DEF EndCall
<1>5. ASSUME NEW w \in GatewayWorkers, CallFails(w) \/ MarkNotSaved(w) PROVE GatewayInv'
  BY <1>4, <1>5 DEF CallFails, MarkNotSaved
<1>6. ASSUME NEW w \in GatewayWorkers, CallRefused(w) PROVE GatewayInv'
  <2>1. CASE EndCall(w)
    BY <1>4, <1>6, <2>1 DEF CallRefused
  <2>2. CASE caller' = [caller EXCEPT ![w].at = "refresh"]
    <3> DEFINE x == [caller[w] EXCEPT !.at = "refresh"]
    <3>1. /\ caller[w].at = "call" /\ caller' = [caller EXCEPT ![w] = x]
          /\ UNCHANGED <<config, rows, grants, oauth, notice>>
      BY <1>6, <2>2 DEF CallRefused
    <3>2. x \in CallerStates(Len(grants)) /\ x.copy = caller[w].copy /\ x.at = "refresh"
          /\ x.got = caller[w].got
      BY <1>f DEF CallerStates
    <3>3. caller[w].got = NoGrant
      BY <1>0, <3>1 DEF SaversHold
    <3> HIDE DEF x
    <3>4. QED
      BY <3>1, <3>2, <3>3, CallerMoves
  <2>3. QED
    BY <1>6, <2>1, <2>2 DEF CallRefused
<1>7. ASSUME NEW w \in GatewayWorkers, CallAnswered(w) PROVE GatewayInv'
  <2>1. CASE EndCall(w)
    BY <1>4, <1>7, <2>1 DEF CallAnswered
  <2>2. CASE caller' = [caller EXCEPT ![w].retried = FALSE]
    <3> DEFINE x == [caller[w] EXCEPT !.retried = FALSE]
    <3>1. /\ caller[w].at = "call" /\ caller' = [caller EXCEPT ![w] = x]
          /\ UNCHANGED <<config, rows, grants, oauth, notice>>
      BY <1>7, <2>2 DEF CallAnswered
    <3>2. x \in CallerStates(Len(grants)) /\ x.copy = caller[w].copy /\ x.at = caller[w].at
          /\ x.got = caller[w].got
      BY <1>f DEF CallerStates
    <3>3. caller[w].got = NoGrant
      BY <1>0, <3>1 DEF SaversHold
    <3> HIDE DEF x
    <3>4. QED
      BY <3>1, <3>2, <3>3, CallerMoves
  <2>3. QED
    BY <1>7, <2>1, <2>2 DEF CallAnswered
<1>8. ASSUME NEW w \in GatewayWorkers, RefreshRefused(w) PROVE GatewayInv'
  <2> DEFINE x == [caller[w] EXCEPT !.at = "refused"]
  <2>1. /\ caller[w].at = "refresh" /\ caller' = [caller EXCEPT ![w] = x]
        /\ ~ Accepts(caller[w].copy.refresh)
        /\ UNCHANGED <<config, rows, grants, oauth, notice>>
    BY <1>8 DEF RefreshRefused
  <2>2. x \in CallerStates(Len(grants)) /\ x.copy = caller[w].copy /\ x.at = "refused"
        /\ x.got = caller[w].got
    BY <1>f DEF CallerStates
  <2>3. caller[w].got = NoGrant
    BY <1>0, <2>1 DEF SaversHold
  <2> HIDE DEF x
  <2>4. QED
    BY <2>1, <2>2, <2>3, CallerMoves
<1>9. ASSUME NEW w \in GatewayWorkers, RefreshAccepted(w) PROVE GatewayInv'
  <2> DEFINE x == [caller[w] EXCEPT !.at = "save", !.got = NewGrant]
  <2>1. /\ caller[w].at = "refresh" /\ Accepts(caller[w].copy.refresh)
        /\ grants' = Rotated(caller[w].copy.refresh, "rotated")
        /\ UNCHANGED <<config, rows, oauth, notice>>
    BY <1>9 DEF RefreshAccepted
  <2>2. caller' = [caller EXCEPT ![w] = x]
    BY <1>9 DEF RefreshAccepted
  <2>3. caller[w] \in CallerStates(Len(grants) + 1) /\ NewGrant \in 0..(Len(grants) + 1)
    BY <1>f, RowsGrow DEF NewGrant
  <2>4. /\ x \in CallerStates(Len(grants) + 1) /\ x.copy = caller[w].copy /\ x.at = "save"
        /\ x.got = NewGrant
    BY <2>3 DEF CallerStates
  <2> HIDE DEF x
  <2>5. QED
    BY <2>1, <2>2, <2>4, Refreshes
<1>10. ASSUME NEW w \in GatewayWorkers, RefreshAnswerLost(w) PROVE GatewayInv'
  <2>1. /\ caller[w].at = "refresh" /\ Accepts(caller[w].copy.refresh)
        /\ grants' = Rotated(caller[w].copy.refresh, "lost")
        /\ UNCHANGED <<config, rows, oauth, notice>>
        /\ caller' = [caller EXCEPT ![w] = IdleCaller]
    BY <1>10 DEF RefreshAnswerLost, EndCall
  <2>2. IdleCaller \in CallerStates(Len(grants) + 1)
    BY <1>f, RowsGrow
  <2>3. QED
    BY <1>f, <2>1, <2>2, Refreshes
<1>11. ASSUME NEW w \in GatewayWorkers, PersistRefresh(w) PROVE GatewayInv'
  <2>1. PICK g : g = caller[w].got
    OBVIOUS
  <2>2. g # NoGrant /\ g \in 1..Len(grants) /\ FreshGrant(g)
    BY <1>0, <1>11, <2>1, GatewayFacts DEF PersistRefresh, SaversHold, HandsHoldFresh, NoGrant
  <2>3. PICK row : row = AppliedPayload(config, caller[w].copy, g)
    OBVIOUS
  <2>4. row \in ConfigRows(Len(grants)) /\ row.refresh = g /\ ~ row.broken
    <3>1. /\ AppliedPayload(config, caller[w].copy, g) \in ConfigRows(Len(grants))
          /\ AppliedPayload(config, caller[w].copy, g).refresh = g
          /\ AppliedPayload(config, caller[w].copy, g).broken = FALSE
      BY <1>0, <1>f, <2>2, AppliedRow
    <3>2. QED
      BY <2>3, <3>1
  <2>5. config' = row /\ UNCHANGED <<rows, grants, oauth, notice>>
    BY <1>11, <2>1, <2>3 DEF PersistRefresh
  <2>6. PICK x \in CallerStates(Len(grants)) :
          /\ caller' = [caller EXCEPT ![w] = x]
          /\ x.got = NoGrant /\ x.at \in {"idle", "call"} /\ x.copy.refresh \in {g, NoGrant}
    <3>1. CASE caller[w].retried
      <4>1. IdleCaller.copy.refresh = NoGrant
        BY <1>0, <1>f, GatewayFacts
      <4>2. caller' = [caller EXCEPT ![w] = IdleCaller]
        BY <1>11, <3>1 DEF PersistRefresh, EndCall
      <4>3. QED
        BY <1>f, <4>1, <4>2
    <3>2. CASE ~ caller[w].retried
      <4>1. PICK c : c = AppliedPayload(caller[w].copy, caller[w].copy, g)
        OBVIOUS
      <4>2. c \in ConfigRows(Len(grants)) /\ c.refresh = g
        BY <1>0, <1>f, <2>2, <4>1, AppliedRow
      <4> DEFINE x == [caller[w] EXCEPT !.at = "call", !.retried = TRUE, !.got = NoGrant, !.copy = c]
      <4>3. caller' = [caller EXCEPT ![w] = x]
        BY <1>11, <2>1, <3>2, <4>1 DEF PersistRefresh
      <4>4. x \in CallerStates(Len(grants)) /\ x.got = NoGrant /\ x.at = "call" /\ x.copy = c
        BY <1>f, <4>2 DEF CallerStates, NoGrant
      <4> HIDE DEF x
      <4>5. QED
        BY <4>2, <4>3, <4>4
    <3>3. QED
      BY <3>1, <3>2
  <2>7. \A v \in GatewayWorkers : caller'[v] = IF v = w THEN x ELSE caller[v]
    BY <1>0, <2>6 DEF GatewayTypeOK
  <2>8. /\ caller' \in [GatewayWorkers -> CallerStates(Len(grants))]
        /\ rows' \in 0..MaxRows
        /\ oauth' \in [at : {"none", "started", "exchanged"}, got : 0..Len(grants)]
    BY <1>0, <2>5, <2>6 DEF GatewayTypeOK
  <2>9. /\ oauth.got # g
        /\ \A v \in GatewayWorkers : v # w => caller[v].got # g
    BY <1>0, <2>1, <2>2 DEF HandsHoldFresh
  <2>10. QED
    BY <2>2, <2>4, <2>5, <2>6, <2>7, <2>8, <2>9, RowSaved
<1>12. ASSUME OAuthCallback PROVE GatewayInv'
  <2>1. PICK g : g = oauth.got
    OBVIOUS
  <2>2. g # NoGrant /\ g \in 1..Len(grants) /\ FreshGrant(g)
    BY <1>0, <1>12, <2>1, GatewayFacts DEF OAuthCallback, SaversHold, HandsHoldFresh, NoGrant
  <2>3. rows' \in 0..MaxRows
    BY <1>0, <1>12, GatewayAssumption DEF OAuthCallback, GatewayTypeOK
  <2>4. PICK old \in ConfigRows(Len(grants)) : config' = AppliedPayload(old, old, g)
    <3> DEFINE new == [NoConfig EXCEPT !.id = rows + 1, !.mode = "oauth"]
    <3>1. CASE config.id # 0
      BY <1>f, <1>12, <2>1, <3>1 DEF OAuthCallback
    <3>2. CASE config.id = 0
      <4>1. rows + 1 \in 0..MaxRows
        BY <1>0, <1>12, <3>2, GatewayAssumption DEF OAuthCallback, GatewayTypeOK
      <4>2. NoConfig \in ConfigRows(Len(grants))
        BY <1>0, GatewayFacts
      <4>3. new \in ConfigRows(Len(grants))
        <5> HIDE DEF NoConfig
        <5>1. QED
          BY <4>1, <4>2 DEF ConfigRows
      <4>4. config' = AppliedPayload(new, new, g)
        BY <1>12, <2>1, <3>2 DEF OAuthCallback
      <4> HIDE DEF new
      <4>5. QED
        BY <4>3, <4>4
    <3>3. QED
      BY <3>1, <3>2
  <2>5. config' \in ConfigRows(Len(grants)) /\ config'.refresh = g /\ ~ config'.broken
    BY <1>0, <2>2, <2>4, AppliedRow
  <2>6. UNCHANGED <<grants, caller, notice>> /\ oauth' = [at |-> "none", got |-> NoGrant]
    BY <1>12 DEF OAuthCallback
  <2>7. /\ caller' \in [GatewayWorkers -> CallerStates(Len(grants))]
        /\ oauth' \in [at : {"none", "started", "exchanged"}, got : 0..Len(grants)]
    BY <1>0, <1>f, <2>6 DEF GatewayTypeOK, NoGrant
  <2>8. \A v \in GatewayWorkers : caller[v].got # g
    BY <1>0, <2>1, <2>2 DEF HandsHoldFresh
  <2>9. PICK row : row = config'
    OBVIOUS
  <2>10. QED
    BY <2>2, <2>3, <2>5, <2>6, <2>7, <2>8, <2>9, RowSaved
<1>13. ASSUME DisconnectOAuth PROVE GatewayInv'
  <2>1. /\ config' = NoConfig /\ NoConfig \in ConfigRows(Len(grants)) /\ NoConfig.refresh = NoGrant
        /\ ~ NoConfig.broken /\ FreshGrant(NoGrant)
        /\ UNCHANGED <<rows, grants, caller, oauth, notice>>
    BY <1>0, <1>13, GatewayFacts DEF DisconnectOAuth, NoConfig, FreshGrant
  <2>2. /\ rows' \in 0..MaxRows
        /\ caller' \in [GatewayWorkers -> CallerStates(Len(grants))]
        /\ oauth' \in [at : {"none", "started", "exchanged"}, got : 0..Len(grants)]
    BY <1>0, <2>1 DEF GatewayTypeOK
  <2>3. QED
    BY <2>1, <2>2, RowSaved
<1>14. ASSUME NEW a \in MpAccounts, ExchangeCode(a) PROVE GatewayInv'
  <2>1. /\ oauth' = [at |-> "exchanged", got |-> NewGrant] /\ grants' = WithGrant(grants, a)
        /\ UNCHANGED <<config, rows, caller, notice>>
    BY <1>14 DEF ExchangeCode
  <2>2. config \in ConfigRows(Len(grants) + 1) /\ rows \in 0..MaxRows
    BY <1>f, RowsGrow, <1>0 DEF GatewayTypeOK
  <2>3. oauth' \in [at : {"none", "started", "exchanged"}, got : 0..(Len(grants) + 1)]
    BY <1>f, <2>1 DEF NewGrant
  <2>4. oauth'.got = NewGrant
    BY <2>1
  <2>5. QED
    BY <2>1, <2>2, <2>3, <2>4, GrantArrives
<1>15. ASSUME NEW a \in MpAccounts, UpsertGatewayConfig(a) PROVE GatewayInv'
  <2>1. /\ grants' = WithGrant(grants, a) /\ UNCHANGED <<caller, oauth, notice>>
    BY <1>15 DEF UpsertGatewayConfig
  <2>2. PICK i : i = IF config.id # 0 THEN config.id ELSE rows + 1
    OBVIOUS
  <2>3. i \in 0..MaxRows /\ rows' \in 0..MaxRows
    BY <1>0, <1>15, <2>2, GatewayFacts, GatewayAssumption DEF UpsertGatewayConfig, GatewayTypeOK
  <2> DEFINE new == [NoConfig EXCEPT !.id = i, !.access = NewGrant]
  <2>4. config' = new
    BY <1>15, <2>2 DEF UpsertGatewayConfig
  <2>5. new \in ConfigRows(Len(grants) + 1) /\ ~ new.broken /\ new.refresh = NoGrant
    <3>1. NewGrant \in 0..(Len(grants) + 1)
      BY <1>f DEF NewGrant
    <3>2. NoConfig \in ConfigRows(Len(grants) + 1)
      BY <1>0, <1>f, GatewayFacts, RowsGrow
    <3>3. ~ NoConfig.broken /\ NoConfig.refresh = NoGrant
      BY DEF NoConfig
    <3> HIDE DEF NoConfig
    <3>4. QED
      BY <2>3, <3>1, <3>2, <3>3 DEF ConfigRows
  <2> HIDE DEF new
  <2>6. oauth' \in [at : {"none", "started", "exchanged"}, got : 0..(Len(grants) + 1)]
    BY <1>0, <1>f, <2>1 DEF GatewayTypeOK
  <2>7. QED
    BY <2>1, <2>3, <2>4, <2>5, <2>6, GrantArrives
<1>16. ASSUME NEW w \in GatewayWorkers, PersistFails(w) PROVE GatewayInv'
  <2>1. PICK t : t = caller[w].copy.refresh
    OBVIOUS
  <2>2. PICK n : n = Len(grants)
    OBVIOUS
  <2>3. /\ caller[w].at = "save" /\ grants' = [grants EXCEPT ![t].refresh = "lost"]
        /\ caller' = [caller EXCEPT ![w] = IdleCaller]
        /\ UNCHANGED <<config, rows, oauth, notice>>
    BY <1>16, <2>1 DEF PersistFails, EndCall
  <2>4. t \in 0..n /\ n \in Nat /\ grants \in Seq(GrantRecords) /\ DOMAIN grants = 1..n
    BY <1>0, <2>1, <2>2, GatewayFacts DEF GatewayTypeOK
  <2>5. /\ grants' \in Seq(GrantRecords) /\ Len(grants') = n
        /\ \A g \in 1..n : grants'[g].refresh = IF g = t THEN "lost" ELSE grants[g].refresh
    <3>1. t \in 1..n
      BY <1>0, <2>1, <2>3, <2>4 DEF SaversHold, NoGrant
    <3>2. QED
      BY <1>0, <2>2, <2>3, <3>1, GrantMarked, ZenonT(60) DEF RefreshStates
  <2>6. \A v \in GatewayWorkers : caller'[v] = IF v = w THEN IdleCaller ELSE caller[v]
    BY <1>0, <2>3 DEF GatewayTypeOK
  <2>7. GatewayTypeOK'
    BY <1>0, <1>f, <2>2, <2>3, <2>5 DEF GatewayTypeOK
  <2>8. /\ config.refresh \in 0..n /\ oauth.got \in 0..n
        /\ \A v \in GatewayWorkers : caller[v].copy.refresh \in 0..n /\ caller[v].got \in 0..n
        /\ IdleCaller.copy.refresh = NoGrant
    BY <1>0, <1>f, <2>2, GatewayFacts
  <2>9. \A v \in GatewayWorkers : FreshGrant(caller[v].got)'
    BY <1>0, <1>f, <2>3, <2>5, <2>6, <2>8 DEF HandsHoldFresh, FreshGrant, NoGrant
  <2>10. FreshGrant(oauth.got)'
    BY <1>0, <1>f, <2>3, <2>5, <2>6, <2>8 DEF HandsHoldFresh, FreshGrant, NoGrant
  <2>11. HandsHoldFresh'
    BY <1>0, <1>f, <2>3, <2>6, <2>9, <2>10 DEF HandsHoldFresh
  <2>12. RefusedIsDead' /\ SaversHold' /\ MarkIsTrue'
    BY <1>0, <1>f, <2>3, <2>5, <2>6, <2>8 DEF RefusedIsDead, SaversHold, MarkIsTrue, Accepts, NoGrant
  <2>13. RotatedIsKept'
    <3> SUFFICES ASSUME config.refresh # NoGrant, grants'[config.refresh].refresh = "rotated"
                 PROVE  \E v \in GatewayWorkers :
                           caller'[v].at = "save" /\ caller'[v].copy.refresh = config.refresh
      BY <2>3 DEF RotatedIsKept
    <3>1. config.refresh # t /\ grants[config.refresh].refresh = "rotated"
      BY <2>5, <2>8 DEF NoGrant
    <3>2. PICK v \in GatewayWorkers : caller[v].at = "save" /\ caller[v].copy.refresh = config.refresh
      BY <1>0, <3>1 DEF RotatedIsKept
    <3>3. v # w
      BY <2>1, <3>1, <3>2
    <3>4. QED
      BY <2>6, <3>2, <3>3
  <2>14. QED
    BY <2>7, <2>11, <2>12, <2>13 DEF GatewayInv
<1>17. ASSUME NEW w \in GatewayWorkers, MarkConnectionBroken(w) PROVE GatewayInv'
  <2>1. CASE UNCHANGED <<config, notice>>
    BY <1>4, <1>17, <2>1 DEF MarkConnectionBroken
  <2>2. CASE ~ UNCHANGED <<config, notice>>
    <3>1. /\ caller[w].at = "refused" /\ ClaimBrokenMark(w)
          /\ config' = [config EXCEPT !.broken = TRUE] /\ notice' = "pending"
          /\ caller' = [caller EXCEPT ![w] = IdleCaller]
          /\ UNCHANGED <<rows, grants, oauth>>
      BY <1>17, <2>2 DEF MarkConnectionBroken, EndCall
    <3>2. /\ config' \in ConfigRows(Len(grants)) /\ config'.refresh = config.refresh
      BY <1>f, <3>1 DEF ConfigRows
    <3>3. \A v \in GatewayWorkers : caller'[v] = IF v = w THEN IdleCaller ELSE caller[v]
      BY <1>0, <3>1 DEF GatewayTypeOK
    <3>4. GatewayTypeOK'
      BY <1>0, <1>f, <3>1, <3>2 DEF GatewayTypeOK
    <3>5. IdleCaller.copy.refresh = NoGrant
      BY <1>0, <1>f, GatewayFacts
    <3>6. HandsHoldFresh' /\ RefusedIsDead' /\ SaversHold'
      BY <1>0, <1>f, <3>1, <3>2, <3>3, <3>5
         DEF HandsHoldFresh, FreshGrant, RefusedIsDead, SaversHold, Accepts
    <3>7. MarkIsTrue'
      <4>1. ~ Accepts(config.refresh)
        BY <1>0, <3>1 DEF RefusedIsDead, ClaimBrokenMark
      <4>2. QED
        BY <3>1, <3>2, <4>1 DEF MarkIsTrue, Accepts
    <3>8. RotatedIsKept'
      BY <1>0, <3>1, <3>2, <3>3 DEF RotatedIsKept
    <3>9. QED
      BY <3>4, <3>6, <3>7, <3>8 DEF GatewayInv
  <2>3. QED
    BY <2>1, <2>2
<1>18. ASSUME UNCHANGED <<config, rows, grants, caller>>,
              \/ notice' = notice
              \/ notice' = IF config.id # 0 /\ config.broken THEN "told" ELSE "none",
              \/ oauth' = oauth
              \/ oauth' = [oauth EXCEPT !.at = "started"]
              \/ oauth' = [oauth EXCEPT !.at = "none"]
              \/ oauth' = [at |-> "none", got |-> NoGrant]
       PROVE  GatewayInv'
  <2>1. /\ oauth' \in [at : {"none", "started", "exchanged"}, got : 0..Len(grants)]
        /\ oauth'.got \in {oauth.got, NoGrant}
        /\ oauth'.at = "exchanged" => oauth' = oauth
    BY <1>0, <1>f, <1>18 DEF GatewayTypeOK, NoGrant
  <2>2. GatewayTypeOK'
    BY <1>0, <1>18, <2>1 DEF GatewayTypeOK
  <2>3. HandsHoldFresh' /\ RefusedIsDead' /\ SaversHold'
    BY <1>0, <1>18, <2>1 DEF HandsHoldFresh, FreshGrant, RefusedIsDead, SaversHold, Accepts
  <2>4. MarkIsTrue' /\ RotatedIsKept'
    BY <1>0, <1>18 DEF MarkIsTrue, RotatedIsKept, Accepts
  <2>5. QED
    BY <2>2, <2>3, <2>4 DEF GatewayInv
<1>19. ASSUME PlanBrokenNotice \/ StartOAuth \/ OAuthStateLapses \/ CallbackRejects
       PROVE  GatewayInv'
  BY <1>18, <1>19 DEF PlanBrokenNotice, StartOAuth, OAuthStateLapses, CallbackRejects
<1>20. CASE UNCHANGED gatewayVars
  BY <1>18, <1>20 DEF gatewayVars
<1>21. QED
  BY <1>1, <1>2, <1>3, <1>5, <1>6, <1>7, <1>8, <1>9, <1>10, <1>11, <1>12, <1>13, <1>14, <1>15,
     <1>16, <1>17, <1>19, <1>20 DEF GatewayNext

(* The tokens of a store that work are kept and never marked as broken, for any workers,     *)
(* grants, accounts and reconnections: persist_gateway_refresh, _claim_broken_mark.             *)
THEOREM CredentialsSurvive == GatewaySpec => []CredentialsHold
<1>1. GatewayInv => CredentialsHold
  BY DEF GatewayInv, CredentialsHold
<1>2. QED
  BY <1>1, InitGatewayInv, NextGatewayInv, PTL DEF GatewaySpec

------------------------------------------------------------------------------
(* The rest of a turn. A step has to see to the turns it writes and the requests *)
(* it moves (StepKeeps); what a request decided under the row of its turn stays *)
(* true until it commits (LockedKnows).                                       *)

Unsettled == {"none", "expired", "refunded"}
CallKey(q) == <<q.kind, q.turn>>

(* The money of a turn: one live remainder, of a deposit that was accredited, within the *)
(* price while it is; and one remainder per key, whose mark keeps the answer.             *)
TurnHolds(t) ==
    /\ \A i, j \in LiveRests(t) : i = j
    /\ LiveRests(t) # {} => fee[t].status \in Accredited \cup {"refunded"}
    /\ IsAccredited(fee[t]) =>
          \A i \in LiveRests(t) : fee[t].amount + remainders[t][i].amount <= FrozenPrice
    /\ \A i, j \in DOMAIN remainders[t] :
          remainders[t][i].keyed /\ remainders[t][j].keyed => i = j
    /\ \A i \in DOMAIN remainders[t] :
          remainders[t][i].keyed => keyMark[<<"record", t>>] = "saved"

(* What a request decided under the row of its turn is still true of it. *)
LockedKnows(q) ==
    /\ q.kind # "refund"
    /\ q.kind = "record" =>
          /\ IsAccredited(fee[q.turn]) /\ LiveRests(q.turn) = {}
          /\ q.amount \in 1..FrozenPrice /\ fee[q.turn].amount + q.amount <= FrozenPrice
    /\ q.kind = "confirm" => visitOf[q.turn] \notin Released
    /\ q.kind = "move" => Active(q.turn) /\ ~ Paid(q.turn)

(* What a request knows on its way: its key is in process, a refund that was written *)
(* stays so, and its answer told of whatever remainder is live.                       *)
CallHolds(c) ==
    LET q == call[c] IN
    /\ visitOf[q.turn] # "none"
    /\ q.keyed => q.kind \in Keyed /\ q.at \in {"asked", "locked"} /\ keyMark[CallKey(q)] = "processing"
    /\ q.at \in {"asked", "locked"} => q.kind # "none"
    /\ q.kind = "move" => q.turn = "first"
    /\ q.at = "locked" => LockedKnows(q)
    /\ q.at = "read" => q.kind = "refund" /\ IsAccredited(q.read)
    /\ q.at = "committed" => q.kind = "refund" /\ fee[q.turn].status = "refunded"
    /\ q.at = "ended" /\ q.kind = "refund" =>
          fee[q.turn].status = "refunded" /\ (LiveRests(q.turn) # {} => q.told)

(* A row and a key are in the hands of one request. *)
CallsExclude ==
    \A c, d \in BalanceRequests : c # d =>
        /\ call[c].at = "locked" /\ call[d].at = "locked" => call[c].turn # call[d].turn
        /\ call[c].keyed /\ call[d].keyed => CallKey(call[c]) # CallKey(call[d])

(* The turn that was moved ended without money; the copy is nowhere before. *)
FirstIsLeft ==
    /\ visitOf["first"] # "none"
    /\ visitOf["moved"] # "none" =>
          /\ visitOf["first"] = "cancelled" /\ fee["first"].status \in Unsettled
          /\ LiveRests("first") = {}
    /\ visitOf["moved"] = "none" => fee["moved"] = NoFee /\ remainders["moved"] = <<>>

BalanceInv ==
    /\ BalanceTypeOK
    /\ \A t \in BothTurns : TurnHolds(t)
    /\ \A c \in BalanceRequests : CallHolds(c)
    /\ CallsExclude
    /\ FirstIsLeft

TurnKept(u) == visitOf'[u] = visitOf[u] /\ fee'[u] = fee[u] /\ remainders'[u] = remainders[u]

(* A turn that is written: nobody else had decided on it, and a refund stays. *)
TurnWritten(u) ==
    /\ TurnHolds(u)'
    /\ visitOf'[u] # "none"
    /\ \A c \in BalanceRequests :
          call'[c] = call[c] /\ call[c].at = "locked" /\ call[c].turn = u => call[c].kind = "revert"
    /\ fee[u].status = "refunded" =>
          fee'[u].status = "refunded" /\ (LiveRests(u)' # {} => LiveRests(u) # {})

CallKept(c) ==
    /\ call'[c] = call[c]
    /\ call[c].keyed => keyMark'[CallKey(call[c])] = keyMark[CallKey(call[c])]

SavedStays ==
    \A u \in BothTurns : keyMark[<<"record", u>>] = "saved" => keyMark'[<<"record", u>>] = "saved"

(* What a step has to see to: the turns it writes and the requests it moves. *)
LEMMA StepKeeps ==
    ASSUME BalanceInv, BalanceTypeOK', FirstIsLeft', CallsExclude', SavedStays,
           \A u \in BothTurns : TurnKept(u) \/ TurnWritten(u),
           \A c \in BalanceRequests : CallKept(c) \/ CallHolds(c)'
    PROVE  BalanceInv'
<1>1. ASSUME NEW u \in BothTurns PROVE TurnHolds(u)'
  <2>1. CASE TurnKept(u)
    <3>1. TurnHolds(u)
      BY DEF BalanceInv
    <3>2. LiveRests(u)' = LiveRests(u)
      BY <2>1 DEF TurnKept, LiveRests
    <3>3. QED
      BY <2>1, <3>1, <3>2 DEF TurnKept, TurnHolds, IsAccredited, SavedStays
  <2>2. QED
    BY <2>1 DEF TurnWritten
<1>2. ASSUME NEW c \in BalanceRequests PROVE CallHolds(c)'
  <2>0. call[c] \in Calls
    BY DEF BalanceInv, BalanceTypeOK
  <2>1. SUFFICES ASSUME CallKept(c), NEW q \in Calls, q = call[c] PROVE CallHolds(c)'
    BY <2>0
  <2>2. CallHolds(c) /\ q.turn \in BothTurns /\ call'[c] = q /\ call[c] = q
    BY <2>1 DEF BalanceInv, Calls, CallKept
  <2>3. q.keyed => keyMark'[CallKey(q)] = "processing"
    BY <2>1, <2>2 DEF CallHolds, CallKept
  <2>4. CASE TurnKept(q.turn)
    <3>1. LiveRests(q.turn)' = LiveRests(q.turn)
      BY <2>4 DEF TurnKept, LiveRests
    <3>2. LockedKnows(q) => LockedKnows(q)'
      BY <2>4, <3>1 DEF TurnKept, LockedKnows, IsAccredited, Active, Paid
    <3>3. QED
      BY <2>2, <2>3, <2>4, <3>1, <3>2 DEF CallHolds, TurnKept, CallKey
  <2>5. CASE TurnWritten(q.turn)
    <3>1. q.at = "locked" => q.kind = "revert"
      BY <2>2, <2>5 DEF TurnWritten
    <3>2. q.kind = "revert" => LockedKnows(q)'
      BY DEF LockedKnows
    <3>3. QED
      BY <2>2, <2>3, <2>5, <3>1, <3>2 DEF CallHolds, TurnWritten, CallKey
  <2>6. QED
    BY <2>2, <2>4, <2>5
<1>3. QED
  BY <1>1, <1>2 DEF BalanceInv

(* A request that ends gives its row and its key back. *)
LEMMA AnsweredEnds ==
    ASSUME BalanceInv, NEW c \in BalanceRequests, NEW ok \in BOOLEAN, Answered(c, ok),
           visitOf'["first"] # "none"
    PROVE  /\ call' \in [BalanceRequests -> Calls]
           /\ keyMark' \in [Keyed \X BothTurns -> {"none", "processing", "saved"}]
           /\ CallHolds(c)' /\ CallsExclude' /\ SavedStays
           /\ \A d \in BalanceRequests \ {c} : CallKept(d)
           /\ call[c].keyed /\ ok => keyMark'[CallKey(call[c])] = "saved"
           /\ call'[c].at # "locked"
<1> DEFINE x == [NoCall EXCEPT !.at = IF ok THEN "ended" ELSE "refused"]
<1>1. x \in Calls /\ x.at \in {"ended", "refused"} /\ x.kind = "none" /\ x.turn = "first" /\ x.keyed = FALSE
  BY DEF NoCall, Calls, BothTurns, FeeRows, NoFee
<1>2. call \in [BalanceRequests -> Calls] /\ call' = [call EXCEPT ![c] = x]
      /\ keyMark \in [Keyed \X BothTurns -> {"none", "processing", "saved"}]
  BY DEF Answered, BalanceInv, BalanceTypeOK
<1> HIDE DEF x
<1>3. /\ call' \in [BalanceRequests -> Calls] /\ call'[c] = x
      /\ \A d \in BalanceRequests \ {c} : call'[d] = call[d]
  BY <1>1, <1>2
<1>4. call[c].keyed => /\ CallKey(call[c]) \in Keyed \X BothTurns
                       /\ keyMark[CallKey(call[c])] = "processing"
                       /\ \A d \in BalanceRequests \ {c} :
                             call[d].keyed => CallKey(call[d]) # CallKey(call[c])
  BY <1>2 DEF BalanceInv, CallHolds, CallKey, Calls, CallsExclude
<1>5. keyMark' = IF call[c].keyed
                 THEN [keyMark EXCEPT ![CallKey(call[c])] = IF ok THEN "saved" ELSE "none"]
                 ELSE keyMark
  BY DEF Answered, CallKey
<1>6. /\ keyMark' \in [Keyed \X BothTurns -> {"none", "processing", "saved"}]
      /\ SavedStays
      /\ call[c].keyed /\ ok => keyMark'[CallKey(call[c])] = "saved"
      /\ \A k \in Keyed \X BothTurns : k # CallKey(call[c]) => keyMark'[k] = keyMark[k]
  <2>1. CASE ~ call[c].keyed
    BY <1>2, <1>5, <2>1 DEF SavedStays
  <2>2. CASE call[c].keyed
    BY <1>2, <1>4, <1>5, <2>2 DEF SavedStays, Keyed
  <2>3. QED
    BY <2>1, <2>2
<1>7. CallsExclude'
  BY <1>1, <1>3 DEF BalanceInv, CallsExclude, CallKey
<1>8. CallHolds(c)'
  BY <1>1, <1>3 DEF CallHolds
<1>9. ASSUME NEW d \in BalanceRequests \ {c} PROVE CallKept(d)
  <2>1. call[d].keyed => CallKey(call[d]) \in Keyed \X BothTurns
    BY <1>2 DEF BalanceInv, CallHolds, CallKey, Calls
  <2>2. call[d].keyed => CallKey(call[d]) # CallKey(call[c]) \/ ~ call[c].keyed
    BY <1>4
  <2>3. ~ call[c].keyed => keyMark' = keyMark
    BY <1>5
  <2>4. QED
    BY <1>3, <1>6, <2>1, <2>2, <2>3 DEF CallKept
<1>10. QED
  BY <1>1, <1>3, <1>6, <1>7, <1>8, <1>9

(* The rows and requests of an invariant state, taken apart. *)
LEMMA BalanceFacts ==
    ASSUME BalanceInv
    PROVE  /\ BalanceTypeOK /\ CallsExclude /\ FirstIsLeft
           /\ \A t \in BothTurns : /\ TurnHolds(t) /\ visitOf[t] \in {"none"} \cup VisitStatuses
                                   /\ fee[t] \in FeeRows /\ remainders[t] \in Seq(RestRows)
           /\ \A c \in BalanceRequests : /\ CallHolds(c) /\ call[c] \in Calls
                                         /\ call[c].turn \in BothTurns
BY DEF BalanceInv, BalanceTypeOK, Calls

(* What is owed is within the price: the price less what was paid. *)
LEMMA OwedIsPrice ==
    ASSUME BalanceInv, NEW t \in BothTurns, LiveRests(t) = {}
    PROVE  /\ RemainingBalance(t) \in Nat
           /\ RemainingBalance(t) > 0 => fee[t].amount + RemainingBalance(t) = FrozenPrice
<1>1. LiveAmount(t) = 0
  BY DEF LiveAmount
<1>2. fee[t].amount \in Nat /\ FrozenPrice \in Nat
  BY BalanceFacts, BalanceAssumption DEF FeeRows
<1>3. RemainingBalance(t) = IF /\ IsAccredited(fee[t])
                               /\ visitOf[t] \notin Released \cup {"absent"}
                               /\ FrozenPrice > fee[t].amount
                            THEN FrozenPrice - fee[t].amount ELSE 0
  BY <1>1, <1>2 DEF RemainingBalance
<1>4. QED
  BY <1>2, <1>3

(* A request that moves without writing a turn. *)
LEMMA CallMoves ==
    ASSUME BalanceInv, NEW c \in BalanceRequests, NEW x \in Calls,
           call' = [call EXCEPT ![c] = x], UNCHANGED <<visitOf, fee, remainders>>,
           keyMark' \in [Keyed \X BothTurns -> {"none", "processing", "saved"}],
           CallHolds(c)', SavedStays, \A d \in BalanceRequests \ {c} : CallKept(d),
           \A d \in BalanceRequests \ {c} :
              /\ x.at = "locked" /\ call[d].at = "locked" => x.turn # call[d].turn
              /\ x.keyed /\ call[d].keyed => CallKey(x) # CallKey(call[d])
    PROVE  BalanceInv'
<1>1. /\ call' \in [BalanceRequests -> Calls] /\ call'[c] = x
      /\ \A d \in BalanceRequests \ {c} : call'[d] = call[d]
  BY BalanceFacts DEF BalanceTypeOK
<1>2. BalanceTypeOK'
  BY <1>1, BalanceFacts DEF BalanceTypeOK
<1>3. CallsExclude'
  BY <1>1, BalanceFacts DEF CallsExclude, CallKey
<1>4. FirstIsLeft'
  BY BalanceFacts DEF FirstIsLeft, LiveRests
<1>5. \A u \in BothTurns : TurnKept(u)
  BY DEF TurnKept
<1>6. QED
  BY <1>2, <1>3, <1>4, <1>5, StepKeeps

(* A request that ends without writing a turn. *)
LEMMA CallEnds ==
    ASSUME BalanceInv, NEW c \in BalanceRequests, NEW ok \in BOOLEAN, Answered(c, ok),
           UNCHANGED <<visitOf, fee, remainders>>
    PROVE  BalanceInv'
<1>1. visitOf'["first"] # "none"
  BY BalanceFacts DEF FirstIsLeft
<1>2. BalanceTypeOK'
  BY <1>1, AnsweredEnds, BalanceFacts DEF BalanceTypeOK
<1>3. FirstIsLeft'
  BY BalanceFacts DEF FirstIsLeft, LiveRests
<1>4. \A u \in BothTurns : TurnKept(u)
  BY DEF TurnKept
<1>5. QED
  BY <1>1, <1>2, <1>3, <1>4, AnsweredEnds, StepKeeps

(* A request that is asked takes its key, or waits for who has it. *)
LEMMA AskKeeps ==
    ASSUME BalanceInv, NEW c \in BalanceRequests,
           NEW kind \in {"record", "revert", "confirm", "refund", "cancel", "move"},
           NEW t \in BothTurns, NEW amount \in Nat, NEW keyed \in BOOLEAN,
           kind = "move" => t = "first", Ask(c, kind, t, amount, keyed)
    PROVE  BalanceInv'
<1> DEFINE x == [NoCall EXCEPT !.at = "asked", !.kind = kind, !.turn = t, !.amount = amount,
                               !.keyed = keyed]
<1>1. /\ x \in Calls /\ x.at = "asked" /\ x.kind = kind /\ x.turn = t /\ x.keyed = keyed
  BY DEF NoCall, Calls, BothTurns, FeeRows, NoFee
<1>2. call' = [call EXCEPT ![c] = x] /\ TakeKey(kind, t, keyed) /\ visitOf[t] # "none"
      /\ UNCHANGED <<visitOf, fee, remainders>>
  BY DEF Ask
<1> HIDE DEF x
<1>3. /\ call'[c] = x
      /\ \A d \in BalanceRequests \ {c} : call'[d] = call[d]
      /\ keyMark \in [Keyed \X BothTurns -> {"none", "processing", "saved"}]
  BY <1>2, BalanceFacts DEF BalanceTypeOK
<1>4. /\ keyed => kind \in Keyed /\ keyMark[<<kind, t>>] = "none"
      /\ keyMark' = IF keyed THEN [keyMark EXCEPT ![<<kind, t>>] = "processing"] ELSE keyMark
  BY <1>2 DEF TakeKey
<1>5. /\ keyMark' \in [Keyed \X BothTurns -> {"none", "processing", "saved"}]
      /\ keyed => keyMark'[<<kind, t>>] = "processing"
      /\ \A k \in Keyed \X BothTurns : keyMark[k] # "none" => keyMark'[k] = keyMark[k]
  BY <1>3, <1>4
<1>6. SavedStays
  BY <1>5 DEF SavedStays, Keyed
<1>7. ASSUME NEW d \in BalanceRequests \ {c}, call[d].keyed
      PROVE  /\ CallKey(call[d]) \in Keyed \X BothTurns
             /\ keyMark[CallKey(call[d])] = "processing"
  BY <1>7, BalanceFacts DEF CallHolds, CallKey
<1>8. \A d \in BalanceRequests \ {c} : CallKept(d)
  BY <1>3, <1>5, <1>7 DEF CallKept
<1>9. \A d \in BalanceRequests \ {c} :
         x.keyed /\ call[d].keyed => CallKey(x) # CallKey(call[d])
  BY <1>1, <1>4, <1>7 DEF CallKey
<1>10. CallHolds(c)'
  BY <1>1, <1>2, <1>3, <1>4, <1>5 DEF CallHolds, CallKey
<1>11. QED
  BY <1>1, <1>2, <1>5, <1>6, <1>8, <1>9, <1>10, CallMoves

(* A request takes the row of its turn and knows what it decided under it. *)
LEMMA LockKeeps ==
    ASSUME BalanceInv, NEW c \in BalanceRequests, LockTurn(c)
    PROVE  BalanceInv'
<1>0. call[c] \in Calls /\ CallHolds(c)
  BY BalanceFacts
<1>1. SUFFICES ASSUME NEW q \in Calls, q = call[c] PROVE BalanceInv'
  BY <1>0
<1> DEFINE amount == IF q.kind = "record" /\ q.amount = 0 THEN RemainingBalance(q.turn) ELSE q.amount
           y == [q EXCEPT !.at = "locked", !.amount = amount]
<1>2. /\ q.at = "asked" /\ q.kind # "refund" /\ q.turn \in BothTurns /\ q.kind # "none"
      /\ TurnIsFree(q.turn) /\ Allowed(c) /\ UNCHANGED <<visitOf, fee, remainders, keyMark>>
      /\ visitOf[q.turn] # "none" /\ (q.kind = "move" => q.turn = "first")
      /\ q.keyed => q.kind \in Keyed /\ keyMark[CallKey(q)] = "processing"
  BY <1>0, <1>1 DEF LockTurn, CallAt, CallHolds, Calls
<1>3. q.kind \in {"record", "revert", "confirm", "cancel", "move"}
  BY <1>2 DEF Calls
<1>4. /\ q.kind = "record" => MayRecord(q.turn, q.amount)
      /\ q.kind = "confirm" => visitOf[q.turn] \notin Released
      /\ q.kind = "move" => Active(q.turn) /\ ClientMayMove(q.turn)
  BY <1>1, <1>2, <1>3 DEF Allowed
<1>5. q.kind = "record" =>
         /\ IsAccredited(fee[q.turn]) /\ LiveRests(q.turn) = {}
         /\ amount \in 1..FrozenPrice /\ fee[q.turn].amount + amount <= FrozenPrice
  <2>1. SUFFICES ASSUME q.kind = "record" PROVE /\ IsAccredited(fee[q.turn]) /\ LiveRests(q.turn) = {}
                          /\ amount \in 1..FrozenPrice /\ fee[q.turn].amount + amount <= FrozenPrice
    OBVIOUS
  <2>2. /\ IsAccredited(fee[q.turn]) /\ LiveRests(q.turn) = {}
        /\ RemainingBalance(q.turn) > 0 /\ q.amount <= RemainingBalance(q.turn)
    BY <1>4, <2>1 DEF MayRecord
  <2>3. RemainingBalance(q.turn) \in Nat /\ fee[q.turn].amount + RemainingBalance(q.turn) = FrozenPrice
    BY <1>2, <2>2, OwedIsPrice
  <2>4. fee[q.turn].amount \in Nat /\ FrozenPrice \in Nat /\ q.amount \in Nat
    BY <1>2, BalanceFacts, BalanceAssumption DEF FeeRows, Calls
  <2>5. QED
    BY <2>1, <2>2, <2>3, <2>4
<1>6. amount \in Nat
  BY <1>5 DEF Calls
<1>7. y \in Calls /\ y.at = "locked" /\ y.kind = q.kind /\ y.turn = q.turn /\ y.keyed = q.keyed
      /\ y.amount = amount
  BY <1>6 DEF Calls
<1>8. call' = [call EXCEPT ![c] = y]
  BY <1>1, BalanceFacts DEF LockTurn, BalanceTypeOK, Calls
<1> HIDE DEF y, amount
<1>x. PICK x \in Calls : x = y
  BY <1>7
<1>9. call'[c] = x /\ \A d \in BalanceRequests \ {c} : call'[d] = call[d]
  BY <1>8, <1>x, BalanceFacts DEF BalanceTypeOK
<1>10. LockedKnows(x)
  BY <1>2, <1>4, <1>5, <1>7, <1>x DEF LockedKnows, ClientMayMove
<1>11. LiveRests(q.turn)' = LiveRests(q.turn)
  BY <1>2 DEF LiveRests
<1>12. LockedKnows(x)'
  BY <1>2, <1>7, <1>x, <1>10, <1>11 DEF LockedKnows, Active, Paid
<1>13. CallHolds(c)'
  BY <1>2, <1>7, <1>x, <1>9, <1>12 DEF CallHolds, CallKey
<1>14. \A d \in BalanceRequests \ {c} :
          /\ call[d].at = "locked" => x.turn # call[d].turn
          /\ x.keyed /\ call[d].keyed => CallKey(x) # CallKey(call[d])
          /\ CallKept(d)
  BY <1>1, <1>2, <1>7, <1>x, <1>9, BalanceFacts
  DEF TurnIsFree, Holding, CallAt, CallsExclude, CallKey, CallKept
<1>15. SavedStays /\ keyMark' \in [Keyed \X BothTurns -> {"none", "processing", "saved"}]
  BY <1>2, BalanceFacts DEF SavedStays, BalanceTypeOK
<1>16. QED
  BY <1>2, <1>7, <1>8, <1>x, <1>13, <1>14, <1>15, CallMoves

(* What the holder of a turn writes: it, or the copy nobody asks about yet. *)
WrittenByHolder(c, u) ==
    /\ u = call[c].turn \/ visitOf[u] = "none"
    /\ TurnHolds(u)'
    /\ visitOf'[u] # "none"
    /\ fee[u].status = "refunded" =>
          fee'[u].status = "refunded" /\ (LiveRests(u)' # {} => LiveRests(u) # {})

(* The commit of a request that holds its turn. *)
LEMMA CommitKeeps ==
    ASSUME BalanceInv, NEW c \in BalanceRequests, call[c].at = "locked", Answered(c, TRUE),
           visitOf' \in [BothTurns -> {"none"} \cup VisitStatuses], fee' \in [BothTurns -> FeeRows],
           remainders' \in [BothTurns -> Seq(RestRows)], FirstIsLeft',
           \A u \in BothTurns : TurnKept(u) \/ WrittenByHolder(c, u)
    PROVE  BalanceInv'
<1>1. visitOf'["first"] # "none"
  BY DEF FirstIsLeft
<1>2. BalanceTypeOK'
  BY <1>1, AnsweredEnds DEF BalanceTypeOK
<1>3. ASSUME NEW u \in BothTurns, WrittenByHolder(c, u) PROVE TurnWritten(u)
  <2>1. ASSUME NEW d \in BalanceRequests, call'[d] = call[d], call[d].at = "locked", call[d].turn = u
        PROVE  FALSE
    <3>1. d # c
      BY <1>1, <2>1, AnsweredEnds
    <3>2. u # call[c].turn
      BY <2>1, <3>1, BalanceFacts DEF CallsExclude
    <3>3. visitOf[u] # "none"
      BY <2>1, BalanceFacts DEF CallHolds
    <3>4. QED
      BY <1>3, <3>2, <3>3 DEF WrittenByHolder
  <2>2. QED
    BY <1>3, <2>1 DEF WrittenByHolder, TurnWritten
<1>4. QED
  BY <1>1, <1>2, <1>3, AnsweredEnds, StepKeeps

(* What the requests that write a turn start from. *)
LEMMA HolderFacts ==
    ASSUME BalanceInv, NEW c \in BalanceRequests, call[c].at = "locked"
    PROVE  /\ call[c].turn \in BothTurns /\ visitOf[call[c].turn] # "none"
           /\ call[c].kind = "move" => call[c].turn = "first"
           /\ LockedKnows(call[c])
BY BalanceFacts DEF CallHolds

(* A remainder is written by who saw that none is live and that it fits in the price. *)
LEMMA RecordKeeps ==
    ASSUME BalanceInv, NEW c \in BalanceRequests, RecordRemaining(c)
    PROVE  BalanceInv'
<1>1. call[c].at = "locked" /\ call[c].kind = "record" /\ UNCHANGED <<visitOf, fee>>
  BY DEF RecordRemaining, Locked, CallAt
<1>0. call[c] \in Calls
  BY BalanceFacts
<1>2. SUFFICES ASSUME NEW q \in Calls, q = call[c] PROVE BalanceInv'
  BY <1>0
<1> DEFINE t == q.turn
           n == Len(remainders[t])
           new == [amount |-> q.amount, live |-> TRUE, keyed |-> q.keyed]
<1>3. /\ t \in BothTurns /\ visitOf[t] # "none"
      /\ IsAccredited(fee[t]) /\ LiveRests(t) = {}
      /\ q.amount \in 1..FrozenPrice /\ fee[t].amount + q.amount <= FrozenPrice
  BY <1>1, <1>2, HolderFacts DEF LockedKnows
<1>4. remainders' = [remainders EXCEPT ![t] = Append(@, new)] /\ Answered(c, TRUE)
  BY <1>2, <1>3 DEF RecordRemaining
<1>5. remainders[t] \in Seq(RestRows) /\ new \in RestRows /\ n \in Nat
  <2>1. remainders[t] \in Seq(RestRows)
    BY <1>3, BalanceFacts
  <2>2. q.keyed \in BOOLEAN
    BY DEF Calls
  <2>3. new \in RestRows
    BY <1>3, <2>2 DEF RestRows
  <2>4. QED
    BY <2>1, <2>3
<1>6. /\ Append(remainders[t], new) \in Seq(RestRows)
      /\ DOMAIN Append(remainders[t], new) = 1..(n + 1) /\ DOMAIN remainders[t] = 1..n
      /\ \A i \in 1..n : Append(remainders[t], new)[i] = remainders[t][i]
      /\ Append(remainders[t], new)[n + 1] = new
  BY <1>5
<1>7. /\ remainders' \in [BothTurns -> Seq(RestRows)]
      /\ remainders'[t] = Append(remainders[t], new)
      /\ \A u \in BothTurns \ {t} : remainders'[u] = remainders[u]
  BY <1>3, <1>4, <1>6, BalanceFacts DEF BalanceTypeOK
<1>8. \A i \in 1..n : ~ remainders[t][i].live
  BY <1>3, <1>6 DEF LiveRests
<1>9. LiveRests(t)' = {n + 1}
  BY <1>5, <1>6, <1>7, <1>8 DEF LiveRests
<1>10. /\ q.keyed => keyMark'[<<"record", t>>] = "saved"
       /\ q.keyed => \A i \in 1..n : ~ remainders[t][i].keyed
       /\ SavedStays
  <2>1. visitOf'["first"] # "none"
    BY <1>1, BalanceFacts DEF FirstIsLeft
  <2>2. SavedStays /\ (q.keyed => keyMark'[CallKey(q)] = "saved")
    BY <1>2, <1>4, <2>1, AnsweredEnds
  <2>3. CallKey(q) = <<"record", t>>
    BY <1>1, <1>2 DEF CallKey
  <2>4. q.keyed => keyMark[<<"record", t>>] = "processing"
    BY <1>2, <2>3, BalanceFacts DEF CallHolds
  <2>5. \A i \in DOMAIN remainders[t] : remainders[t][i].keyed => keyMark[<<"record", t>>] = "saved"
    BY <1>3, BalanceFacts DEF TurnHolds
  <2>6. QED
    BY <1>6, <2>2, <2>3, <2>4, <2>5
<1>11. TurnHolds(t)'
  <2>0. TurnHolds(t)
    BY <1>3, BalanceFacts
  <2>1. \A i, j \in LiveRests(t)' : i = j
    BY <1>9
  <2>2. fee'[t] = fee[t] /\ fee[t].status \in Accredited /\ remainders'[t][n + 1].amount = q.amount
    BY <1>1, <1>3, <1>6, <1>7 DEF IsAccredited
  <2>3. \A i, j \in 1..(n + 1) : remainders'[t][i].keyed /\ remainders'[t][j].keyed => i = j
    <3>1. \A i, j \in 1..n : remainders[t][i].keyed /\ remainders[t][j].keyed => i = j
      BY <1>6, <2>0 DEF TurnHolds
    <3>2. QED
      <4>1. \A i \in 1..(n + 1) : i \in 1..n \/ i = n + 1
        BY <1>5
      <4>2. \A i \in 1..n : remainders'[t][i] = remainders[t][i]
        BY <1>6, <1>7
      <4>3. remainders'[t][n + 1].keyed = q.keyed
        BY <1>6, <1>7
      <4> HIDE DEF n, new
      <4>4. QED
        BY <1>10, <3>1, <4>1, <4>2, <4>3
  <2>4. \A i \in 1..(n + 1) : remainders'[t][i].keyed => keyMark'[<<"record", t>>] = "saved"
    <3>1. \A i \in 1..n : remainders[t][i].keyed => keyMark[<<"record", t>>] = "saved"
      BY <1>6, <2>0 DEF TurnHolds
    <3>2. keyMark[<<"record", t>>] = "saved" => keyMark'[<<"record", t>>] = "saved"
      BY <1>3, <1>10 DEF SavedStays
    <3>3. \A i \in 1..(n + 1) : i \in 1..n \/ i = n + 1
      BY <1>5
    <3>4. \A i \in 1..n : remainders'[t][i] = remainders[t][i]
      BY <1>6, <1>7
    <3>5. remainders'[t][n + 1].keyed = q.keyed
      BY <1>6, <1>7
    <3> HIDE DEF n, new
    <3>6. QED
      BY <1>10, <3>1, <3>2, <3>3, <3>4, <3>5
  <2>5. DOMAIN remainders'[t] = 1..(n + 1)
    BY <1>6, <1>7
  <2> HIDE DEF n, new
  <2>6. QED
    BY <1>3, <1>9, <2>1, <2>2, <2>3, <2>4, <2>5 DEF TurnHolds
<1>12. FirstIsLeft'
  <2>1. FirstIsLeft
    BY BalanceFacts
  <2>2. t = "first" => visitOf["moved"] = "none"
    BY <1>3, <2>1 DEF FirstIsLeft, IsAccredited, Accredited, Unsettled
  <2>3. t = "moved" => visitOf["moved"] # "none" /\ LiveRests("first")' = LiveRests("first")
    BY <1>3, <1>7 DEF LiveRests, BothTurns
  <2>4. t = "first" => remainders'["moved"] = remainders["moved"]
    BY <1>7 DEF BothTurns
  <2>5. QED
    BY <1>1, <1>3, <2>1, <2>2, <2>3, <2>4 DEF FirstIsLeft, BothTurns
<1>13. /\ WrittenByHolder(c, t)
       /\ \A u \in BothTurns \ {t} : TurnKept(u)
  BY <1>1, <1>2, <1>3, <1>7, <1>11 DEF WrittenByHolder, TurnKept, IsAccredited, Accredited
<1>14. visitOf' \in [BothTurns -> {"none"} \cup VisitStatuses] /\ fee' \in [BothTurns -> FeeRows]
  BY <1>1, BalanceFacts DEF BalanceTypeOK
<1>15. QED
  BY <1>1, <1>4, <1>7, <1>12, <1>13, <1>14, CommitKeeps

(* A remainder that is taken back stays, no longer live. *)
LEMMA RevertKeeps ==
    ASSUME BalanceInv, NEW c \in BalanceRequests, RevertRemaining(c)
    PROVE  BalanceInv'
<1>1. call[c].at = "locked" /\ UNCHANGED <<visitOf, fee>> /\ Answered(c, TRUE)
  BY DEF RevertRemaining, Locked, CallAt
<1>2. SUFFICES ASSUME NEW t \in BothTurns, t = call[c].turn PROVE BalanceInv'
  BY <1>1, HolderFacts
<1> DEFINE rs == [i \in DOMAIN remainders[t] |-> [remainders[t][i] EXCEPT !.live = FALSE]]
<1>3. remainders' = [remainders EXCEPT ![t] = rs]
  BY <1>2 DEF RevertRemaining
<1>4. remainders[t] \in Seq(RestRows) /\ visitOf[t] # "none" /\ TurnHolds(t)
  BY <1>1, <1>2, BalanceFacts, HolderFacts
<1>5. /\ rs \in Seq(RestRows) /\ DOMAIN rs = DOMAIN remainders[t]
      /\ \A i \in DOMAIN remainders[t] : ~ rs[i].live /\ rs[i].keyed = remainders[t][i].keyed
  <2>1. \A i \in DOMAIN remainders[t] : remainders[t][i] \in RestRows
    BY <1>4
  <2>2. \A i \in DOMAIN remainders[t] : /\ [remainders[t][i] EXCEPT !.live = FALSE] \in RestRows
                                         /\ ~ [remainders[t][i] EXCEPT !.live = FALSE].live
                                         /\ [remainders[t][i] EXCEPT !.live = FALSE].keyed
                                               = remainders[t][i].keyed
    BY <2>1 DEF RestRows
  <2>3. Len(remainders[t]) \in Nat /\ DOMAIN remainders[t] = 1..Len(remainders[t])
    BY <1>4
  <2>4. QED
    BY <2>2, <2>3
<1> HIDE DEF rs
<1>6. /\ remainders' \in [BothTurns -> Seq(RestRows)] /\ remainders'[t] = rs
      /\ \A u \in BothTurns \ {t} : remainders'[u] = remainders[u]
  BY <1>3, <1>5, BalanceFacts DEF BalanceTypeOK
<1>7. LiveRests(t)' = {}
  BY <1>5, <1>6 DEF LiveRests
<1>8. SavedStays
  BY <1>1, BalanceFacts, AnsweredEnds DEF FirstIsLeft
<1>9. TurnHolds(t)'
  BY <1>4, <1>5, <1>6, <1>7, <1>8 DEF TurnHolds, SavedStays
<1>10. FirstIsLeft'
  <2>1. t = "first" => remainders'["moved"] = remainders["moved"]
    BY <1>6 DEF BothTurns
  <2>2. t = "moved" => visitOf["moved"] # "none" /\ LiveRests("first")' = LiveRests("first")
    BY <1>4, <1>6 DEF LiveRests, BothTurns
  <2>3. QED
    BY <1>1, <1>7, <2>1, <2>2, BalanceFacts DEF FirstIsLeft, BothTurns
<1>11. WrittenByHolder(c, t) /\ \A u \in BothTurns \ {t} : TurnKept(u)
  BY <1>1, <1>2, <1>4, <1>6, <1>7, <1>9 DEF WrittenByHolder, TurnKept
<1>12. visitOf' \in [BothTurns -> {"none"} \cup VisitStatuses] /\ fee' \in [BothTurns -> FeeRows]
  BY <1>1, BalanceFacts DEF BalanceTypeOK
<1>13. QED
  BY <1>1, <1>6, <1>10, <1>11, <1>12, CommitKeeps

(* What may be written on the charge of a turn whose remainders stay. *)
FeeMayBecome(u, f) ==
    /\ LiveRests(u) # {} => f.status \in Accredited \cup {"refunded"}
    /\ IsAccredited(f) /\ LiveRests(u) # {} =>
          IsAccredited(fee[u]) /\ f.amount = fee[u].amount

(* A charge written so keeps what its turn holds. *)
LEMMA FeeWritten ==
    ASSUME BalanceInv, NEW u \in BothTurns, remainders'[u] = remainders[u], SavedStays,
           FeeMayBecome(u, fee'[u])
    PROVE  TurnHolds(u)' /\ LiveRests(u)' = LiveRests(u)
<1>1. LiveRests(u)' = LiveRests(u)
  BY DEF LiveRests
<1>2. TurnHolds(u)
  BY BalanceFacts
<1>3. QED
  BY <1>1, <1>2 DEF TurnHolds, FeeMayBecome, SavedStays, IsAccredited

(* A request that holds its turn and writes only its status and its charge. *)
LEMMA HolderWritesFee ==
    ASSUME BalanceInv, NEW c \in BalanceRequests, call[c].at = "locked", Answered(c, TRUE),
           NEW t \in BothTurns, t = call[c].turn, NEW v \in VisitStatuses, NEW f \in FeeRows,
           visitOf' = [visitOf EXCEPT ![t] = v], fee' = [fee EXCEPT ![t] = f],
           UNCHANGED remainders, FeeMayBecome(t, f), fee[t].status = "refunded" => f.status = "refunded",
           t = "first" /\ visitOf["moved"] # "none" => v = "cancelled" /\ f.status \in Unsettled
    PROVE  BalanceInv'
<1>0. v # "none"
  BY DEF VisitStatuses, Released
<1>1. /\ visitOf' \in [BothTurns -> {"none"} \cup VisitStatuses] /\ fee' \in [BothTurns -> FeeRows]
      /\ remainders' \in [BothTurns -> Seq(RestRows)]
      /\ visitOf'[t] = v /\ fee'[t] = f
      /\ \A u \in BothTurns \ {t} : visitOf'[u] = visitOf[u] /\ fee'[u] = fee[u]
  BY BalanceFacts DEF BalanceTypeOK
<1>2. visitOf[t] # "none" /\ FirstIsLeft
  BY BalanceFacts, HolderFacts
<1>3. visitOf'["first"] # "none"
  BY <1>0, <1>1, <1>2 DEF FirstIsLeft, BothTurns
<1>4. SavedStays
  BY <1>3, AnsweredEnds
<1>5. TurnHolds(t)' /\ LiveRests(t)' = LiveRests(t)
  BY <1>1, <1>4, FeeWritten
<1>6. WrittenByHolder(c, t) /\ \A u \in BothTurns \ {t} : TurnKept(u)
  BY <1>0, <1>1, <1>5 DEF WrittenByHolder, TurnKept
<1>7. FirstIsLeft'
  <2>1. LiveRests("first")' = LiveRests("first")
    BY DEF LiveRests
  <2>2. CASE t = "first"
    <3>1. visitOf'["moved"] = visitOf["moved"] /\ fee'["moved"] = fee["moved"]
      BY <1>1, <2>2 DEF BothTurns
    <3>2. QED
      BY <1>0, <1>1, <1>2, <2>1, <2>2, <3>1 DEF FirstIsLeft
  <2>3. CASE t = "moved"
    <3>1. visitOf'["first"] = visitOf["first"] /\ fee'["first"] = fee["first"]
      BY <1>1, <2>3 DEF BothTurns
    <3>2. QED
      BY <1>0, <1>1, <1>2, <2>1, <2>3, <3>1 DEF FirstIsLeft
  <2>4. QED
    BY <2>2, <2>3 DEF BothTurns
<1>8. \A u \in BothTurns : TurnKept(u) \/ WrittenByHolder(c, u)
  BY <1>6
<1>9. QED
  BY <1>1, <1>7, <1>8, CommitKeeps

(* What manual_confirm leaves: an accredited charge as it is, any other accredited, or as *)
(* refunded as it was.                                                                     *)
LEMMA ConfirmedRow ==
    ASSUME NEW f \in FeeRows, NEW a \in Nat
    PROVE  /\ ManuallyConfirmed(f, a) \in FeeRows
           /\ IsAccredited(f) => ManuallyConfirmed(f, a) = f
           /\ f.status = "refunded" => ManuallyConfirmed(f, a).status = "refunded"
<1> DEFINE b == IF f.status = "none" THEN [NoFee EXCEPT !.provider = "manual"] ELSE f
           to == AmountToRegister(f, a)
           p == Repriced(b, to, a # 0)
<1>1. b \in FeeRows /\ b.status = f.status
  BY DEF FeeRows, NoFee
<1>2. to \in Nat
  BY BalanceAssumption DEF AmountToRegister, FeeRows
<1> HIDE DEF b, to
<1>3. p \in FeeRows /\ p.status = f.status
  BY <1>1, <1>2 DEF Repriced, FeeRows
<1>4. ManuallyConfirmed(f, a) = IF IsAccredited(f) THEN f
                               ELSE IF Reaches(f.status, "manual_confirmed")
                               THEN [p EXCEPT !.status = "manual_confirmed", !.paid = p.amount]
                               ELSE p
  BY DEF ManuallyConfirmed, b, to
<1> HIDE DEF p
<1>5. [p EXCEPT !.status = "manual_confirmed", !.paid = p.amount] \in FeeRows
  BY <1>3 DEF FeeRows, Accredited
<1>6. f.status = "refunded" => ~ Reaches(f.status, "manual_confirmed")
  BY DEF Reaches, Accredited
<1>7. QED
  BY <1>3, <1>4, <1>5, <1>6 DEF IsAccredited

(* A charge confirmed by hand: the one with a remainder is left as it is. *)
LEMMA ConfirmKeeps ==
    ASSUME BalanceInv, NEW c \in BalanceRequests, ManualConfirm(c)
    PROVE  BalanceInv'
<1>1. call[c].at = "locked" /\ call[c].kind = "confirm" /\ UNCHANGED remainders /\ Answered(c, TRUE)
  BY DEF ManualConfirm, Locked, CallAt
<1>2. SUFFICES ASSUME NEW t \in BothTurns, t = call[c].turn PROVE BalanceInv'
  BY <1>1, HolderFacts
<1> DEFINE f == ManuallyConfirmed(fee[t], call[c].amount)
           v == IF IsAccredited(f) /\ visitOf[t] = "pending_payment" THEN "confirmed" ELSE visitOf[t]
<1>3. /\ fee[t] \in FeeRows /\ call[c].amount \in Nat /\ visitOf[t] \in VisitStatuses
      /\ visitOf[t] \notin Released /\ TurnHolds(t) /\ FirstIsLeft
  BY <1>1, <1>2, BalanceFacts, HolderFacts DEF Calls, LockedKnows
<1>4. /\ f \in FeeRows /\ (IsAccredited(fee[t]) => f = fee[t])
      /\ fee[t].status = "refunded" => f.status = "refunded"
  BY <1>3, ConfirmedRow
<1>5. fee' = [fee EXCEPT ![t] = f]
  BY <1>2 DEF ManualConfirm
<1>6. visitOf' = [visitOf EXCEPT ![t] = v]
  BY <1>2, <1>3, BalanceFacts DEF ManualConfirm, BalanceTypeOK
<1>7. v \in VisitStatuses
  BY <1>3 DEF VisitStatuses
<1> HIDE DEF f, v
<1>8. FeeMayBecome(t, f)
  BY <1>3, <1>4 DEF TurnHolds, FeeMayBecome, IsAccredited, Accredited
<1>9. t = "first" => visitOf["moved"] = "none"
  BY <1>3 DEF FirstIsLeft, Released
<1>10. QED
  BY <1>1, <1>2, <1>4, <1>5, <1>6, <1>7, <1>8, <1>9, HolderWritesFee

(* A charge that is closed with its turn is not accredited by that. *)
LEMMA ExpiredRow ==
    ASSUME NEW f \in FeeRows
    PROVE  /\ ExpiredCharge(f) \in FeeRows
           /\ f.status = "pending" => ExpiredCharge(f).status = "expired"
           /\ f.status # "pending" => ExpiredCharge(f) = f
BY DEF ExpiredCharge, IsLive, FeeRows

(* The client cancels: the live charge is closed, an accredited one stays. *)
LEMMA CancelKeeps ==
    ASSUME BalanceInv, NEW c \in BalanceRequests, CancelByClient(c)
    PROVE  BalanceInv'
<1>1. call[c].at = "locked" /\ UNCHANGED remainders /\ Answered(c, TRUE)
  BY DEF CancelByClient, Locked, CallAt
<1>2. SUFFICES ASSUME NEW t \in BothTurns, t = call[c].turn PROVE BalanceInv'
  BY <1>1, HolderFacts
<1>3. fee[t] \in FeeRows /\ TurnHolds(t) /\ FirstIsLeft
  BY BalanceFacts
<1> DEFINE f == ExpiredCharge(fee[t])
<1>4. visitOf' = [visitOf EXCEPT ![t] = "cancelled"] /\ fee' = [fee EXCEPT ![t] = f]
  BY <1>2 DEF CancelByClient
<1>5. f \in FeeRows /\ (fee[t].status = "pending" => f.status = "expired") /\ (fee[t].status # "pending" => f = fee[t])
  BY <1>3, ExpiredRow
<1> HIDE DEF f
<1>6. FeeMayBecome(t, f)
  BY <1>3, <1>5 DEF TurnHolds, FeeMayBecome, IsAccredited, Accredited
<1>7. t = "first" /\ visitOf["moved"] # "none" => f.status \in Unsettled
  BY <1>3, <1>5 DEF FirstIsLeft, Unsettled
<1>8. "cancelled" \in VisitStatuses
  BY DEF VisitStatuses, Released
<1>9. QED
  BY <1>1, <1>2, <1>4, <1>5, <1>6, <1>7, <1>8, HolderWritesFee

(* The client moves the turn: the copy is born with at most the deposit by WhatsApp, and *)
(* what is left behind has no money, for the move was decided under the row.              *)
LEMMA MoveKeeps ==
    ASSUME BalanceInv, NEW c \in BalanceRequests, RescheduleByClient(c)
    PROVE  BalanceInv'
<1> DEFINE f == ExpiredCharge(fee["first"])
           g == CarriedDeposit(fee["first"])
           v == IF IsLive(fee["first"]) THEN "pending_payment" ELSE visitOf["first"]
<1>1. /\ call[c].at = "locked" /\ call[c].turn = "first" /\ UNCHANGED remainders /\ Answered(c, TRUE)
      /\ Active("first") /\ ~ Paid("first")
  BY HolderFacts DEF RescheduleByClient, Locked, CallAt, LockedKnows
<1>2. /\ visitOf' = [visitOf EXCEPT !["first"] = "cancelled", !["moved"] = v]
      /\ fee' = [fee EXCEPT !["first"] = f, !["moved"] = g]
  BY <1>1 DEF RescheduleByClient
<1>3. /\ fee["first"] \in FeeRows /\ ~ IsAccredited(fee["first"]) /\ LiveRests("first") = {}
      /\ visitOf["first"] \in VisitStatuses /\ visitOf["first"] # "cancelled"
  BY <1>1, BalanceFacts DEF Paid, Active, BothTurns, VisitStatuses
<1>4. /\ visitOf["moved"] = "none" /\ fee["moved"] = NoFee /\ remainders["moved"] = <<>>
  BY <1>3, BalanceFacts DEF FirstIsLeft
<1>5. f \in FeeRows /\ f.status \in Unsettled /\ (fee["first"].status = "refunded" => f.status = "refunded")
  BY <1>3, ExpiredRow DEF Unsettled, FeeRows, IsAccredited
<1>6. g \in FeeRows /\ ~ IsAccredited(g)
  BY <1>3 DEF CarriedDeposit, IsLive, NoFee, FeeRows, IsAccredited, Accredited
<1>7. v \in VisitStatuses /\ v # "none"
  BY <1>3 DEF VisitStatuses, Released
<1> HIDE DEF f, g, v
<1>8. /\ visitOf' \in [BothTurns -> {"none"} \cup VisitStatuses]
      /\ visitOf'["first"] = "cancelled" /\ visitOf'["moved"] = v
  BY <1>2, <1>7, BalanceFacts DEF BalanceTypeOK, BothTurns, VisitStatuses, Released
<1>9. /\ fee' \in [BothTurns -> FeeRows] /\ fee'["first"] = f /\ fee'["moved"] = g
  BY <1>2, <1>5, <1>6, BalanceFacts DEF BalanceTypeOK, BothTurns
<1>10. LiveRests("first")' = {} /\ LiveRests("moved")' = {} /\ LiveRests("moved") = {}
  BY <1>1, <1>3, <1>4 DEF LiveRests
<1>11. SavedStays
  BY <1>1, <1>8, AnsweredEnds
<1>12. TurnHolds("first")'
  <2>1. FeeMayBecome("first", fee'["first"])
    BY <1>3 DEF FeeMayBecome
  <2>2. QED
    BY <1>1, <1>11, <2>1, FeeWritten DEF BothTurns
<1>13. TurnHolds("moved")'
  BY <1>1, <1>4, <1>10 DEF TurnHolds
<1>14. FirstIsLeft'
  BY <1>5, <1>7, <1>8, <1>9, <1>10 DEF FirstIsLeft
<1>15. WrittenByHolder(c, "first") /\ WrittenByHolder(c, "moved")
  BY <1>1, <1>4, <1>5, <1>7, <1>8, <1>9, <1>10, <1>12, <1>13 DEF WrittenByHolder, NoFee
<1>16. \A u \in BothTurns : TurnKept(u) \/ WrittenByHolder(c, u)
  BY <1>15 DEF BothTurns
<1>17. remainders' \in [BothTurns -> Seq(RestRows)]
  BY <1>1, BalanceFacts DEF BalanceTypeOK
<1>18. QED
  BY <1>1, <1>8, <1>9, <1>14, <1>16, <1>17, CommitKeeps

(* The refund reads an accredited charge, without a lock. *)
LEMMA ReadKeeps ==
    ASSUME BalanceInv, NEW c \in BalanceRequests, ReadToRefund(c)
    PROVE  BalanceInv'
<1>0. call[c] \in Calls
  BY BalanceFacts
<1>1. SUFFICES ASSUME NEW q \in Calls, q = call[c] PROVE BalanceInv'
  BY <1>0
<1>2. /\ q.at = "asked" /\ q.kind = "refund" /\ q.turn \in BothTurns
      /\ UNCHANGED <<visitOf, fee, remainders>> /\ visitOf[q.turn] # "none"
      /\ ~ q.keyed
  BY <1>1, BalanceFacts DEF ReadToRefund, CallAt, CallHolds, Keyed
<1>3. CASE ~ IsAccredited(fee[q.turn])
  BY <1>1, <1>2, <1>3, CallEnds DEF ReadToRefund
<1>4. CASE IsAccredited(fee[q.turn])
  <2> DEFINE y == [q EXCEPT !.at = "read", !.read = fee[q.turn]]
  <2>1. call' = [call EXCEPT ![c] = y] /\ UNCHANGED keyMark
    BY <1>1, <1>4, BalanceFacts DEF ReadToRefund, BalanceTypeOK, Calls
  <2>2. /\ y \in Calls /\ y.at = "read" /\ y.kind = "refund" /\ y.turn = q.turn /\ ~ y.keyed
        /\ IsAccredited(y.read)
    BY <1>2, <1>4, BalanceFacts DEF Calls
  <2> HIDE DEF y
  <2>3. PICK x \in Calls : x = y
    BY <2>2
  <2>4. call'[c] = x /\ \A d \in BalanceRequests \ {c} : call'[d] = call[d]
    BY <2>1, <2>3, BalanceFacts DEF BalanceTypeOK
  <2>5. CallHolds(c)'
    BY <1>2, <2>2, <2>3, <2>4 DEF CallHolds, IsAccredited
  <2>6. SavedStays /\ (\A d \in BalanceRequests \ {c} : CallKept(d))
        /\ keyMark' \in [Keyed \X BothTurns -> {"none", "processing", "saved"}]
    BY <2>1, <2>4, BalanceFacts DEF SavedStays, CallKept, BalanceTypeOK
  <2>7. QED
    BY <1>2, <2>1, <2>2, <2>3, <2>5, <2>6, CallMoves
<1>5. QED
  BY <1>3, <1>4

(* The answer of a refund tells of the remainder that is live when it is read. *)
LEMMA AnswerKeeps ==
    ASSUME BalanceInv, NEW c \in BalanceRequests, AnswerRefund(c)
    PROVE  BalanceInv'
<1>0. call[c] \in Calls
  BY BalanceFacts
<1>1. SUFFICES ASSUME NEW q \in Calls, q = call[c] PROVE BalanceInv'
  BY <1>0
<1>2. /\ q.at = "committed" /\ q.kind = "refund" /\ q.turn \in BothTurns
      /\ UNCHANGED <<visitOf, fee, remainders, keyMark>> /\ visitOf[q.turn] # "none"
      /\ ~ q.keyed /\ fee[q.turn].status = "refunded"
  BY <1>1, BalanceFacts DEF AnswerRefund, CallAt, CallHolds, Keyed
<1> DEFINE y == [q EXCEPT !.at = "ended", !.told = TellLive(c), !.read = NoFee]
<1>3. call' = [call EXCEPT ![c] = y]
  BY <1>1, BalanceFacts DEF AnswerRefund, BalanceTypeOK
<1>4. /\ y \in Calls /\ y.at = "ended" /\ y.kind = "refund" /\ y.turn = q.turn /\ ~ y.keyed
      /\ LiveRests(q.turn) # {} => y.told
  BY <1>1, <1>2 DEF Calls, TellLive, NoFee, FeeRows
<1> HIDE DEF y
<1>5. PICK x \in Calls : x = y
  BY <1>4
<1>6. call'[c] = x /\ \A d \in BalanceRequests \ {c} : call'[d] = call[d]
  BY <1>3, <1>5, BalanceFacts DEF BalanceTypeOK
<1>7. LiveRests(q.turn)' = LiveRests(q.turn)
  BY <1>2 DEF LiveRests
<1>8. CallHolds(c)'
  BY <1>2, <1>4, <1>5, <1>6, <1>7 DEF CallHolds
<1>9. SavedStays /\ (\A d \in BalanceRequests \ {c} : CallKept(d))
      /\ keyMark' \in [Keyed \X BothTurns -> {"none", "processing", "saved"}]
  BY <1>2, <1>6, BalanceFacts DEF SavedStays, CallKept, BalanceTypeOK
<1>10. QED
  BY <1>2, <1>3, <1>4, <1>5, <1>8, <1>9, CallMoves

(* A charge or a status written under locks nobody else has. *)
LEMMA UnheldIsWritten ==
    ASSUME BalanceInv, NEW t \in BothTurns, ChargeIsFree(t), visitOf[t] # "none",
           NEW v \in VisitStatuses, NEW f \in FeeRows, SavedStays,
           visitOf' = [visitOf EXCEPT ![t] = v], fee' = [fee EXCEPT ![t] = f],
           UNCHANGED remainders, FeeMayBecome(t, f), fee[t].status = "refunded" => f.status = "refunded",
           t = "first" /\ visitOf["moved"] # "none" => v = "cancelled" /\ f.status \in Unsettled
    PROVE  /\ FirstIsLeft' /\ \A u \in BothTurns : TurnKept(u) \/ TurnWritten(u)
           /\ visitOf' \in [BothTurns -> {"none"} \cup VisitStatuses] /\ fee' \in [BothTurns -> FeeRows]
           /\ fee'[t] = f
           /\ \A u \in BothTurns : visitOf[u] # "none" => visitOf'[u] # "none"
<1>0. v # "none"
  BY DEF VisitStatuses, Released
<1>1. /\ visitOf' \in [BothTurns -> {"none"} \cup VisitStatuses] /\ fee' \in [BothTurns -> FeeRows]
      /\ visitOf'[t] = v /\ fee'[t] = f
      /\ \A u \in BothTurns \ {t} : visitOf'[u] = visitOf[u] /\ fee'[u] = fee[u]
  BY BalanceFacts DEF BalanceTypeOK
<1>2. FirstIsLeft
  BY BalanceFacts
<1>3. TurnHolds(t)' /\ LiveRests(t)' = LiveRests(t)
  BY <1>1, FeeWritten
<1>4. \A c \in BalanceRequests :
         call[c].at = "locked" /\ call[c].turn = t => call[c].kind = "revert"
  BY DEF ChargeIsFree, Holding, CallAt
<1>5. TurnWritten(t) /\ \A u \in BothTurns \ {t} : TurnKept(u)
  BY <1>0, <1>1, <1>3, <1>4 DEF TurnWritten, TurnKept
<1>6. FirstIsLeft'
  <2>1. LiveRests("first")' = LiveRests("first")
    BY DEF LiveRests
  <2>2. CASE t = "first"
    <3>1. visitOf'["moved"] = visitOf["moved"] /\ fee'["moved"] = fee["moved"]
      BY <1>1, <2>2 DEF BothTurns
    <3>2. QED
      BY <1>0, <1>1, <1>2, <2>1, <2>2, <3>1 DEF FirstIsLeft
  <2>3. CASE t = "moved"
    <3>1. visitOf'["first"] = visitOf["first"] /\ fee'["first"] = fee["first"]
      BY <1>1, <2>3 DEF BothTurns
    <3>2. QED
      BY <1>0, <1>1, <1>2, <2>1, <2>3, <3>1 DEF FirstIsLeft
  <2>4. QED
    BY <2>2, <2>3 DEF BothTurns
<1>7. QED
  BY <1>0, <1>1, <1>5, <1>6

(* The same by who is no request of the store or of the client. *)
LEMMA OutsideKeeps ==
    ASSUME BalanceInv, NEW t \in BothTurns, Unheld(t), visitOf[t] # "none",
           NEW v \in VisitStatuses, NEW f \in FeeRows, UNCHANGED <<remainders, call, keyMark>>,
           visitOf' = [visitOf EXCEPT ![t] = v], fee' = [fee EXCEPT ![t] = f],
           FeeMayBecome(t, f), fee[t].status = "refunded" => f.status = "refunded",
           t = "first" /\ visitOf["moved"] # "none" => v = "cancelled" /\ f.status \in Unsettled
    PROVE  BalanceInv'
<1>1. SavedStays
  BY DEF SavedStays
<1>2. /\ FirstIsLeft' /\ (\A u \in BothTurns : TurnKept(u) \/ TurnWritten(u))
      /\ visitOf' \in [BothTurns -> {"none"} \cup VisitStatuses] /\ fee' \in [BothTurns -> FeeRows]
  BY <1>1, UnheldIsWritten DEF Unheld
<1>3. BalanceTypeOK' /\ CallsExclude'
  BY <1>2, BalanceFacts DEF BalanceTypeOK, CallsExclude
<1>4. \A c \in BalanceRequests : CallKept(c)
  BY DEF CallKept
<1>5. QED
  BY <1>1, <1>2, <1>3, <1>4, StepKeeps

(* The refund is written when the charge is still the one it read. *)
LEMMA RefundKeeps ==
    ASSUME BalanceInv, NEW c \in BalanceRequests, CommitRefund(c)
    PROVE  BalanceInv'
<1>0. call[c] \in Calls
  BY BalanceFacts
<1>1. SUFFICES ASSUME NEW q \in Calls, q = call[c] PROVE BalanceInv'
  BY <1>0
<1> DEFINE t == q.turn
<1>2. /\ q.at = "read" /\ q.kind = "refund" /\ t \in BothTurns /\ ChargeIsFree(t)
      /\ UNCHANGED <<visitOf, remainders>> /\ visitOf[t] # "none"
      /\ ~ q.keyed /\ IsAccredited(q.read)
  BY <1>1, BalanceFacts DEF CommitRefund, CallAt, CallHolds, Keyed
<1>3. CASE fee[t] # q.read
  BY <1>1, <1>2, <1>3, CallEnds DEF CommitRefund
<1>4. CASE fee[t] = q.read
  <2> DEFINE f == [fee[t] EXCEPT !.status = "refunded"]
             y == [q EXCEPT !.at = "committed"]
  <2>0. fee[t] \in FeeRows /\ TurnHolds(t) /\ visitOf[t] \in VisitStatuses /\ FirstIsLeft
    BY <1>2, BalanceFacts
  <2>1. f \in FeeRows /\ f.status = "refunded"
    BY <2>0 DEF FeeRows
  <2>2. /\ call' = [call EXCEPT ![c] = y] /\ UNCHANGED keyMark
        /\ fee' = [fee EXCEPT ![t] = f]
    BY <1>1, <1>4, BalanceFacts DEF CommitRefund, BalanceTypeOK
  <2>3. y \in Calls /\ y.at = "committed" /\ y.kind = "refund" /\ y.turn = t /\ ~ y.keyed
    BY <1>2 DEF Calls
  <2> HIDE DEF y, f
  <2>4. FeeMayBecome(t, f)
    BY <1>2, <1>4, <2>0, <2>1 DEF FeeMayBecome, TurnHolds, IsAccredited, Accredited
  <2>5. t = "first" => visitOf["moved"] = "none"
    BY <1>2, <1>4, <2>0 DEF FirstIsLeft, IsAccredited, Accredited, Unsettled
  <2>6. SavedStays
    BY <2>2 DEF SavedStays
  <2>7. visitOf' = [visitOf EXCEPT ![t] = visitOf[t]]
    BY <1>2, BalanceFacts DEF BalanceTypeOK
  <2>8. /\ FirstIsLeft' /\ (\A u \in BothTurns : TurnKept(u) \/ TurnWritten(u))
        /\ visitOf' \in [BothTurns -> {"none"} \cup VisitStatuses] /\ fee' \in [BothTurns -> FeeRows]
        /\ fee'[t] = f
    BY <1>2, <2>0, <2>1, <2>2, <2>4, <2>5, <2>6, <2>7, UnheldIsWritten
  <2>9. /\ call' \in [BalanceRequests -> Calls] /\ call'[c] = y
        /\ \A d \in BalanceRequests \ {c} : call'[d] = call[d]
    BY <2>2, <2>3, BalanceFacts DEF BalanceTypeOK
  <2>10. BalanceTypeOK'
    BY <1>2, <2>2, <2>8, <2>9, BalanceFacts DEF BalanceTypeOK
  <2>11. CallsExclude'
    BY <2>3, <2>9, BalanceFacts DEF CallsExclude, CallKey
  <2>12. \A d \in BalanceRequests \ {c} : CallKept(d)
    BY <2>2, <2>9 DEF CallKept
  <2>13. CallHolds(c)'
    <3>1. PICK x \in Calls : x = y
      BY <2>3
    <3>2. QED
      BY <1>2, <2>1, <2>3, <2>8, <2>9, <3>1 DEF CallHolds
  <2>14. QED
    BY <2>6, <2>8, <2>10, <2>11, <2>12, <2>13, StepKeeps
<1>5. QED
  BY <1>3, <1>4

(* The store completes, marks absent or cancels the turn. *)
LEMMA StoreEndsKeeps ==
    ASSUME BalanceInv, NEW t \in BothTurns, NEW s \in {"completed", "absent", "cancelled"},
           StoreEnds(t, s)
    PROVE  BalanceInv'
<1> DEFINE f == IF s = "cancelled" THEN ExpiredCharge(fee[t]) ELSE fee[t]
<1>1. fee[t] \in FeeRows /\ TurnHolds(t) /\ FirstIsLeft
  BY BalanceFacts
<1>2. /\ f \in FeeRows /\ (fee[t].status = "pending" => f = fee[t] \/ f.status = "expired")
      /\ fee[t].status # "pending" => f = fee[t]
  BY <1>1, ExpiredRow
<1>3. /\ visitOf' = [visitOf EXCEPT ![t] = s] /\ fee' = [fee EXCEPT ![t] = f]
      /\ UNCHANGED <<remainders, call, keyMark>> /\ Unheld(t) /\ Active(t)
  BY BalanceFacts DEF StoreEnds, BalanceTypeOK
<1> HIDE DEF f
<1>4. FeeMayBecome(t, f)
  BY <1>1, <1>2 DEF FeeMayBecome, TurnHolds, IsAccredited, Accredited
<1>5. t = "first" => visitOf["moved"] = "none"
  BY <1>1, <1>3 DEF FirstIsLeft, Active
<1>6. s \in VisitStatuses /\ visitOf[t] # "none" /\ (fee[t].status = "refunded" => f.status = "refunded")
  BY <1>2, <1>3 DEF VisitStatuses, Released, Active
<1>7. QED
  BY <1>2, <1>3, <1>4, <1>5, <1>6, OutsideKeeps

(* The hold expires with its charge. *)
LEMMA HoldEndsKeeps ==
    ASSUME BalanceInv, NEW t \in BothTurns, HoldEnds(t)
    PROVE  BalanceInv'
<1> DEFINE f == ExpiredCharge(fee[t])
<1>1. fee[t] \in FeeRows /\ TurnHolds(t) /\ FirstIsLeft
  BY BalanceFacts
<1>2. /\ f \in FeeRows /\ (fee[t].status = "pending" => f.status = "expired")
      /\ fee[t].status # "pending" => f = fee[t]
  BY <1>1, ExpiredRow
<1>3. /\ visitOf' = [visitOf EXCEPT ![t] = "expired"] /\ fee' = [fee EXCEPT ![t] = f]
      /\ UNCHANGED <<remainders, call, keyMark>> /\ Unheld(t) /\ visitOf[t] = "pending_payment"
  BY DEF HoldEnds
<1> HIDE DEF f
<1>4. FeeMayBecome(t, f)
  BY <1>1, <1>2 DEF FeeMayBecome, TurnHolds, IsAccredited, Accredited
<1>5. t = "first" => visitOf["moved"] = "none"
  BY <1>1, <1>3 DEF FirstIsLeft
<1>6. "expired" \in VisitStatuses /\ (fee[t].status = "refunded" => f.status = "refunded")
  BY <1>2 DEF VisitStatuses, Released
<1>7. QED
  BY <1>2, <1>3, <1>4, <1>5, <1>6, OutsideKeeps

(* A link of the panel: no accredited charge is made anew, and a refunded one stays. *)
LEMMA RelinkKeeps ==
    ASSUME BalanceInv, NEW t \in BothTurns, NEW a \in Charged, RelinkFromPanel(t, a)
    PROVE  BalanceInv'
<1> DEFINE b == IF fee[t].status = "none" THEN [NoFee EXCEPT !.provider = "mercadopago"] ELSE fee[t]
           p == Repriced(b, a, FALSE)
           f == IF fee[t].status \in {"none", "expired"} THEN [p EXCEPT !.status = "pending"] ELSE p
<1>1. fee[t] \in FeeRows /\ TurnHolds(t) /\ FirstIsLeft /\ visitOf[t] \in {"none"} \cup VisitStatuses
  BY BalanceFacts
<1>2. b \in FeeRows /\ b.status = fee[t].status
  BY <1>1 DEF FeeRows, NoFee
<1>3. a \in Nat
  BY BalanceAssumption
<1> HIDE DEF b
<1>4. p \in FeeRows /\ p.status = fee[t].status
  BY <1>2, <1>3 DEF Repriced, FeeRows
<1> HIDE DEF p
<1>5. /\ f \in FeeRows
      /\ f.status = IF fee[t].status \in {"none", "expired"} THEN "pending" ELSE fee[t].status
  BY <1>4 DEF FeeRows
<1>6. /\ fee' = [fee EXCEPT ![t] = f] /\ visitOf' = [visitOf EXCEPT ![t] = visitOf[t]]
      /\ UNCHANGED <<remainders, call, keyMark>> /\ Unheld(t)
      /\ visitOf[t] \notin Released \cup {"none"} /\ ~ IsAccredited(fee[t])
  BY BalanceFacts DEF RelinkFromPanel, BalanceTypeOK, b, p
<1> HIDE DEF f
<1>7. FeeMayBecome(t, f)
  BY <1>1, <1>5, <1>6 DEF FeeMayBecome, TurnHolds, IsAccredited, Accredited
<1>8. t = "first" => visitOf["moved"] = "none"
  BY <1>1, <1>6 DEF FirstIsLeft, Released
<1>9. visitOf[t] \in VisitStatuses /\ visitOf[t] # "none" /\ (fee[t].status = "refunded" => f.status = "refunded")
  BY <1>1, <1>5, <1>6
<1>10. QED
  BY <1>5, <1>6, <1>7, <1>8, <1>9, OutsideKeeps

(* A payment of the link is of a live charge, and its reversal of an approved one. *)
LEMMA MpKeeps ==
    ASSUME BalanceInv, NEW t \in BothTurns, NEW s \in {"approved", "refunded"}, MpEvent(t, s)
    PROVE  BalanceInv'
<1> DEFINE f == [fee[t] EXCEPT !.status = s, !.paid = IF s = "approved" THEN fee[t].amount ELSE @]
           v == IF s = "approved" /\ visitOf[t] = "pending_payment" THEN "confirmed" ELSE visitOf[t]
<1>1. fee[t] \in FeeRows /\ TurnHolds(t) /\ FirstIsLeft /\ visitOf[t] \in {"none"} \cup VisitStatuses
  BY BalanceFacts
<1>2. f \in FeeRows /\ f.status = s
  BY <1>1 DEF FeeRows, Accredited
<1>3. /\ fee' = [fee EXCEPT ![t] = f] /\ visitOf' = [visitOf EXCEPT ![t] = v]
      /\ UNCHANGED <<remainders, call, keyMark>> /\ Unheld(t)
      /\ fee[t].provider = "mercadopago"
      /\ fee[t].status = IF s = "approved" THEN "pending" ELSE "approved"
  BY <1>1, BalanceFacts DEF MpEvent, BalanceTypeOK, IsLive
<1>4. visitOf[t] # "none"
  BY <1>3, BalanceFacts DEF FirstIsLeft, BothTurns, NoFee
<1>5. v \in VisitStatuses
  BY <1>1, <1>4 DEF VisitStatuses
<1> HIDE DEF f, v
<1>6. FeeMayBecome(t, f)
  BY <1>1, <1>2, <1>3 DEF FeeMayBecome, TurnHolds, IsAccredited, Accredited
<1>7. t = "first" => visitOf["moved"] = "none"
  BY <1>1, <1>3 DEF FirstIsLeft, Unsettled
<1>8. fee[t].status = "refunded" => f.status = "refunded"
  BY <1>3
<1>9. QED
  BY <1>2, <1>3, <1>4, <1>5, <1>6, <1>7, <1>8, OutsideKeeps

(* The first turn and its charge, and nobody asks. *)
LEMMA InitBalanceInv == BalanceInit => BalanceInv
<1>1. SUFFICES ASSUME BalanceInit PROVE BalanceInv
  OBVIOUS
<1>2. PICK f \in FirstFees :
         /\ fee = [t \in BothTurns |-> IF t = "first" THEN f ELSE NoFee]
         /\ visitOf = [t \in BothTurns |-> IF t = "moved" THEN "none"
                                           ELSE IF f.rule THEN "pending_payment" ELSE "confirmed"]
  BY <1>1 DEF BalanceInit
<1>3. /\ remainders = [t \in BothTurns |-> <<>>] /\ call = [c \in BalanceRequests |-> NoCall]
      /\ keyMark = [k \in Keyed \X BothTurns |-> "none"]
  BY <1>1 DEF BalanceInit
<1>4. f \in FeeRows /\ ~ IsAccredited(f) /\ NoFee \in FeeRows
  <2>1. NoFee \in FeeRows /\ ~ IsAccredited(NoFee)
    BY DEF FeeRows, NoFee, IsAccredited, Accredited
  <2>2. ASSUME NEW a \in Charged, NEW p \in {"mercadopago", "manual"}, NEW rule \in BOOLEAN,
               f = [status |-> "pending", amount |-> a, provider |-> p, rule |-> rule, paid |-> 0]
        PROVE  f \in FeeRows /\ ~ IsAccredited(f)
    <3>1. a \in Nat
      BY BalanceAssumption
    <3>2. QED
      BY <2>2, <3>1 DEF FeeRows, IsAccredited, Accredited
  <2>3. QED
    BY <2>1, <2>2 DEF FirstFees
<1>5. NoCall \in Calls /\ NoCall.at = "idle" /\ NoCall.kind = "none" /\ ~ NoCall.keyed /\ NoCall.turn = "first"
  BY <1>4 DEF NoCall, Calls, BothTurns
<1>6. BalanceTypeOK
  BY <1>2, <1>3, <1>4, <1>5 DEF BalanceTypeOK, VisitStatuses, BothTurns
<1>7. visitOf["first"] # "none" /\ visitOf["moved"] = "none" /\ fee["moved"] = NoFee
  BY <1>2 DEF BothTurns
<1>8. \A t \in BothTurns : remainders[t] = <<>> /\ LiveRests(t) = {}
  BY <1>3 DEF LiveRests
<1>9. \A t \in BothTurns : TurnHolds(t)
  BY <1>8 DEF TurnHolds
<1>10. \A c \in BalanceRequests : CallHolds(c)
  BY <1>3, <1>5, <1>7 DEF CallHolds
<1>11. CallsExclude
  BY <1>3, <1>5 DEF CallsExclude
<1>12. FirstIsLeft
  BY <1>7, <1>8 DEF FirstIsLeft, BothTurns
<1>13. QED
  BY <1>6, <1>9, <1>10, <1>11, <1>12 DEF BalanceInv

(* Every step of the requests and of who else writes keeps it. *)
LEMMA NextBalanceInv == BalanceInv /\ [BalanceNext]_balanceVars => BalanceInv'
<1> SUFFICES ASSUME BalanceInv, [BalanceNext]_balanceVars PROVE BalanceInv'
  OBVIOUS
<1>1. ASSUME NEW c \in BalanceRequests, NEW t \in BothTurns, NEW k \in BOOLEAN,
             NEW kind \in {"record", "revert", "confirm", "refund"}, NEW a \in {0} \cup Charged,
             StaffAsks(c, kind, t, a, k)
      PROVE  BalanceInv'
  BY <1>1, BalanceAssumption, AskKeeps DEF StaffAsks
<1>2. ASSUME NEW c \in BalanceRequests, NEW t \in BothTurns, NEW k \in BOOLEAN,
             NEW kind \in {"cancel", "move"}, ClientRequests(c, kind, t, k)
      PROVE  BalanceInv'
  BY <1>2, AskKeeps DEF ClientRequests
<1>3. ASSUME NEW c \in BalanceRequests, Refused(c) \/ NotTheHolder(c) \/ NewSlotRefused(c)
      PROVE  BalanceInv'
  BY <1>3, CallEnds DEF Refused, NotTheHolder, NewSlotRefused, ClientRefused
<1>4. ASSUME NEW c \in BalanceRequests, CallStep(c) PROVE BalanceInv'
  <2>1. ASSUME RecordRemaining(c) \/ RevertRemaining(c) \/ ManualConfirm(c) PROVE BalanceInv'
    BY <2>1, RecordKeeps, RevertKeeps, ConfirmKeeps
  <2>2. ASSUME CancelByClient(c) \/ RescheduleByClient(c) PROVE BalanceInv'
    BY <2>2, CancelKeeps, MoveKeeps
  <2>3. ASSUME ReadToRefund(c) \/ CommitRefund(c) \/ AnswerRefund(c) PROVE BalanceInv'
    BY <2>3, ReadKeeps, RefundKeeps, AnswerKeeps
  <2>4. QED
    BY <1>1, <1>2, <1>3, <1>4, <2>1, <2>2, <2>3, LockKeeps DEF CallStep
<1>5. ASSUME NEW t \in BothTurns, NEW s \in {"completed", "absent", "cancelled"}, StoreEnds(t, s)
      PROVE  BalanceInv'
  BY <1>5, StoreEndsKeeps
<1>6. ASSUME NEW t \in BothTurns, NEW a \in Charged, RelinkFromPanel(t, a) PROVE BalanceInv'
  BY <1>6, RelinkKeeps
<1>7. ASSUME NEW t \in BothTurns, NEW s \in {"approved", "refunded"}, MpEvent(t, s) PROVE BalanceInv'
  BY <1>7, MpKeeps
<1>8. ASSUME NEW t \in BothTurns, HoldEnds(t) PROVE BalanceInv'
  BY <1>8, HoldEndsKeeps
<1>9. CASE UNCHANGED balanceVars
  <2>1. UNCHANGED <<visitOf, fee, remainders, call, keyMark>>
    BY <1>9 DEF balanceVars
  <2>2. (\A u \in BothTurns : TurnKept(u)) /\ (\A c \in BalanceRequests : CallKept(c)) /\ SavedStays
    BY <2>1 DEF TurnKept, CallKept, SavedStays
  <2>3. BalanceTypeOK' /\ CallsExclude' /\ FirstIsLeft'
    BY <2>1, BalanceFacts DEF BalanceTypeOK, CallsExclude, CallKey, FirstIsLeft, LiveRests
  <2>4. QED
    BY <2>2, <2>3, StepKeeps
<1>10. QED
  BY <1>4, <1>5, <1>6, <1>7, <1>8, <1>9 DEF BalanceNext

(* The invariant says the four things that are wanted of the money of a turn. *)
LEMMA BalanceInvIsEnough == BalanceInv => TurnIsPaidOnce
<1> SUFFICES ASSUME BalanceInv PROVE TurnIsPaidOnce
  OBVIOUS
<1>1. PaidWithinPrice
  <2>1. SUFFICES ASSUME NEW t \in BothTurns, IsAccredited(fee[t]), LiveRests(t) # {}
                 PROVE  fee[t].amount + LiveAmount(t) <= FrozenPrice
    BY DEF PaidWithinPrice
  <2>2. \A i \in LiveRests(t) : fee[t].amount + remainders[t][i].amount <= FrozenPrice
    BY <2>1, BalanceFacts DEF TurnHolds
  <2>3. QED
    BY <2>1, <2>2 DEF LiveAmount
<1>2. MovedLeavesNoMoney
  BY BalanceFacts DEF MovedLeavesNoMoney, FirstIsLeft, Unsettled, IsAccredited, Accredited
<1>3. RefundTellsRemainder
  BY BalanceFacts DEF RefundTellsRemainder, CallHolds, CallAt
<1>4. RecordedOncePerKey
  <2>1. SUFFICES ASSUME NEW t \in BothTurns
                 PROVE  Cardinality({i \in DOMAIN remainders[t] : remainders[t][i].keyed}) <= 1
    BY DEF RecordedOncePerKey
  <2> DEFINE S == {i \in DOMAIN remainders[t] : remainders[t][i].keyed}
  <2>2. \A i, j \in S : i = j
    BY BalanceFacts DEF TurnHolds
  <2>3. S = {} \/ \E i : S = {i}
    BY <2>2
  <2>4. CASE S = {}
    BY <2>4, FS_EmptySet
  <2>5. CASE \E i : S = {i}
    <3>1. PICK i : S = {i}
      BY <2>5
    <3>2. Cardinality(S) = 1
      BY <3>1, FS_Singleton
    <3>3. QED
      BY <3>2
  <2>6. QED
    BY <2>3, <2>4, <2>5
<1>5. QED
  BY <1>1, <1>2, <1>3, <1>4 DEF TurnIsPaidOnce

(* For any number of requests, any price and any amounts: what is registered for a turn, *)
(* by whoever and in whatever order, never exceeds its price, is not left on a turn the   *)
(* client moved, is not repeated by a retry, and a refund tells of what stays.            *)
THEOREM TurnPaysOnce == BalanceSpec => []TurnIsPaidOnce
<1>1. BalanceSpec => []BalanceInv
  BY InitBalanceInv, NextBalanceInv, PTL DEF BalanceSpec
<1>2. QED
  BY <1>1, BalanceInvIsEnough, PTL
==============================================================================
