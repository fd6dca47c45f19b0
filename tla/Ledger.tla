------------------------------- MODULE Ledger -------------------------------
(* The running account of a client of a store (modules/ledger): charges,         *)
(* payments and their reversals, each with the balance it leaves. A movement is   *)
(* written in two steps, the read of the last balance and the INSERT, under an     *)
(* advisory lock per client that the commit releases. Two clients.                 *)
EXTENDS Integers, Sequences, FiniteSets

CONSTANTS LedgerClients,
          LedgerRequests, NoClient,
          LedgerAmounts,     \* amounts of a movement; an adjustment has a sign
          MaxMovements       \* bound: movements of a client

ASSUME LedgerAssumption == LedgerAmounts \subseteq Nat /\ MaxMovements \in Nat

VARIABLES account,    \* per client, its movements by created_at
          ledgerReq   \* per request: where it is, its client and what it read

ledgerVars == <<account, ledgerReq>>

MovementTypes == {"charge", "payment", "adjustment", "refund"}
IdleLedger == [at |-> "idle", client |-> NoClient, type |-> "charge", amount |-> 0,
               reverses |-> 0, read |-> 0]

Movements == [type : MovementTypes, amount : Int, reverses : Nat, balance : Int]
LedgerCalls == [at : {"idle", "read"}, client : LedgerClients \cup {NoClient},
                type : MovementTypes, amount : Int, reverses : Nat, read : Int]

LedgerTypeOK ==
    /\ account \in [LedgerClients -> Seq(Movements)]
    /\ ledgerReq \in [LedgerRequests -> LedgerCalls]

LedgerInit ==
    /\ account = [c \in LedgerClients |-> <<>>]
    /\ ledgerReq = [r \in LedgerRequests |-> IdleLedger]

-----------------------------------------------------------------------------
(* CustomerLedger.signed *)
Signed(type, amount) == IF type \in {"payment", "refund"} THEN -amount ELSE amount
SignedAmount(m) == Signed(m.type, m.amount)

(* current_balance *)
CurrentBalance(c) ==
    IF account[c] = <<>> THEN 0 ELSE account[c][Len(account[c])].balance

(* _lock_client_ledger: pg_advisory_xact_lock, held to the commit. Plausible bug:   *)
(* no lock, or one that the read releases.                                        *)
NoLedgerLock(r, c) == TRUE
LockClientLedger(r, c) ==
    \A q \in LedgerRequests \ {r} : ledgerReq[q].at = "read" => ledgerReq[q].client # c

(* add_customer_ledger_movement, add_movement up to the INSERT: the client is one   *)
(* of the store (ensure_store_client), as is the appointment.                      *)
AddMovement(r, c, type, amount) ==
    /\ ledgerReq[r].at = "idle"
    /\ Len(account[c]) < MaxMovements
    /\ LockClientLedger(r, c)
    /\ ledgerReq' = [ledgerReq EXCEPT ![r] =
          [at |-> "read", client |-> c, type |-> type, amount |-> amount, reverses |-> 0,
           read |-> CurrentBalance(c)]]
    /\ UNCHANGED account

IsReversal(m) == m.reverses # 0
AlreadyReversed(c, i) == \E j \in DOMAIN account[c] : account[c][j].reverses = i

(* reverse_customer_ledger_movement, reverse_movement and build_reversal up to the   *)
(* INSERT, under the same lock: an adjustment of the opposite sign, once.            *)
ReverseMovement(r, c, i) ==
    /\ ledgerReq[r].at = "idle"
    /\ Len(account[c]) < MaxMovements
    /\ LockClientLedger(r, c)
    /\ i \in DOMAIN account[c]
    /\ ~IsReversal(account[c][i])
    /\ ~AlreadyReversed(c, i)
    /\ ledgerReq' = [ledgerReq EXCEPT ![r] =
          [at |-> "read", client |-> c, type |-> "adjustment",
           amount |-> -SignedAmount(account[c][i]), reverses |-> i, read |-> CurrentBalance(c)]]
    /\ UNCHANGED account

(* The INSERT and the commit; created_at is the clock of the INSERT, and reverses_id  *)
(* is unique.                                                                        *)
CommitMovement(r) ==
    LET q == ledgerReq[r] IN
    /\ q.at = "read"
    /\ ledgerReq' = [ledgerReq EXCEPT ![r] = IdleLedger]
    /\ IF q.reverses # 0 /\ AlreadyReversed(q.client, q.reverses)
       THEN UNCHANGED account
       ELSE account' = [account EXCEPT ![q.client] = Append(@,
              [type |-> q.type, amount |-> q.amount, reverses |-> q.reverses,
               balance |-> q.read + Signed(q.type, q.amount)])]

(* The request fails or its process dies: the lock goes with the transaction. *)
LedgerRequestDies(r) ==
    /\ ledgerReq[r].at = "read"
    /\ ledgerReq' = [ledgerReq EXCEPT ![r] = IdleLedger]
    /\ UNCHANGED account

LedgerNext ==
    \E r \in LedgerRequests :
        \/ \E c \in LedgerClients :
              \/ \E type \in MovementTypes, amount \in LedgerAmounts :
                    AddMovement(r, c, type, amount)
              \/ \E i \in 1..MaxMovements : ReverseMovement(r, c, i)
        \/ CommitMovement(r)
        \/ LedgerRequestDies(r)

LedgerSpec == LedgerInit /\ [][LedgerNext]_ledgerVars

-----------------------------------------------------------------------------
(* get_ledger_summary: what the store is owed, the last balance of each debtor. *)
Debtors == {c \in LedgerClients : CurrentBalance(c) > 0}

(* The movements that count: neither a reversal nor reversed. *)
Standing(c) == {i \in DOMAIN account[c] : ~IsReversal(account[c][i]) /\ ~AlreadyReversed(c, i)}

(* Reference definition: the sum of f over the members of S up to n. *)
SumOver(S, f, n) ==
    LET sum[k \in 0..n] == IF k = 0 THEN 0 ELSE sum[k - 1] + (IF k \in S THEN f[k] ELSE 0)
    IN sum[n]

(* The balance shown is the sum of the movements nobody reversed, whatever the        *)
(* requests that cross: "deja el saldo como si el movimiento erroneo nunca hubiera     *)
(* existido" (add_movement, reverse_movement, current_balance).                        *)
BalanceIsStanding ==
    \A c \in LedgerClients :
        LET amount == [i \in DOMAIN account[c] |-> SignedAmount(account[c][i])]
        IN CurrentBalance(c) = SumOver(Standing(c), amount, Len(account[c]))
=============================================================================
