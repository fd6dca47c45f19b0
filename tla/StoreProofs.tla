----------------------------- MODULE StoreProofs -----------------------------
(* A store and its portal: the debts of its clients, its accounts, its        *)
(* reminders, the weeks of its professionals and what they offer, its channels *)
(* of deposit and what a booking is charged; for any number of clients,       *)
(* movements, accounts, appointments, runs, requests, editors, services and   *)
(* ranges of hours.                                                           *)
EXTENDS Ledger, Admins, Notifications, Deposits, Availability, FiniteSetTheorems,
        SequenceTheorems, WellFoundedInduction, TLAPS

(* The debts. The sum of a ledger is computed by a recursive function: Least and *)
(* SumOverIs are the induction over the naturals that says what it is.        *)

(* What a running request knows of its client: the lock keeps it true. *)
KnowsAccount(r) ==
    LET q == ledgerReq[r] IN
    q.at = "read" =>
      /\ q.client \in LedgerClients
      /\ q.read = CurrentBalance(q.client)
      /\ q.reverses # 0 =>
            /\ q.reverses \in Standing(q.client)
            /\ q.type = "adjustment"
            /\ q.amount = -SignedAmount(account[q.client][q.reverses])

LedgerLocked ==
    \A q, r \in LedgerRequests :
        q # r /\ ledgerReq[q].at = "read" /\ ledgerReq[r].at = "read"
        => ledgerReq[q].client # ledgerReq[r].client

ReversesKnown ==
    \A c \in LedgerClients : \A i \in 1..Len(account[c]) : account[c][i].reverses <= Len(account[c])

(* s adds up f over S, number by number up to n. *)
AddsUp(s, S, f, n) ==
    /\ s \in [0..n -> Int]
    /\ s[0] = 0
    /\ \A k \in 1..n : f[k] \in Int /\ s[k] = s[k - 1] + (IF k \in S THEN f[k] ELSE 0)

Amounts(c) == [i \in DOMAIN account[c] |-> SignedAmount(account[c][i])]

(* The balances that stand, movement by movement, end in the one that is shown. *)
Running(c, s) ==
    /\ AddsUp(s, Standing(c), Amounts(c), Len(account[c]))
    /\ s[Len(account[c])] = CurrentBalance(c)

LedgerInv ==
    /\ LedgerTypeOK
    /\ LedgerLocked
    /\ ReversesKnown
    /\ \A r \in LedgerRequests : KnowsAccount(r)
    /\ \A c \in LedgerClients : \E s : Running(c, s)

(* A set of natural numbers that is not empty has a least element. *)
LEMMA Least ==
  ASSUME NEW T \in SUBSET Nat, T # {} PROVE \E x \in T : \A y \in T : x <= y
<1> DEFINE Below == OpToRel(<, Nat)
<1>1. \A x, y \in Nat : y < x => <<y, x>> \in Below
  BY DEF OpToRel
<1>2. IsWellFoundedOn(Below, Nat)
  BY NatLessThanWellFounded
<1> HIDE DEF Below
<1>3. PICK x \in T : \A y \in T : ~ (<<y, x>> \in Below)
  BY <1>2, WFMin
<1>4. ASSUME NEW y \in T PROVE x <= y
  <2>1. ~ (<<y, x>> \in Below)
    BY <1>3
  <2>2. x \in Nat /\ y \in Nat
    OBVIOUS
  <2>3. ~ (y < x)
    BY <1>1, <2>1, <2>2
  <2>4. QED
    BY <2>2, <2>3
<1>5. QED BY <1>4

(* A function that adds up f over S step by step gives what SumOver gives. *)
LEMMA SumOverIs ==
    ASSUME NEW S, NEW f, NEW n \in Nat, NEW s, AddsUp(s, S, f, n)
    PROVE  SumOver(S, f, n) = s[n]
<1> DEFINE Step(g) == [k \in 0..n |-> IF k = 0 THEN 0 ELSE g[k - 1] + (IF k \in S THEN f[k] ELSE 0)]
<1> DEFINE sum == CHOOSE g : g = Step(g)
<1>1. s = Step(s)
  BY DEF AddsUp
<1>2. sum = Step(sum)
  BY <1>1
<1> HIDE DEF sum
<1> DEFINE D == {k \in 0..n : sum[k] # s[k]}
<1>3. ASSUME D # {} PROVE FALSE
  <2>1. PICK x \in D : \A y \in D : x <= y
    <3> HIDE DEF D
    <3>1. D # {} /\ D \in SUBSET Nat BY <1>3 DEF D
    <3>2. QED BY <3>1, Least
  <2>2. CASE x = 0
    BY <2>1, <2>2, <1>2 DEF AddsUp
  <2>3. CASE x # 0
    <3>1. x - 1 \in 0..n /\ x \in 1..n
      BY <2>1, <2>3
    <3>2. sum[x - 1] = s[x - 1]
      BY <2>1, <3>1
    <3>3. sum[x] = sum[x-1] + (IF x \in S THEN f[x] ELSE 0)
      BY <1>2, <3>1
    <3>4. QED
      BY <3>1, <3>2, <3>3, <2>1 DEF AddsUp
  <2>4. QED
    BY <2>2, <2>3
<1>4. SumOver(S, f, n) = sum[n]
  BY DEF SumOver, sum
<1>5. QED
  BY <1>3, <1>4

(* No client owes anything at the start. *)
LEMMA InitLedgerInv == LedgerInit => LedgerInv
<1> SUFFICES ASSUME LedgerInit PROVE LedgerInv
  OBVIOUS
<1> USE DEF LedgerInit, IdleLedger
<1>1. LedgerTypeOK
  BY DEF LedgerTypeOK, LedgerCalls, Movements, MovementTypes
<1>2. LedgerLocked /\ ReversesKnown
  BY DEF LedgerLocked, ReversesKnown
<1>3. ASSUME NEW c \in LedgerClients PROVE \E s : Running(c, s)
  <2>1. Running(c, [k \in {0} |-> 0])
    BY DEF Running, CurrentBalance, AddsUp
  <2>2. QED
    BY <2>1
<1>4. QED
  BY <1>1, <1>2, <1>3 DEF LedgerInv, KnowsAccount

(* The invariant gives the property. *)
LEMMA RunningIsBalance == LedgerInv => BalanceIsStanding
<1> SUFFICES ASSUME LedgerInv, NEW c \in LedgerClients
             PROVE  CurrentBalance(c) = SumOver(Standing(c), Amounts(c), Len(account[c]))
  BY DEF BalanceIsStanding, Amounts
<1>1. Len(account[c]) \in Nat
  BY DEF LedgerInv, LedgerTypeOK
<1>2. PICK s : Running(c, s)
  BY DEF LedgerInv
<1>3. SumOver(Standing(c), Amounts(c), Len(account[c])) = s[Len(account[c])]
  BY <1>1, <1>2, SumOverIs DEF Running
<1>4. QED
  BY <1>2, <1>3 DEF Running

(* What the types of a movement give. *)
LEMMA MovementsOf ==
    ASSUME LedgerTypeOK, NEW c \in LedgerClients
    PROVE  /\ account[c] \in Seq(Movements)
           /\ Len(account[c]) \in Nat
           /\ DOMAIN account[c] = 1..Len(account[c])
           /\ \A k \in 1..Len(account[c]) :
                 /\ account[c][k] \in Movements
                 /\ account[c][k].reverses \in Nat
                 /\ SignedAmount(account[c][k]) \in Int
           /\ CurrentBalance(c) \in Int
<1>1. account[c] \in Seq(Movements)
  BY DEF LedgerTypeOK
<1>2. Len(account[c]) \in Nat /\ DOMAIN account[c] = 1..Len(account[c])
  BY <1>1
<1>3. \A k \in 1..Len(account[c]) : account[c][k] \in Movements
  BY <1>1, ElementOfSeq
<1>4. \A k \in 1..Len(account[c]) : account[c][k].reverses \in Nat /\ SignedAmount(account[c][k]) \in Int
  BY <1>3 DEF Movements, SignedAmount, Signed
<1>5. CurrentBalance(c) \in Int
  <2>1. CASE account[c] = <<>>
    BY <2>1 DEF CurrentBalance
  <2>2. CASE account[c] # <<>>
    <3>1. Len(account[c]) \in 1..Len(account[c])
      BY <2>2, <1>1, <1>2, EmptySeq
    <3>2. account[c][Len(account[c])].balance \in Int
      BY <3>1, <1>3 DEF Movements
    <3>3. QED
      BY <3>2, <2>2 DEF CurrentBalance
  <2>3. QED
    BY <2>1, <2>2
<1>6. QED
  BY <1>1, <1>2, <1>3, <1>4, <1>5

(* A step that leaves the movements of a client as they are. *)
LEMMA SameAccount ==
    ASSUME NEW c \in LedgerClients, account'[c] = account[c]
    PROVE  /\ CurrentBalance(c)' = CurrentBalance(c)
           /\ Standing(c)' = Standing(c)
           /\ \A s : Running(c, s)' = Running(c, s)
  BY DEF CurrentBalance, Standing, AlreadyReversed, Amounts, Running

(* A request whose client saw no movement knows what it knew. *)
LEMMA SameKnowledge ==
    ASSUME NEW r, KnowsAccount(r), ledgerReq'[r] = ledgerReq[r],
           account'[ledgerReq[r].client] = account[ledgerReq[r].client]
    PROVE  KnowsAccount(r)'
  BY DEF KnowsAccount, CurrentBalance, Standing, AlreadyReversed

(* A movement that reverses nothing stands, one that reverses another takes it away:   *)
(* in both cases the balance it leaves is the sum of those that stand.                  *)
LEMMA Appended ==
    ASSUME LedgerInv, NEW c \in LedgerClients, NEW m \in Movements,
           account' = [account EXCEPT ![c] = Append(@, m)],
           m.balance = CurrentBalance(c) + SignedAmount(m),
           m.reverses # 0 =>
              /\ m.reverses \in Standing(c)
              /\ SignedAmount(m) = -SignedAmount(account[c][m.reverses])
    PROVE  \E s : Running(c, s)'
<1> DEFINE n == Len(account[c])
           i == m.reverses
           back == IF i = 0 THEN 0 ELSE SignedAmount(account[c][i])
<1>1. account[c] \in Seq(Movements) /\ n \in Nat /\ DOMAIN account[c] = 1..n
  BY MovementsOf DEF LedgerInv
<1>2. \A k \in 1..n : account[c][k].reverses \in Nat /\ SignedAmount(account[c][k]) \in Int
  BY MovementsOf DEF LedgerInv
<1>3. /\ account'[c] = Append(account[c], m)
      /\ Len(account'[c]) = n + 1
      /\ DOMAIN account'[c] = 1..(n + 1)
      /\ \A k \in 1..n : account'[c][k] = account[c][k]
      /\ account'[c][n + 1] = m
  BY <1>1 DEF LedgerInv, LedgerTypeOK
<1>4. SignedAmount(m) \in Int /\ i \in Nat
  BY DEF Movements, SignedAmount, Signed
<1>5. Standing(c) \subseteq 1..n /\ (i # 0 => i \in 1..n)
  BY <1>1 DEF Standing
<1>6. back \in Int
  BY <1>2, <1>5
<1>7. \A k \in 1..n : account[c][k].reverses \in Nat /\ account[c][k].reverses <= n
  BY <1>2 DEF LedgerInv, ReversesKnown
<1>8. Standing(c)' = IF i = 0 THEN Standing(c) \cup {n + 1} ELSE Standing(c) \ {i}
  <2>1. \A k \in 1..n : k \in Standing(c)' <=> k \in Standing(c) /\ k # i
    BY <1>1, <1>3, <1>4 DEF Standing, IsReversal, AlreadyReversed
  <2>2. n + 1 \in Standing(c)' <=> i = 0
    BY <1>1, <1>3, <1>4, <1>5, <1>7 DEF Standing, IsReversal, AlreadyReversed
  <2>3. Standing(c)' \subseteq 1..(n + 1)
    BY <1>3 DEF Standing
  <2>4. QED
    BY <1>1, <1>5, <2>1, <2>2, <2>3
<1>9. PICK s : Running(c, s)
  BY DEF LedgerInv
<1> DEFINE t == [k \in 0..(n + 1) |->
                   IF k = n + 1 THEN s[n] + SignedAmount(m)
                   ELSE IF i = 0 \/ k < i THEN s[k] ELSE s[k] - back]
<1>10. /\ s \in [0..n -> Int] /\ s[0] = 0
       /\ \A k \in 1..n : s[k] = s[k - 1] + (IF k \in Standing(c) THEN SignedAmount(account[c][k]) ELSE 0)
       /\ s[n] = CurrentBalance(c)
  BY <1>1, <1>9 DEF Running, AddsUp, Amounts
<1>11. \A k \in 1..(n + 1) :
          /\ Amounts(c)'[k] = IF k = n + 1 THEN SignedAmount(m) ELSE SignedAmount(account[c][k])
          /\ Amounts(c)'[k] \in Int
  BY <1>1, <1>2, <1>3, <1>4 DEF Amounts, SignedAmount
<1>12. t \in [0..(n + 1) -> Int] /\ t[0] = 0
  <2>1. \A k \in 0..n : s[k] \in Int /\ s[k] - back \in Int
    <3> HIDE DEF back, n
    <3>1. PICK b \in Int : b = back
      BY <1>6
    <3>2. s \in [0..n -> Int]
      BY <1>10
    <3>3. \A k \in 0..n : s[k] \in Int
      BY <3>2
    <3>4. \A x \in Int : x - b \in Int
      OBVIOUS
    <3>5. QED
      BY <3>1, <3>3, <3>4
  <2>2. s[n] + SignedAmount(m) \in Int
    BY <2>1, <1>1, <1>4
  <2>3. \A k \in 0..(n + 1) : k = n + 1 \/ k \in 0..n
    BY <1>1
  <2>4. ASSUME NEW k \in 0..(n + 1) PROVE t[k] \in Int
    <3>1. CASE k = n + 1
      BY <3>1, <2>2
    <3>2. CASE k \in 0..n
      BY <3>2, <2>1, <2>2
    <3>3. QED
      BY <3>1, <3>2, <2>3
  <2>5. t[0] = 0
    BY <1>1, <1>4, <1>5, <1>10
  <2>6. QED
    BY <2>4, <2>5
<1>13. ASSUME NEW k \in 1..(n + 1)
       PROVE  t[k] = t[k - 1] + (IF k \in Standing(c)' THEN Amounts(c)'[k] ELSE 0)
  <2>1. CASE k = n + 1 /\ i = 0
    BY <2>1, <1>1, <1>4, <1>8, <1>10, <1>11
  <2>2. CASE k = n + 1 /\ i # 0
    <3>1. t[k] = s[n] + SignedAmount(m) /\ t[k - 1] = s[n] - back
      BY <2>2, <1>1, <1>4, <1>5
    <3>2. k \notin Standing(c)'
      BY <2>2, <1>5, <1>8, <1>1
    <3>3. SignedAmount(m) = -back
      BY <2>2
    <3>4. s[n] \in Int
      BY <1>1, <1>10
    <3>5. QED
      BY <3>1, <3>2, <3>3, <3>4, <1>6
  <2>3. CASE k # n + 1 /\ (i = 0 \/ k < i)
    BY <2>3, <1>1, <1>4, <1>8, <1>10, <1>11
  <2>4. CASE k # n + 1 /\ i # 0 /\ k = i
    <3>1. t[k] = s[k] - back /\ t[k - 1] = s[k - 1]
      BY <2>4, <1>1, <1>5
    <3>2. s[k] = s[k - 1] + back
      BY <2>4, <1>10, <1>5
    <3>3. k \notin Standing(c)'
      BY <2>4, <1>8
    <3>4. s[k - 1] \in Int
      BY <2>4, <1>10, <1>1
    <3>5. QED
      BY <3>1, <3>2, <3>3, <3>4, <1>6
  <2>5. CASE k # n + 1 /\ i # 0 /\ k > i
    <3>1. k \in 1..n /\ k - 1 \in 0..n /\ t[k] = s[k] - back /\ t[k - 1] = s[k - 1] - back
      BY <2>5, <1>1, <1>5
    <3>2. k \in Standing(c)' <=> k \in Standing(c)
      BY <2>5, <1>8
    <3>3. s[k - 1] \in Int /\ s[k] \in Int
      <4> HIDE DEF n
      <4>1. \A x \in 0..n : s[x] \in Int
        BY <1>10
      <4>2. k \in 0..n /\ k - 1 \in 0..n
        BY <3>1
      <4>3. QED BY <4>1, <4>2
    <3>4. QED
      BY <3>1, <3>2, <3>3, <1>6, <1>10, <1>11, <1>2, <2>5
  <2>6. QED
    BY <2>1, <2>2, <2>3, <2>4, <2>5, <1>4, <1>5, <1>1
<1>14. CurrentBalance(c)' = t[n + 1]
  <2>1. account'[c] # <<>>
    BY <1>1, <1>3
  <2>2. CurrentBalance(c)' = m.balance
    BY <2>1, <1>3 DEF CurrentBalance
  <2>3. t[n + 1] = s[n] + SignedAmount(m)
    BY <1>1
  <2>4. QED
    BY <2>2, <2>3, <1>10
<1>15. QED
  <2>1. AddsUp(t, Standing(c)', Amounts(c)', n + 1)
    BY <1>11, <1>12, <1>13 DEF AddsUp
  <2>2. PICK u : u = t
    OBVIOUS
  <2>3. AddsUp(u, Standing(c)', Amounts(c)', Len(account'[c])) /\ u[Len(account'[c])] = CurrentBalance(c)'
    BY <1>3, <1>14, <2>1, <2>2
  <2>4. Running(c, u)'
    BY <2>3 DEF Running, AddsUp
  <2>5. QED
    BY <2>4

(* The step that reads: the account stays as it is. *)
LEMMA ReadKeeps ==
    ASSUME LedgerInv, NEW r \in LedgerRequests, NEW c \in LedgerClients, NEW q \in LedgerCalls,
           LockClientLedger(r, c), account' = account,
           ledgerReq' = [ledgerReq EXCEPT ![r] = q], q.at = "read", q.client = c,
           q.read = CurrentBalance(c),
           q.reverses # 0 =>
              /\ q.reverses \in Standing(c)
              /\ q.type = "adjustment"
              /\ q.amount = -SignedAmount(account[c][q.reverses])
    PROVE  LedgerInv'
<1>1. LedgerTypeOK'
  BY DEF LedgerInv, LedgerTypeOK
<1>2. LedgerLocked'
  BY DEF LockClientLedger, LedgerInv, LedgerLocked, LedgerTypeOK
<1>3. ASSUME NEW p \in LedgerRequests PROVE KnowsAccount(p)'
  <2>1. CASE p = r
    <3>1. ledgerReq'[p] = q
      BY <2>1 DEF LedgerInv, LedgerTypeOK
    <3>2. CurrentBalance(c)' = CurrentBalance(c) /\ Standing(c)' = Standing(c)
      BY SameAccount
    <3>3. QED
      BY <3>1, <3>2 DEF KnowsAccount
  <2>2. CASE p # r
    <3>1. KnowsAccount(p) /\ ledgerReq'[p] = ledgerReq[p]
      BY <2>2 DEF LedgerInv, LedgerTypeOK
    <3>2. QED
      BY <3>1, SameKnowledge
  <2>3. QED
    BY <2>1, <2>2
<1>4. ReversesKnown'
  BY DEF LedgerInv, ReversesKnown
<1>5. \A d \in LedgerClients : \E s : Running(d, s)'
  BY SameAccount DEF LedgerInv
<1>6. QED
  BY <1>1, <1>2, <1>3, <1>4, <1>5 DEF LedgerInv

(* Every movement, reversal, commit and death of a request keeps the invariant. *)
LEMMA NextLedgerInv == LedgerInv /\ [LedgerNext]_ledgerVars => LedgerInv'
<1> SUFFICES ASSUME LedgerInv, [LedgerNext]_ledgerVars PROVE LedgerInv'
  OBVIOUS
<1> USE DEF IdleLedger
<1>1. ASSUME NEW r \in LedgerRequests, NEW c \in LedgerClients, NEW type \in MovementTypes,
             NEW amount \in LedgerAmounts, AddMovement(r, c, type, amount)
      PROVE  LedgerInv'
  <2> DEFINE q == [at |-> "read", client |-> c, type |-> type, amount |-> amount, reverses |-> 0,
                   read |-> CurrentBalance(c)]
  <2>1. CurrentBalance(c) \in Int /\ amount \in Int
    BY MovementsOf, LedgerAssumption DEF LedgerInv
  <2>2. q \in LedgerCalls
    BY <2>1 DEF LedgerCalls
  <2>3. LockClientLedger(r, c) /\ account' = account /\ ledgerReq' = [ledgerReq EXCEPT ![r] = q]
    BY <1>1 DEF AddMovement
  <2>4. q.at = "read" /\ q.client = c /\ q.read = CurrentBalance(c) /\ q.reverses = 0
    OBVIOUS
  <2> HIDE DEF q
  <2>5. QED
    BY <2>2, <2>3, <2>4, ReadKeeps
<1>2. ASSUME NEW r \in LedgerRequests, NEW c \in LedgerClients, NEW i \in 1..MaxMovements,
             ReverseMovement(r, c, i)
      PROVE  LedgerInv'
  <2> DEFINE q == [at |-> "read", client |-> c, type |-> "adjustment",
                   amount |-> -SignedAmount(account[c][i]), reverses |-> i, read |-> CurrentBalance(c)]
  <2>1. CurrentBalance(c) \in Int /\ SignedAmount(account[c][i]) \in Int /\ i \in Nat
    BY <1>2, MovementsOf DEF ReverseMovement, LedgerInv
  <2>2. q \in LedgerCalls
    BY <2>1 DEF LedgerCalls, MovementTypes
  <2>3. LockClientLedger(r, c) /\ account' = account /\ ledgerReq' = [ledgerReq EXCEPT ![r] = q]
    BY <1>2 DEF ReverseMovement
  <2>4. i \in Standing(c)
    BY <1>2 DEF ReverseMovement, Standing
  <2>5. /\ q.at = "read" /\ q.client = c /\ q.read = CurrentBalance(c) /\ q.reverses = i
        /\ q.type = "adjustment" /\ q.amount = -SignedAmount(account[c][i])
    OBVIOUS
  <2> HIDE DEF q
  <2>6. QED
    BY <2>2, <2>3, <2>4, <2>5, ReadKeeps
<1>3. ASSUME NEW r \in LedgerRequests, CommitMovement(r)
      PROVE  LedgerInv'
  <2> DEFINE q == ledgerReq[r]
             m == [type |-> q.type, amount |-> q.amount, reverses |-> q.reverses,
                   balance |-> q.read + Signed(q.type, q.amount)]
             c == q.client
  <2>1. /\ q.at = "read" /\ c \in LedgerClients /\ q.read = CurrentBalance(c)
        /\ ledgerReq' = [ledgerReq EXCEPT ![r] = IdleLedger]
        /\ q \in LedgerCalls
        /\ q.reverses # 0 => /\ q.reverses \in Standing(c)
                             /\ q.type = "adjustment"
                             /\ q.amount = -SignedAmount(account[c][q.reverses])
    BY <1>3 DEF CommitMovement, LedgerInv, KnowsAccount, LedgerTypeOK
  <2>2. m \in Movements
    BY <2>1 DEF LedgerCalls, Movements, Signed
  <2>3. account' = [account EXCEPT ![c] = Append(@, m)]
    <3>1. ~ (q.reverses # 0 /\ AlreadyReversed(c, q.reverses))
      BY <2>1 DEF Standing
    <3>2. QED
      BY <1>3, <3>1 DEF CommitMovement
  <2>4. LedgerTypeOK'
    <3>1. account' \in [LedgerClients -> Seq(Movements)]
      BY <2>1, <2>2, <2>3 DEF LedgerInv, LedgerTypeOK
    <3>2. QED
      BY <2>1, <3>1 DEF LedgerInv, LedgerTypeOK, LedgerCalls, IdleLedger, MovementTypes
  <2>5. LedgerLocked'
    BY <2>1 DEF LedgerInv, LedgerLocked, LedgerTypeOK, IdleLedger
  <2>6. ASSUME NEW p \in LedgerRequests PROVE KnowsAccount(p)'
    <3>1. CASE ledgerReq'[p].at # "read"
      BY <3>1 DEF KnowsAccount
    <3>2. CASE ledgerReq'[p].at = "read"
      <4>1. p # r /\ ledgerReq'[p] = ledgerReq[p] /\ ledgerReq[p].client # c
        BY <2>1, <3>2 DEF LedgerInv, LedgerTypeOK, LedgerLocked
      <4>2. KnowsAccount(p) /\ ledgerReq[p].client \in LedgerClients
        BY <4>1, <3>2 DEF LedgerInv, KnowsAccount
      <4>3. account'[ledgerReq[p].client] = account[ledgerReq[p].client]
        BY <4>1, <4>2, <2>3 DEF LedgerInv, LedgerTypeOK
      <4>4. QED
        BY <4>1, <4>2, <4>3, SameKnowledge
    <3>3. QED
      BY <3>1, <3>2
  <2>7. ReversesKnown'
    <3> SUFFICES ASSUME NEW d \in LedgerClients, NEW i \in 1..Len(account'[d])
                 PROVE  account'[d][i].reverses <= Len(account'[d])
      BY DEF ReversesKnown
    <3>1. CASE d # c
      <4>1. account'[d] = account[d]
        BY <3>1, <2>3 DEF LedgerInv, LedgerTypeOK
      <4>2. QED
        BY <4>1 DEF LedgerInv, ReversesKnown
    <3>2. CASE d = c
      <4>1. account[c] \in Seq(Movements) /\ Len(account[c]) \in Nat
        BY <2>1, MovementsOf DEF LedgerInv
      <4>2. account'[c] = Append(account[c], m)
        BY <2>1, <2>3 DEF LedgerInv, LedgerTypeOK
      <4>3. m.reverses <= Len(account[c]) /\ m.reverses \in Nat
        BY <2>1, <4>1 DEF Standing, LedgerCalls
      <4>4. \A k \in 1..Len(account[c]) :
              account[c][k].reverses <= Len(account[c]) /\ account[c][k].reverses \in Nat
        BY <2>1, MovementsOf DEF LedgerInv, ReversesKnown
      <4>5. /\ Len(account'[c]) = Len(account[c]) + 1
            /\ \A k \in 1..Len(account[c]) : account'[c][k] = account[c][k]
            /\ account'[c][Len(account[c]) + 1] = m
        BY <4>1, <4>2, <2>2, AppendProperties
      <4>6. CASE i = Len(account[c]) + 1
        BY <4>1, <4>3, <4>5, <4>6, <3>2
      <4>7. CASE i \in 1..Len(account[c])
        <5>1. account'[d][i] = account[c][i] /\ Len(account'[d]) = Len(account[c]) + 1
          BY <4>5, <4>7, <3>2
        <5>2. account[c][i].reverses <= Len(account[c]) /\ account[c][i].reverses \in Nat
          BY <4>4, <4>7
        <5>3. QED BY <5>1, <5>2, <4>1
      <4>8. QED
        BY <4>1, <4>5, <4>6, <4>7, <3>2
    <3>3. QED
      BY <3>1, <3>2
  <2>8. ASSUME NEW d \in LedgerClients PROVE \E s : Running(d, s)'
    <3>1. CASE d # c
      <4>1. account'[d] = account[d]
        BY <3>1, <2>3 DEF LedgerInv, LedgerTypeOK
      <4>2. QED
        BY <4>1, SameAccount DEF LedgerInv
    <3>2. CASE d = c
      <4>1. SignedAmount(m) = Signed(q.type, q.amount) /\ m.balance = q.read + Signed(q.type, q.amount)
        BY DEF SignedAmount
      <4>2. m.reverses # 0 =>
              m.reverses \in Standing(c) /\ SignedAmount(m) = -SignedAmount(account[c][m.reverses])
        BY <2>1 DEF SignedAmount, Signed
      <4>3. m.balance = CurrentBalance(c) + SignedAmount(m) /\ c \in LedgerClients
        BY <2>1, <4>1
      <4> HIDE DEF m, c, q
      <4>4. QED
        BY <2>2, <2>3, <4>2, <4>3, <3>2, Appended
    <3>3. QED
      BY <3>1, <3>2
  <2>9. QED
    BY <2>4, <2>5, <2>6, <2>7, <2>8 DEF LedgerInv
<1>4. ASSUME NEW r \in LedgerRequests, LedgerRequestDies(r)
      PROVE  LedgerInv'
  <2>1. LedgerTypeOK' /\ LedgerLocked'
    BY <1>4 DEF LedgerRequestDies, LedgerInv, LedgerTypeOK, LedgerLocked, LedgerCalls, IdleLedger,
                MovementTypes
  <2>2. ASSUME NEW p \in LedgerRequests PROVE KnowsAccount(p)'
    <3>1. KnowsAccount(p)
      BY DEF LedgerInv
    <3>2. CASE p = r
      BY <3>2, <1>4 DEF LedgerRequestDies, LedgerInv, LedgerTypeOK, KnowsAccount
    <3>3. CASE p # r
      <4>1. ledgerReq'[p] = ledgerReq[p] /\ account' = account
        BY <3>3, <1>4 DEF LedgerRequestDies, LedgerInv, LedgerTypeOK
      <4>2. QED
        BY <4>1, <3>1, SameKnowledge
    <3>4. QED
      BY <3>2, <3>3
  <2>3. ReversesKnown' /\ \A d \in LedgerClients : \E s : Running(d, s)'
    BY <1>4, SameAccount DEF LedgerRequestDies, LedgerInv, ReversesKnown
  <2>4. QED
    BY <2>1, <2>2, <2>3 DEF LedgerInv
<1>5. CASE UNCHANGED ledgerVars
  <2>1. LedgerTypeOK' /\ LedgerLocked' /\ ReversesKnown'
    BY <1>5 DEF ledgerVars, LedgerInv, LedgerTypeOK, LedgerLocked, ReversesKnown
  <2>2. \A p \in LedgerRequests : KnowsAccount(p)'
    BY <1>5, SameKnowledge DEF ledgerVars, LedgerInv
  <2>3. \A d \in LedgerClients : \E s : Running(d, s)'
    BY <1>5, SameAccount DEF ledgerVars, LedgerInv
  <2>4. QED
    BY <2>1, <2>2, <2>3 DEF LedgerInv
<1>6. QED
  BY <1>1, <1>2, <1>3, <1>4, <1>5 DEF LedgerNext

(* The balance shown is the sum of the movements that stand, for any clients, amounts  *)
(* and requests.                                                                        *)
THEOREM LedgerBalanced == LedgerSpec => []BalanceIsStanding
  BY InitLedgerInv, NextLedgerInv, RunningIsBalance, PTL DEF LedgerSpec

------------------------------------------------------------------------------
(* The accounts                                                               *)

(* A request that goes on has loaded an account that exists. *)
TargetsExist ==
    \A r \in AdminRequests : adminReq[r].at # "idle" =>
        /\ adminReq[r].on \in Accounts /\ adminReq[r].kind \in AdminKinds
        /\ acct[adminReq[r].on].role # "absent"

(* No account that does not exist is global. *)
AbsentIsPowerless == \A u \in Accounts : acct[u].role = "absent" => ~ acct[u].global

(* Whoever passed the guard holds two active global admins, and they are so until it writes. *)
GuardHolds ==
    \A r \in AdminRequests :
        /\ adminReq[r].locks \subseteq ActiveGlobalAdmins
        /\ adminReq[r].guarded => \E a, b \in adminReq[r].locks : a # b

AdminsInv ==
    /\ AdminsTypeOK
    /\ TargetsExist
    /\ AbsentIsPowerless
    /\ GuardHolds
    /\ GuardKeepsAGlobalAdmin

(* A set that does not have one member at most has two. *)
LEMMA TwoAdmins ==
    ASSUME NEW S, IsFiniteSet(S), ~ (Cardinality(S) <= 1)
    PROVE  \E a, b \in S : a # b
<1> SUFFICES ASSUME \A a, b \in S : a = b PROVE FALSE
  OBVIOUS
<1>1. CASE S = {}
  BY <1>1, FS_EmptySet
<1>2. CASE S # {}
  <2>1. PICK a : S = {a}
    BY <1>2
  <2>2. Cardinality(S) = 1
    BY <2>1, FS_Singleton
  <2>3. QED
    BY <2>2
<1>3. QED
  BY <1>1, <1>2

(* A patch writes an account, and never removes the row. *)
LEMMA PatchedRow ==
    ASSUME NEW q \in AdminRequestStates, q.kind \in AdminKinds, NEW now \in AccountRows
    PROVE  /\ Patched(q, now) \in AccountRows
           /\ now.role # "absent" => Patched(q, now).role # "absent"
<1>0. /\ now.active \in BOOLEAN /\ now.global \in BOOLEAN /\ now.role \in AccountRoles
      /\ now.card \in {"none", "on", "off"}
  BY DEF AccountRows
<1>1. CASE q.kind = "deactivate"
  BY <1>0, <1>1 DEF Patched, AccountRows
<1>2. CASE q.kind = "reactivate"
  BY <1>0, <1>2 DEF Patched, AccountRows
<1>3. CASE q.kind = "toClient"
  BY <1>0, <1>3 DEF Patched, AccountRows, AccountRoles
<1>4. CASE q.kind = "revoke"
  BY <1>0, <1>4 DEF Patched, AccountRows
<1>5. CASE q.kind = "promote"
  BY <1>0, <1>5 DEF Patched, AccountRows, AccountRoles
<1>6. CASE q.kind = "deleteStaff"
  BY <1>0, <1>6 DEF Patched, AccountRows
<1>7. CASE q.kind = "restoreStaff"
  BY <1>0, <1>7 DEF Patched, AccountRows
<1>8. CASE q.kind = "addSelf"
  BY <1>0, <1>8 DEF Patched, AccountRows
<1>9. QED
  BY <1>1, <1>2, <1>3, <1>4, <1>5, <1>6, <1>7, <1>8 DEF AdminKinds

(* The platform starts with its first administrators. *)
LEMMA InitAdminsInv == AdminsInit => AdminsInv
<1> SUFFICES ASSUME AdminsInit PROVE AdminsInv
  OBVIOUS
<1>1. NoAdminRequest \in AdminRequestStates /\ NoAdminRequest.at = "idle"
      /\ NoAdminRequest.locks = {} /\ NoAdminRequest.guarded = FALSE
  BY DEF NoAdminRequest, AdminRequestStates, NothingSeen, AccountRoles
<1>2. Absent \in AccountRows /\ ~ Absent.global
  BY DEF Absent, AccountRows, AccountRoles
<1> DEFINE first == [active |-> TRUE, global |-> TRUE, role |-> "admin", card |-> "none"]
<1>3. first \in AccountRows /\ first.role = "admin" /\ first.active /\ first.global
  BY DEF AccountRows, AccountRoles
<1>4. acct = [u \in Accounts |-> IF u \in FirstAdmins THEN first ELSE Absent]
  BY DEF AdminsInit
<1> HIDE DEF first
<1>5. AdminsTypeOK
  BY <1>1, <1>2, <1>3, <1>4 DEF AdminsInit, AdminsTypeOK
<1>6. AbsentIsPowerless
  BY <1>2, <1>3, <1>4 DEF AbsentIsPowerless
<1>7. TargetsExist /\ GuardHolds
  BY <1>1 DEF AdminsInit, TargetsExist, GuardHolds
<1>8. PICK u \in FirstAdmins : u \in Accounts
  BY AdminsAssumption
<1>9. u \in ActiveGlobalAdmins
  BY <1>3, <1>4, <1>8 DEF ActiveGlobalAdmins
<1>10. QED
  BY <1>5, <1>6, <1>7, <1>9 DEF AdminsInv, GuardKeepsAGlobalAdmin

(* A request moves, the accounts stay. *)
LEMMA AdminRequestMoves ==
    ASSUME AdminsInv, NEW r \in AdminRequests, NEW x \in AdminRequestStates,
           adminReq' = [adminReq EXCEPT ![r] = x], UNCHANGED <<acct, unguarded>>,
           x.at # "idle" => /\ x.on \in Accounts /\ x.kind \in AdminKinds
                            /\ acct[x.on].role # "absent",
           x.locks \subseteq ActiveGlobalAdmins,
           x.guarded => \E a, b \in x.locks : a # b
    PROVE  AdminsInv'
<1>0. AdminsTypeOK /\ TargetsExist /\ AbsentIsPowerless /\ GuardHolds /\ GuardKeepsAGlobalAdmin
  BY DEF AdminsInv
<1>1. \A q \in AdminRequests : adminReq'[q] = IF q = r THEN x ELSE adminReq[q]
  BY <1>0 DEF AdminsTypeOK
<1>2. AdminsTypeOK'
  BY <1>0 DEF AdminsTypeOK
<1>3. TargetsExist' /\ AbsentIsPowerless'
  BY <1>0, <1>1 DEF TargetsExist, AbsentIsPowerless
<1>4. ActiveGlobalAdmins' = ActiveGlobalAdmins
  BY DEF ActiveGlobalAdmins
<1>5. GuardHolds'
  <2> SUFFICES ASSUME NEW q \in AdminRequests
               PROVE  /\ adminReq'[q].locks \subseteq ActiveGlobalAdmins
                      /\ adminReq'[q].guarded => \E a, b \in adminReq'[q].locks : a # b
    BY <1>4 DEF GuardHolds
  <2>1. CASE q = r
    BY <1>1, <2>1
  <2>2. CASE q # r
    BY <1>0, <1>1, <2>2 DEF GuardHolds
  <2>3. QED
    BY <2>1, <2>2
<1>6. GuardKeepsAGlobalAdmin'
  BY <1>0, <1>4 DEF GuardKeepsAGlobalAdmin
<1>7. QED
  BY <1>2, <1>3, <1>5, <1>6 DEF AdminsInv

(* One account changes, of those no guard holds or of the request that ends. *)
LEMMA AccountChanges ==
    ASSUME AdminsInv, NEW u \in Accounts, NEW x \in AccountRows,
           acct' = [acct EXCEPT ![u] = x], x.role # "absent",
           adminReq' \in [AdminRequests -> AdminRequestStates], unguarded' \in BOOLEAN,
           \A q \in AdminRequests :
              \/ adminReq'[q] = adminReq[q] /\ u \notin adminReq[q].locks
              \/ adminReq'[q] = NoAdminRequest,
           unguarded => unguarded',
           \/ unguarded'
           \/ IsActiveGlobal(acct[u]) => IsActiveGlobal(x)
           \/ \E a \in ActiveGlobalAdmins : a # u
    PROVE  AdminsInv'
<1>0. AdminsTypeOK /\ TargetsExist /\ AbsentIsPowerless /\ GuardHolds /\ GuardKeepsAGlobalAdmin
  BY DEF AdminsInv
<1>1. \A v \in Accounts : acct'[v] = IF v = u THEN x ELSE acct[v]
  BY <1>0 DEF AdminsTypeOK
<1>2. AdminsTypeOK'
  BY <1>0 DEF AdminsTypeOK
<1>3. NoAdminRequest.at = "idle" /\ NoAdminRequest.locks = {} /\ NoAdminRequest.guarded = FALSE
  BY DEF NoAdminRequest
<1>4. TargetsExist' /\ AbsentIsPowerless'
  BY <1>0, <1>1, <1>3 DEF TargetsExist, AbsentIsPowerless
<1>5. \A v \in ActiveGlobalAdmins : v # u => v \in ActiveGlobalAdmins'
  BY <1>1 DEF ActiveGlobalAdmins
<1>6. GuardHolds'
  <2> SUFFICES ASSUME NEW q \in AdminRequests
               PROVE  /\ adminReq'[q].locks \subseteq ActiveGlobalAdmins'
                      /\ adminReq'[q].guarded => \E a, b \in adminReq'[q].locks : a # b
    BY DEF GuardHolds
  <2>1. CASE adminReq'[q] = NoAdminRequest
    BY <1>3, <2>1
  <2>2. CASE adminReq'[q] = adminReq[q] /\ u \notin adminReq[q].locks
    BY <1>0, <1>5, <2>2 DEF GuardHolds
  <2>3. QED
    BY <2>1, <2>2
<1>7. GuardKeepsAGlobalAdmin'
  <2>1. CASE unguarded'
    BY <2>1 DEF GuardKeepsAGlobalAdmin
  <2>2. CASE ~ unguarded' /\ \E a \in ActiveGlobalAdmins : a # u
    BY <1>5, <2>2 DEF GuardKeepsAGlobalAdmin
  <2>3. CASE ~ unguarded' /\ (IsActiveGlobal(acct[u]) => IsActiveGlobal(x))
    <3>1. PICK a : a \in ActiveGlobalAdmins
      BY <1>0, <2>3 DEF GuardKeepsAGlobalAdmin
    <3>2. a \in ActiveGlobalAdmins'
      BY <1>1, <2>3, <3>1 DEF ActiveGlobalAdmins, IsActiveGlobal
    <3>3. QED
      BY <3>2 DEF GuardKeepsAGlobalAdmin
  <2>4. QED
    BY <2>1, <2>2, <2>3
<1>8. QED
  BY <1>2, <1>4, <1>6, <1>7 DEF AdminsInv

(* Every change of an account, guarded or not, keeps the invariant. *)
LEMMA NextAdminsInv == AdminsInv /\ [AdminsNext]_adminVars => AdminsInv'
<1> SUFFICES ASSUME AdminsInv, [AdminsNext]_adminVars PROVE AdminsInv'
  OBVIOUS
<1>0. AdminsTypeOK /\ TargetsExist /\ AbsentIsPowerless /\ GuardHolds /\ GuardKeepsAGlobalAdmin
  BY DEF AdminsInv
<1>f. /\ NoAdminRequest \in AdminRequestStates /\ NoAdminRequest.at = "idle"
      /\ NoAdminRequest.locks = {} /\ NoAdminRequest.guarded = FALSE
  BY DEF NoAdminRequest, AdminRequestStates, NothingSeen, AccountRoles
<1>1. ASSUME NEW a \in Accounts, NEW u \in Accounts, NEW role \in {"admin", "staff", "client"},
             CreateUser(a, u, role)
      PROVE  AdminsInv'
  <2>1. PICK card \in {"none", "on"} :
          acct' = [acct EXCEPT ![u] = [active |-> TRUE, global |-> FALSE, role |-> role, card |-> card]]
    BY <1>1 DEF CreateUser
  <2> DEFINE x == [active |-> TRUE, global |-> FALSE, role |-> role, card |-> card]
  <2>2. x \in AccountRows /\ x.role # "absent"
    BY DEF AccountRows, AccountRoles
  <2>3. acct' = [acct EXCEPT ![u] = x]
    BY <2>1
  <2> HIDE DEF x
  <2>4. acct[u].role = "absent" /\ UNCHANGED <<adminReq, unguarded>>
    BY <1>1 DEF CreateUser
  <2>5. u \notin ActiveGlobalAdmins /\ ~ IsActiveGlobal(acct[u])
    BY <1>0, <2>4 DEF AbsentIsPowerless, ActiveGlobalAdmins, IsActiveGlobal
  <2>6. /\ adminReq' \in [AdminRequests -> AdminRequestStates] /\ unguarded' \in BOOLEAN
        /\ \A q \in AdminRequests : adminReq'[q] = adminReq[q] /\ u \notin adminReq[q].locks
    BY <1>0, <2>4, <2>5 DEF AdminsTypeOK, GuardHolds
  <2>7. QED
    BY <2>2, <2>3, <2>4, <2>5, <2>6, AccountChanges
<1>2. ASSUME NEW r \in AdminRequests, NEW kind \in AdminKinds, NEW a \in Accounts,
             NEW u \in Accounts, LoadTarget(r, kind, a, u)
      PROVE  AdminsInv'
  <2>1. PICK saw, place, self :
          /\ saw = [active |-> acct[u].active, global |-> acct[u].global, role |-> acct[u].role]
          /\ place = (IF NeedsGuard(kind, saw) THEN "guarding" ELSE "writing")
          /\ self = (a = u)
    OBVIOUS
  <2>2. /\ saw \in [active : BOOLEAN, global : BOOLEAN, role : AccountRoles]
        /\ place \in {"guarding", "writing"} /\ self \in BOOLEAN
    <3>1. acct[u] \in AccountRows
      BY <1>0 DEF AdminsTypeOK
    <3>2. QED
      BY <2>1, <3>1 DEF AccountRows
  <2> DEFINE x == [at |-> place, kind |-> kind, self |-> self, on |-> u, saw |-> saw,
                   guarded |-> FALSE, locks |-> {}]
  <2>3. adminReq' = [adminReq EXCEPT ![r] = x] /\ UNCHANGED <<acct, unguarded>>
        /\ acct[u].role # "absent"
    BY <1>2, <2>1 DEF LoadTarget
  <2>4. /\ x \in AdminRequestStates /\ x.on = u /\ x.kind = kind /\ x.guarded = FALSE /\ x.locks = {}
    BY <2>2 DEF AdminRequestStates
  <2> HIDE DEF x
  <2>5. QED
    BY <2>3, <2>4, AdminRequestMoves
<1>3. ASSUME NEW r \in AdminRequests, NEW a \in Accounts, NEW u \in Accounts,
             \/ UpdateUser(r, a, u) \/ ReactivateUser(r, a, u) \/ UpdateRole(r, a, u)
             \/ \E on \in BOOLEAN : SetGlobalAdmin(r, a, u, on)
             \/ DeleteStaff(r, a, u) \/ UpdateStaff(r, a, u) \/ AddSelf(r, a)
      PROVE  AdminsInv'
  <2>1. \E kind \in AdminKinds, v \in Accounts : LoadTarget(r, kind, a, v)
    BY <1>3 DEF UpdateUser, ReactivateUser, UpdateRole, SetGlobalAdmin, DeleteStaff, UpdateStaff,
                AddSelf, AdminKinds
  <2>2. QED
    BY <1>2, <2>1
<1>4. ASSUME NEW r \in AdminRequests, EndAdmin(r), UNCHANGED <<acct, unguarded>> PROVE AdminsInv'
  BY <1>f, <1>4, AdminRequestMoves DEF EndAdmin
<1>5. ASSUME NEW r \in AdminRequests, GuardLastAdmin(r) PROVE AdminsInv'
  <2>1. CASE EndAdmin(r)
    BY <1>4, <1>5, <2>1 DEF GuardLastAdmin, GuardCounting
  <2>2. CASE ~ EndAdmin(r)
    <3> DEFINE x == [adminReq[r] EXCEPT !.at = "writing", !.guarded = TRUE, !.locks = ActiveGlobalAdmins]
    <3>1. /\ adminReq[r].at = "guarding" /\ ~ (Cardinality(ActiveGlobalAdmins) <= 1)
          /\ adminReq' = [adminReq EXCEPT ![r] = x] /\ UNCHANGED <<acct, unguarded>>
      BY <1>5, <2>2 DEF GuardLastAdmin, GuardCounting
    <3>2. ActiveGlobalAdmins \subseteq Accounts
      BY DEF ActiveGlobalAdmins
    <3>3. adminReq[r] \in AdminRequestStates
      BY <1>0 DEF AdminsTypeOK
    <3>4. /\ x \in AdminRequestStates /\ x.on = adminReq[r].on /\ x.kind = adminReq[r].kind
          /\ x.locks = ActiveGlobalAdmins
      BY <3>2, <3>3 DEF AdminRequestStates
    <3> HIDE DEF x
    <3>5. \E a, b \in x.locks : a # b
      BY <3>1, <3>2, <3>4, AdminsAssumption, FS_Subset, TwoAdmins
    <3>6. /\ x.on \in Accounts /\ x.kind \in AdminKinds /\ acct[x.on].role # "absent"
      BY <1>0, <3>1, <3>4 DEF TargetsExist
    <3>7. QED
      BY <3>1, <3>4, <3>5, <3>6, AdminRequestMoves
  <2>3. QED
    BY <2>1, <2>2
<1>6. ASSUME NEW r \in AdminRequests, Write(r) PROVE AdminsInv'
  <2>1. PICK u, x : u = adminReq[r].on /\ x = Patched(adminReq[r], acct[u])
    OBVIOUS
  <2>2. /\ adminReq[r].at = "writing" /\ u \notin LockedByOthers(r)
        /\ acct' = [acct EXCEPT ![u] = x]
        /\ adminReq' = [adminReq EXCEPT ![r] = NoAdminRequest]
    BY <1>6, <2>1 DEF Write, EndAdmin
  <2> DEFINE past == IsActiveGlobal(acct[u]) /\ ~ IsActiveGlobal(x) /\ ~ adminReq[r].guarded
  <2>a. unguarded' = (unguarded \/ past)
    BY <1>6, <2>1, Zenon DEF Write
  <2>3. u \in Accounts /\ adminReq[r].kind \in AdminKinds /\ acct[u].role # "absent"
    BY <1>0, <2>1, <2>2 DEF TargetsExist
  <2>4. x \in AccountRows /\ x.role # "absent"
    BY <1>0, <2>1, <2>3, PatchedRow DEF AdminsTypeOK
  <2>5. /\ adminReq' \in [AdminRequests -> AdminRequestStates]
        /\ \A q \in AdminRequests : adminReq'[q] = IF q = r THEN NoAdminRequest ELSE adminReq[q]
    BY <1>0, <1>f, <2>2 DEF AdminsTypeOK
  <2>6. \A q \in AdminRequests : q # r => u \notin adminReq[q].locks
    BY <2>2 DEF LockedByOthers
  <2>7. unguarded' \in BOOLEAN /\ (unguarded => unguarded') /\ (past => unguarded')
    <3> HIDE DEF past
    <3>1. (unguarded => unguarded') /\ (past => unguarded')
      BY <2>a, Zenon
    <3>2. (unguarded \/ past) \in BOOLEAN
      BY Zenon
    <3>3. QED
      BY <2>a, <3>1, <3>2, Zenon
  <2>8. CASE adminReq[r].guarded
    <3>1. \E a \in ActiveGlobalAdmins : a # u
      <4>1. PICK a \in adminReq[r].locks, b \in adminReq[r].locks : a # b
        BY <1>0, <2>8 DEF GuardHolds
      <4>2. a \in ActiveGlobalAdmins /\ b \in ActiveGlobalAdmins
        BY <1>0, <4>1 DEF GuardHolds
      <4>3. QED
        BY <4>1, <4>2
    <3>2. QED
      BY <2>2, <2>3, <2>4, <2>5, <2>6, <2>7, <3>1, AccountChanges
  <2>9. CASE ~ adminReq[r].guarded
    <3>1. unguarded' \/ (IsActiveGlobal(acct[u]) => IsActiveGlobal(x))
      BY <2>7, <2>9
    <3>2. QED
      BY <2>2, <2>3, <2>4, <2>5, <2>6, <2>7, <3>1, AccountChanges
  <2>10. QED
    BY <2>8, <2>9
<1>7. ASSUME NEW r \in AdminRequests, AdminRequestDies(r) PROVE AdminsInv'
  BY <1>4, <1>7 DEF AdminRequestDies
<1>8. CASE UNCHANGED adminVars
  <2>1. ActiveGlobalAdmins' = ActiveGlobalAdmins
    BY <1>8 DEF adminVars, ActiveGlobalAdmins
  <2>2. QED
    BY <1>0, <1>8, <2>1 DEF adminVars, AdminsInv, AdminsTypeOK, TargetsExist, AbsentIsPowerless,
                            GuardHolds, GuardKeepsAGlobalAdmin
<1>9. QED
  BY <1>1, <1>3, <1>5, <1>6, <1>7, <1>8 DEF AdminsNext

(* Rule 14 (users/guards.py), for any accounts, first admins and requests that cross: the   *)
(* platform keeps an active global admin, unless a change took that power past the guard.      *)
THEOREM GuardKeepsOne == AdminsSpec => []GuardKeepsAGlobalAdmin
<1>1. AdminsInv => GuardKeepsAGlobalAdmin
  BY DEF AdminsInv
<1>2. QED
  BY <1>1, InitAdminsInv, NextAdminsInv, PTL DEF AdminsSpec

------------------------------------------------------------------------------
(* The reminders                                                              *)

(* Run r holds the claim of stage s of appointment b. *)
Holds(r, b, s) == reminder[r].at = "claimed" /\ reminder[r].claimed = b /\ reminder[r].stage = s

(* Whoever holds a claim does it alone, under the mark. *)
ClaimsHold ==
    \A r \in ReminderRuns, b \in Bookings, s \in Stages :
        Holds(r, b, s) =>
            /\ mark[b][s]
            /\ Len(delivered[b][s]) <= unanswered[b][s]
            /\ \A q \in ReminderRuns : Holds(q, b, s) => q = r

(* What was sent of a stage without its mark lost its answer. *)
UnmarkedIsUnanswered ==
    \A b \in Bookings, s \in Stages : ~ mark[b][s] => Len(delivered[b][s]) <= unanswered[b][s]

(* A run is of this hour or of the last one, its rows are appointments that were booked,  *)
(* and what it claimed was due when it started.                                           *)
RunsAreRecent ==
    \A r \in ReminderRuns : reminder[r].at # "idle" =>
        /\ reminder[r].now <= hour /\ hour <= reminder[r].now + 1
        /\ \A b \in reminder[r].rows : booking[b].status # "none"
        /\ reminder[r].at = "claimed" =>
              /\ reminder[r].claimed \in Bookings
              /\ booking[reminder[r].claimed].status # "none"
              /\ StageIsDue(reminder[r].claimed, reminder[r].stage, reminder[r].now)

(* Each mail left in the window of its stage, which the run may overstep by an hour. *)
MailsInWindow ==
    \A b \in Bookings :
        /\ booking[b].status = "none" => \A s \in Stages : delivered[b][s] = <<>>
        /\ \A i \in DOMAIN delivered[b]["24h"] : delivered[b]["24h"][i] + Floor24 <= booking[b].start
        /\ \A j \in DOMAIN delivered[b]["2h"] : booking[b].start <= delivered[b]["2h"][j] + Lead2

NotificationsInv ==
    /\ NotificationsTypeOK
    /\ ClaimsHold
    /\ UnmarkedIsUnanswered
    /\ RunsAreRecent
    /\ MailsInWindow
    /\ OneMailPerStage

(* The windows of the two stages do not meet when Lead2 < Floor24. *)
LEMMA InTheirPlace == NotificationsInv => NotBothAtOnce
<1> SUFFICES ASSUME NotificationsInv, NEW b \in Bookings, NEW i \in DOMAIN delivered[b]["24h"],
                    NEW j \in DOMAIN delivered[b]["2h"]
             PROVE  delivered[b]["24h"][i] < delivered[b]["2h"][j]
  BY DEF NotBothAtOnce
<1>1. delivered[b]["24h"] \in Seq(Nat) /\ delivered[b]["2h"] \in Seq(Nat) /\ booking[b].start \in Nat
  BY DEF NotificationsInv, NotificationsTypeOK, Stages, BookingRows
<1>2. delivered[b]["24h"][i] \in Nat /\ delivered[b]["2h"][j] \in Nat
  <2>1. \A d \in Seq(Nat) : \A k \in DOMAIN d : d[k] \in Nat
    BY ElementOfSeq
  <2>2. QED BY <2>1, <1>1
<1>3. /\ delivered[b]["24h"][i] + Floor24 <= booking[b].start
      /\ booking[b].start <= delivered[b]["2h"][j] + Lead2
  BY DEF NotificationsInv, MailsInWindow
<1>4. Floor24 \in Nat /\ Lead2 \in Nat /\ Lead2 < Floor24
  BY ReminderLeads
<1>5. \A x, y, z, f, l \in Nat : x + f <= z /\ z <= y + l /\ l < f => x < y
  OBVIOUS
<1>6. QED
  BY <1>1, <1>2, <1>3, <1>4, <1>5

(* Nothing was claimed or sent at the start. *)
LEMMA InitNotificationsInv == NotificationsInit => NotificationsInv
<1> SUFFICES ASSUME NotificationsInit PROVE NotificationsInv
  OBVIOUS
<1>1. Unbooked \in BookingRows /\ Unbooked.status = "none"
  BY DEF Unbooked, BookingRows
<1>2. IdleRun \in ReminderStates /\ IdleRun.at = "idle"
  BY DEF IdleRun, ReminderStates, Stages
<1>3. <<>> \in Seq(Nat) /\ Len(<<>>) = 0 /\ DOMAIN <<>> = {}
  OBVIOUS
<1>4. /\ \A b \in Bookings : booking[b] = Unbooked
      /\ \A r \in ReminderRuns : reminder[r] = IdleRun
      /\ \A b \in Bookings, s \in Stages : delivered[b][s] = <<>> /\ unanswered[b][s] = 0
  BY DEF NotificationsInit
<1>5. NotificationsTypeOK
  BY <1>1, <1>2, <1>3, ReminderLeads DEF NotificationsInit, NotificationsTypeOK
<1>6. ClaimsHold /\ RunsAreRecent
  BY <1>2, <1>4 DEF ClaimsHold, Holds, RunsAreRecent
<1>7. MailsInWindow
  BY <1>3, <1>4 DEF MailsInWindow, Stages
<1>8. UnmarkedIsUnanswered /\ OneMailPerStage
  BY <1>3, <1>4 DEF UnmarkedIsUnanswered, OneMailPerStage
<1>9. QED
  BY <1>5, <1>6, <1>7, <1>8 DEF NotificationsInv

(* The typing of bookings and runs, taken apart. *)
LEMMA NotificationFacts ==
    ASSUME NotificationsInv
    PROVE  /\ hour \in Nat
           /\ \A b \in Bookings : booking[b] \in BookingRows /\ booking[b].start \in Nat
           /\ \A r \in ReminderRuns :
                 /\ reminder[r] \in ReminderStates
                 /\ reminder[r].now \in Nat /\ reminder[r].stage \in Stages
                 /\ reminder[r].rows \subseteq Bookings /\ reminder[r].locks \subseteq Bookings
           /\ \A b \in Bookings, s \in Stages :
                 /\ mark[b][s] \in BOOLEAN
                 /\ delivered[b][s] \in Seq(Nat) /\ Len(delivered[b][s]) \in Nat
                 /\ unanswered[b][s] \in Nat
           /\ IdleRun \in ReminderStates /\ IdleRun.at = "idle"
<1>1. IdleRun \in ReminderStates /\ IdleRun.at = "idle"
  BY DEF IdleRun, ReminderStates, Stages
<1>2. QED
  BY <1>1, ReminderLeads DEF NotificationsInv, NotificationsTypeOK, ReminderStates, BookingRows

(* A step of one run that claims nothing new and sends nothing. *)
LEMMA RunMoves ==
    ASSUME NotificationsInv, NEW r \in ReminderRuns, NEW q \in ReminderStates,
           q.at # "claimed",
           q.at # "idle" => /\ q.now <= hour /\ hour <= q.now + 1
                            /\ \A b \in q.rows : booking[b].status # "none",
           reminder' = [reminder EXCEPT ![r] = q],
           UNCHANGED <<hour, booking, mark, delivered, unanswered>>
    PROVE  NotificationsInv'
<1>1. \A p \in ReminderRuns : reminder'[p] = IF p = r THEN q ELSE reminder[p]
  BY DEF NotificationsInv, NotificationsTypeOK
<1>2. NotificationsTypeOK'
  BY DEF NotificationsInv, NotificationsTypeOK
<1>3. \A p \in ReminderRuns, b \in Bookings, s \in Stages : Holds(p, b, s)' => Holds(p, b, s)
  BY <1>1 DEF Holds
<1>4. ClaimsHold'
  BY <1>3 DEF NotificationsInv, ClaimsHold
<1>5. RunsAreRecent'
  BY <1>1 DEF NotificationsInv, RunsAreRecent, StageIsDue
<1>6. UnmarkedIsUnanswered' /\ MailsInWindow' /\ OneMailPerStage'
  BY DEF NotificationsInv, UnmarkedIsUnanswered, MailsInWindow, OneMailPerStage
<1>7. QED
  BY <1>2, <1>4, <1>5, <1>6 DEF NotificationsInv

(* The agenda changes: an appointment that was booked keeps its start. *)
LEMMA AgendaMoves ==
    ASSUME NotificationsInv, booking' \in [Bookings -> BookingRows],
           UNCHANGED <<hour, mark, reminder, delivered, unanswered>>,
           \A b \in Bookings : booking[b].status # "none" =>
               /\ booking'[b].status # "none" /\ booking'[b].start = booking[b].start
               /\ booking'[b].created = booking[b].created
    PROVE  NotificationsInv'
<1>1. NotificationsTypeOK'
  BY DEF NotificationsInv, NotificationsTypeOK
<1>2. ClaimsHold' /\ UnmarkedIsUnanswered' /\ OneMailPerStage'
  BY DEF NotificationsInv, ClaimsHold, Holds, UnmarkedIsUnanswered, OneMailPerStage
<1>3. RunsAreRecent'
  <2> SUFFICES ASSUME NEW r \in ReminderRuns, reminder[r].at # "idle"
               PROVE  /\ reminder[r].now <= hour /\ hour <= reminder[r].now + 1
                      /\ \A b \in reminder[r].rows : booking'[b].status # "none"
                      /\ reminder[r].at = "claimed" =>
                            /\ reminder[r].claimed \in Bookings
                            /\ booking'[reminder[r].claimed].status # "none"
                            /\ StageIsDue(reminder[r].claimed, reminder[r].stage, reminder[r].now)'
    BY DEF RunsAreRecent
  <2>1. /\ reminder[r].now <= hour /\ hour <= reminder[r].now + 1
        /\ \A b \in reminder[r].rows : booking'[b].status # "none"
    BY NotificationFacts DEF NotificationsInv, RunsAreRecent
  <2>2. ASSUME reminder[r].at = "claimed"
        PROVE  /\ reminder[r].claimed \in Bookings
               /\ booking'[reminder[r].claimed].status # "none"
               /\ StageIsDue(reminder[r].claimed, reminder[r].stage, reminder[r].now)'
    <3>1. PICK b \in Bookings : b = reminder[r].claimed
      BY <2>2 DEF NotificationsInv, RunsAreRecent
    <3>2. booking[b].status # "none" /\ StageIsDue(b, reminder[r].stage, reminder[r].now)
      BY <2>2, <3>1 DEF NotificationsInv, RunsAreRecent
    <3>3. QED
      BY <3>1, <3>2 DEF StageIsDue
  <2>3. QED
    BY <2>1, <2>2
<1>4. MailsInWindow'
  <2> SUFFICES ASSUME NEW b \in Bookings
               PROVE  /\ booking'[b].status = "none" => \A s \in Stages : delivered[b][s] = <<>>
                      /\ \A i \in DOMAIN delivered[b]["24h"] :
                            delivered[b]["24h"][i] + Floor24 <= booking'[b].start
                      /\ \A j \in DOMAIN delivered[b]["2h"] :
                            booking'[b].start <= delivered[b]["2h"][j] + Lead2
    BY DEF MailsInWindow
  <2>1. CASE booking[b].status = "none"
    <3>1. \A s \in Stages : delivered[b][s] = <<>>
      BY <2>1 DEF NotificationsInv, MailsInWindow
    <3>2. DOMAIN delivered[b]["24h"] = {} /\ DOMAIN delivered[b]["2h"] = {}
      BY <3>1 DEF Stages
    <3>3. QED
      BY <3>1, <3>2
  <2>2. CASE booking[b].status # "none"
    BY <2>2 DEF NotificationsInv, MailsInWindow
  <2>3. QED
    BY <2>1, <2>2
<1>5. QED
  BY <1>1, <1>2, <1>3, <1>4 DEF NotificationsInv

(* One row: examined, claimed or passed. *)
LEMMA ExamineKeeps ==
    ASSUME NotificationsInv, NEW r \in ReminderRuns, NEW b \in Bookings, ExamineRow(r, b)
    PROVE  NotificationsInv'
<1>0. PICK q \in ReminderStates : q = reminder[r]
  BY NotificationFacts
<1>01. PICK s \in Stages : s = reminder[r].stage
  BY NotificationFacts
<1>1. /\ q.at = "page" /\ b \in q.rows /\ q.now \in Nat /\ q.stage = s /\ q.rows \subseteq Bookings
      /\ booking[b].status # "none" /\ q.now <= hour /\ hour <= q.now + 1
      /\ \A c \in q.rows : booking[c].status # "none"
      /\ UNCHANGED <<hour, booking, delivered, unanswered>>
  BY <1>0, <1>01, NotificationFacts DEF ExamineRow, FirstOf, NotificationsInv, RunsAreRecent
<1> DEFINE tries == StageIsDue(b, s, q.now) /\ booking[b].wants
           claims == tries /\ ~ mark[b][s]
           sends == claims /\ booking[b].deliverable
           n == [q EXCEPT !.at = IF sends THEN "claimed" ELSE q.at,
                          !.claimed = IF sends THEN b ELSE q.claimed,
                          !.rows = q.rows \ {b},
                          !.locks = IF tries THEN {} ELSE q.locks]
<1>2. /\ reminder' = [reminder EXCEPT ![r] = n]
      /\ mark' = IF claims THEN [mark EXCEPT ![b][s] = TRUE] ELSE mark
  <2>1. mark' = IF claims THEN [mark EXCEPT ![b][s] = TRUE] ELSE mark
    BY <1>0, <1>01, Zenon DEF ExamineRow, ClaimIsFree
  <2>2. reminder' = [reminder EXCEPT ![r].at = IF sends THEN "claimed" ELSE @,
                                     ![r].claimed = IF sends THEN b ELSE @,
                                     ![r].rows = @ \ {b},
                                     ![r].locks = IF tries THEN {} ELSE @]
    BY <1>0, <1>01, Zenon DEF ExamineRow, ClaimIsFree
  <2> HIDE DEF sends, tries
  <2>3. reminder' = [reminder EXCEPT ![r] = n]
    BY <1>0, <2>2 DEF NotificationsInv, NotificationsTypeOK, ReminderStates
  <2>4. QED
    BY <2>1, <2>3
<1>3. /\ n \in ReminderStates /\ n.now = q.now /\ n.stage = s /\ n.rows \subseteq q.rows
      /\ n.at = (IF sends THEN "claimed" ELSE "page") /\ (sends => n.claimed = b)
  BY <1>1 DEF ReminderStates
<1>4. sends => claims /\ StageIsDue(b, s, q.now) /\ ~ mark[b][s]
  OBVIOUS
<1>5. claims => ~ mark[b][s]
  OBVIOUS
<1> HIDE DEF n, sends, claims, tries
<1>6. \A p \in ReminderRuns : reminder'[p] = IF p = r THEN n ELSE reminder[p]
  BY <1>2 DEF NotificationsInv, NotificationsTypeOK
<1>7. mark' \in [Bookings -> [Stages -> BOOLEAN]]
  BY <1>2 DEF NotificationsInv, NotificationsTypeOK
<1>8. \A c \in Bookings, t \in Stages : mark[c][t] => mark'[c][t]
  <2>1. CASE claims
    <3>1. mark' = [mark EXCEPT ![b] = [mark[b] EXCEPT ![s] = TRUE]]
      BY <1>2, <2>1
    <3>2. mark \in [Bookings -> [Stages -> BOOLEAN]]
      BY DEF NotificationsInv, NotificationsTypeOK
    <3>3. \A c \in Bookings : mark'[c] = IF c = b THEN [mark[b] EXCEPT ![s] = TRUE] ELSE mark[c]
      BY <3>1, <3>2
    <3>4. \A t \in Stages : [mark[b] EXCEPT ![s] = TRUE][t] = IF t = s THEN TRUE ELSE mark[b][t]
      BY <3>2
    <3>5. QED
      BY <3>3, <3>4
  <2>2. CASE ~ claims
    BY <1>2, <2>2
  <2>3. QED
    BY <2>1, <2>2
<1>9. claims => mark'[b][s]
  BY <1>2 DEF NotificationsInv, NotificationsTypeOK
<1>10. NotificationsTypeOK'
  BY <1>1, <1>2, <1>3, <1>7 DEF NotificationsInv, NotificationsTypeOK
<1>11. \A p \in ReminderRuns, c \in Bookings, t \in Stages :
          Holds(p, c, t)' => Holds(p, c, t) \/ (p = r /\ c = b /\ t = s /\ sends)
  BY <1>1, <1>3, <1>6 DEF Holds
<1>12. ClaimsHold'
  <2> SUFFICES ASSUME NEW p \in ReminderRuns, NEW c \in Bookings, NEW t \in Stages, Holds(p, c, t)'
               PROVE  /\ mark'[c][t]
                      /\ Len(delivered[c][t]) <= unanswered[c][t]
                      /\ \A o \in ReminderRuns : Holds(o, c, t)' => o = p
    BY <1>1 DEF ClaimsHold
  <2>1. CASE Holds(p, c, t)
    <3>1. mark[c][t] /\ Len(delivered[c][t]) <= unanswered[c][t]
          /\ \A o \in ReminderRuns : Holds(o, c, t) => o = p
      BY <2>1 DEF NotificationsInv, ClaimsHold
    <3>2. ~ (c = b /\ t = s /\ sends)
      BY <1>4, <3>1
    <3>3. QED
      BY <1>8, <1>11, <3>1, <3>2
  <2>2. CASE ~ Holds(p, c, t)
    <3>1. p = r /\ c = b /\ t = s /\ sends
      BY <1>11, <2>2
    <3>2. ~ mark[b][s]
      BY <1>4, <3>1
    <3>3. Len(delivered[b][s]) <= unanswered[b][s]
      BY <3>2 DEF NotificationsInv, UnmarkedIsUnanswered
    <3>4. \A o \in ReminderRuns : ~ Holds(o, b, s)
      BY <3>2 DEF NotificationsInv, ClaimsHold
    <3>5. QED
      BY <1>4, <1>9, <1>11, <3>1, <3>3, <3>4
  <2>3. QED
    BY <2>1, <2>2
<1>13. UnmarkedIsUnanswered'
  BY <1>1, <1>8 DEF NotificationsInv, UnmarkedIsUnanswered
<1>14. RunsAreRecent'
  <2> SUFFICES ASSUME NEW p \in ReminderRuns, reminder'[p].at # "idle"
               PROVE  /\ reminder'[p].now <= hour /\ hour <= reminder'[p].now + 1
                      /\ \A c \in reminder'[p].rows : booking[c].status # "none"
                      /\ reminder'[p].at = "claimed" =>
                            /\ reminder'[p].claimed \in Bookings
                            /\ booking[reminder'[p].claimed].status # "none"
                            /\ StageIsDue(reminder'[p].claimed, reminder'[p].stage, reminder'[p].now)
    BY <1>1 DEF RunsAreRecent, StageIsDue
  <2>1. CASE p = r
    BY <1>1, <1>3, <1>4, <1>6, <2>1
  <2>2. CASE p # r
    BY <1>6, <2>2 DEF NotificationsInv, RunsAreRecent
  <2>3. QED
    BY <2>1, <2>2
<1>15. MailsInWindow' /\ OneMailPerStage'
  BY <1>1 DEF NotificationsInv, MailsInWindow, OneMailPerStage
<1>16. QED
  BY <1>10, <1>12, <1>13, <1>14, <1>15 DEF NotificationsInv

(* What a send does to the three tables of its row and stage. *)
LEMMA SendKeeps ==
    ASSUME NotificationsInv, NEW r \in ReminderRuns, NEW outcome \in MailOutcomes,
           SendReminder(r, outcome)
    PROVE  NotificationsInv'
<1>0. PICK q \in ReminderStates : q = reminder[r]
  BY NotificationFacts
<1>01. PICK s \in Stages : s = reminder[r].stage
  BY NotificationFacts
<1>02. PICK b \in Bookings : b = reminder[r].claimed
  BY DEF SendReminder, NotificationsInv, RunsAreRecent
<1>1. /\ q.at = "claimed" /\ q.now \in Nat /\ q.stage = s /\ Holds(r, b, s)
      /\ booking[b].status # "none" /\ q.now <= hour /\ hour <= q.now + 1
      /\ StageIsDue(b, s, q.now)
      /\ \A c \in q.rows : booking[c].status # "none"
      /\ UNCHANGED <<hour, booking>>
  BY <1>0, <1>01, <1>02, NotificationFacts
     DEF SendReminder, NotificationsInv, RunsAreRecent, Holds
<1>2. outcome.taken \in BOOLEAN /\ outcome.acked \in BOOLEAN /\ (outcome.acked => outcome.taken)
  <2>1. \/ outcome = [taken |-> TRUE,  acked |-> TRUE]
        \/ outcome = [taken |-> FALSE, acked |-> FALSE]
        \/ outcome = [taken |-> TRUE,  acked |-> FALSE]
    BY DEF MailOutcomes
  <2>2. CASE outcome = [taken |-> TRUE,  acked |-> TRUE]
    BY <2>2
  <2>3. CASE outcome = [taken |-> FALSE, acked |-> FALSE]
    BY <2>3
  <2>4. CASE outcome = [taken |-> TRUE,  acked |-> FALSE]
    BY <2>4
  <2>5. QED
    BY <2>1, <2>2, <2>3, <2>4
<1>3. /\ delivered' = IF outcome.taken THEN [delivered EXCEPT ![b][s] = Append(@, hour)] ELSE delivered
      /\ unanswered' = IF outcome.taken /\ ~ outcome.acked
                       THEN [unanswered EXCEPT ![b][s] = @ + 1] ELSE unanswered
      /\ mark' = IF outcome.acked THEN mark ELSE [mark EXCEPT ![b][s] = FALSE]
  BY <1>01, <1>02 DEF SendReminder
<1> DEFINE n == [q EXCEPT !.at = "page", !.claimed = NoBooking]
<1>4. reminder' = [reminder EXCEPT ![r] = n]
  BY <1>0 DEF SendReminder
<1>5. n \in ReminderStates /\ n.at = "page" /\ n.now = q.now /\ n.rows = q.rows
  BY DEF ReminderStates
<1> HIDE DEF n
<1>6. \A p \in ReminderRuns : reminder'[p] = IF p = r THEN n ELSE reminder[p]
  BY <1>4 DEF NotificationsInv, NotificationsTypeOK
<1>7. /\ delivered \in [Bookings -> [Stages -> Seq(Nat)]]
      /\ unanswered \in [Bookings -> [Stages -> Nat]] /\ mark \in [Bookings -> [Stages -> BOOLEAN]]
      /\ hour \in Nat /\ delivered[b][s] \in Seq(Nat) /\ unanswered[b][s] \in Nat
  BY NotificationFacts DEF NotificationsInv, NotificationsTypeOK
<1>8. Append(delivered[b][s], hour) \in Seq(Nat)
      /\ Len(Append(delivered[b][s], hour)) = Len(delivered[b][s]) + 1
  BY <1>7
<1>9. /\ delivered' \in [Bookings -> [Stages -> Seq(Nat)]]
      /\ unanswered' \in [Bookings -> [Stages -> Nat]] /\ mark' \in [Bookings -> [Stages -> BOOLEAN]]
  <2>1. delivered' \in [Bookings -> [Stages -> Seq(Nat)]]
    BY <1>3, <1>7, <1>8
  <2>2. unanswered' \in [Bookings -> [Stages -> Nat]]
    BY <1>3, <1>7
  <2>3. mark' \in [Bookings -> [Stages -> BOOLEAN]]
    BY <1>3, <1>7
  <2>4. QED
    BY <2>1, <2>2, <2>3
<1>10. NotificationsTypeOK'
  BY <1>1, <1>4, <1>5, <1>9 DEF NotificationsInv, NotificationsTypeOK
<1>11. ASSUME NEW c \in Bookings, NEW t \in Stages, c # b \/ t # s
       PROVE  /\ delivered'[c][t] = delivered[c][t] /\ unanswered'[c][t] = unanswered[c][t]
              /\ mark'[c][t] = mark[c][t]
  <2>1. delivered'[c][t] = delivered[c][t]
    BY <1>3, <1>7, <1>11
  <2>2. unanswered'[c][t] = unanswered[c][t]
    BY <1>3, <1>7, <1>11
  <2>3. mark'[c][t] = mark[c][t]
    <3>1. CASE outcome.acked
      BY <1>3, <3>1
    <3>2. CASE ~ outcome.acked
      <4>1. mark' = [mark EXCEPT ![b] = [mark[b] EXCEPT ![s] = FALSE]]
        BY <1>3, <3>2
      <4>2. \A d \in Bookings : mark'[d] = IF d = b THEN [mark[b] EXCEPT ![s] = FALSE] ELSE mark[d]
        BY <1>7, <4>1
      <4>3. \A u \in Stages : u # s => [mark[b] EXCEPT ![s] = FALSE][u] = mark[b][u]
        BY <1>7
      <4>4. QED
        BY <1>11, <4>2, <4>3
    <3>3. QED
      BY <3>1, <3>2
  <2>4. QED
    BY <2>1, <2>2, <2>3
<1>12. /\ delivered'[b][s] = IF outcome.taken THEN Append(delivered[b][s], hour) ELSE delivered[b][s]
       /\ unanswered'[b][s] = IF outcome.taken /\ ~ outcome.acked THEN unanswered[b][s] + 1
                              ELSE unanswered[b][s]
       /\ mark'[b][s] => outcome.acked
  <2>1. delivered'[b][s] = IF outcome.taken THEN Append(delivered[b][s], hour) ELSE delivered[b][s]
    BY <1>3, <1>7
  <2>2. unanswered'[b][s] = IF outcome.taken /\ ~ outcome.acked THEN unanswered[b][s] + 1
                            ELSE unanswered[b][s]
    BY <1>3, <1>7
  <2>3. ~ outcome.acked => ~ mark'[b][s]
    BY <1>3, <1>7
  <2>4. QED
    BY <2>1, <2>2, <2>3
<1>13. Len(delivered[b][s]) <= unanswered[b][s] /\ \A p \in ReminderRuns : Holds(p, b, s) => p = r
  BY <1>1 DEF NotificationsInv, ClaimsHold
<1>14. \A p \in ReminderRuns, c \in Bookings, t \in Stages :
          Holds(p, c, t)' => Holds(p, c, t) /\ (c # b \/ t # s)
  BY <1>5, <1>6, <1>13 DEF Holds
<1>15. ClaimsHold'
  <2> SUFFICES ASSUME NEW p \in ReminderRuns, NEW c \in Bookings, NEW t \in Stages, Holds(p, c, t)'
               PROVE  /\ mark'[c][t]
                      /\ Len(delivered'[c][t]) <= unanswered'[c][t]
                      /\ \A o \in ReminderRuns : Holds(o, c, t)' => o = p
    BY DEF ClaimsHold
  <2>1. Holds(p, c, t) /\ (c # b \/ t # s)
    BY <1>14
  <2>2. mark[c][t] /\ Len(delivered[c][t]) <= unanswered[c][t]
        /\ \A o \in ReminderRuns : Holds(o, c, t) => o = p
    BY <2>1 DEF NotificationsInv, ClaimsHold
  <2>3. QED
    BY <1>11, <1>14, <2>1, <2>2
<1>16. UnmarkedIsUnanswered' /\ OneMailPerStage'
  <2> SUFFICES ASSUME NEW c \in Bookings, NEW t \in Stages
               PROVE  /\ ~ mark'[c][t] => Len(delivered'[c][t]) <= unanswered'[c][t]
                      /\ Len(delivered'[c][t]) <= 1 + unanswered'[c][t]
    BY DEF UnmarkedIsUnanswered, OneMailPerStage
  <2>1. CASE c = b /\ t = s
    <3>1. Len(delivered'[b][s]) <= 1 + unanswered'[b][s]
      BY <1>7, <1>8, <1>12, <1>13
    <3>2. ~ outcome.acked => Len(delivered'[b][s]) <= unanswered'[b][s]
      BY <1>7, <1>8, <1>12, <1>13
    <3>3. outcome.acked => mark'[b][s]
      <4>1. outcome.acked => mark'[b][s] = mark[b][s]
        BY <1>3
      <4>2. mark[b][s]
        BY <1>1 DEF NotificationsInv, ClaimsHold
      <4>3. QED
        BY <4>1, <4>2
    <3>4. QED
      BY <2>1, <3>1, <3>2, <3>3
  <2>2. CASE ~ (c = b /\ t = s)
    <3>1. /\ ~ mark[c][t] => Len(delivered[c][t]) <= unanswered[c][t]
          /\ Len(delivered[c][t]) <= 1 + unanswered[c][t]
      BY DEF NotificationsInv, UnmarkedIsUnanswered, OneMailPerStage
    <3>2. QED
      BY <1>11, <2>2, <3>1
  <2>3. QED
    BY <2>1, <2>2
<1>17. RunsAreRecent'
  <2> SUFFICES ASSUME NEW p \in ReminderRuns, reminder'[p].at # "idle"
               PROVE  /\ reminder'[p].now <= hour /\ hour <= reminder'[p].now + 1
                      /\ \A c \in reminder'[p].rows : booking[c].status # "none"
                      /\ reminder'[p].at = "claimed" =>
                            /\ reminder'[p].claimed \in Bookings
                            /\ booking[reminder'[p].claimed].status # "none"
                            /\ StageIsDue(reminder'[p].claimed, reminder'[p].stage, reminder'[p].now)
    BY <1>1 DEF RunsAreRecent, StageIsDue
  <2>1. CASE p = r
    BY <1>1, <1>5, <1>6, <2>1
  <2>2. CASE p # r
    BY <1>6, <2>2 DEF NotificationsInv, RunsAreRecent
  <2>3. QED
    BY <2>1, <2>2
<1>18. MailsInWindow'
  <2>1. /\ booking[b].start > q.now + Floor(s) /\ booking[b].start <= q.now + Lead(s)
        /\ booking[b].start \in Nat /\ q.now \in Nat
        /\ Floor24 \in Nat /\ Lead2 \in Nat
    BY <1>1, NotificationFacts, ReminderLeads DEF StageIsDue
  <2>2. s = "24h" => hour + Floor24 <= booking[b].start
    BY <1>1, <1>7, <2>1 DEF Floor
  <2>3. s = "2h" => booking[b].start <= hour + Lead2
    BY <1>1, <1>7, <2>1 DEF Lead
  <2>4. \A i \in DOMAIN delivered'[b][s] :
           \/ i \in DOMAIN delivered[b][s] /\ delivered'[b][s][i] = delivered[b][s][i]
           \/ delivered'[b][s][i] = hour
    BY <1>7, <1>8, <1>12
  <2>5. s = "24h" \/ s = "2h"
    BY DEF Stages
  <2> SUFFICES ASSUME NEW c \in Bookings
               PROVE  /\ booking[c].status = "none" => \A t \in Stages : delivered'[c][t] = <<>>
                      /\ \A i \in DOMAIN delivered'[c]["24h"] :
                            delivered'[c]["24h"][i] + Floor24 <= booking[c].start
                      /\ \A j \in DOMAIN delivered'[c]["2h"] :
                            booking[c].start <= delivered'[c]["2h"][j] + Lead2
    BY <1>1 DEF MailsInWindow
  <2>6. /\ booking[c].status = "none" => \A t \in Stages : delivered[c][t] = <<>>
        /\ \A i \in DOMAIN delivered[c]["24h"] : delivered[c]["24h"][i] + Floor24 <= booking[c].start
        /\ \A j \in DOMAIN delivered[c]["2h"] : booking[c].start <= delivered[c]["2h"][j] + Lead2
    BY DEF NotificationsInv, MailsInWindow
  <2>7. "24h" \in Stages /\ "2h" \in Stages
    BY DEF Stages
  <2>8. booking[c].status = "none" => \A t \in Stages : delivered'[c][t] = <<>>
    BY <1>1, <1>11, <2>6
  <2>9. \A i \in DOMAIN delivered'[c]["24h"] : delivered'[c]["24h"][i] + Floor24 <= booking[c].start
    <3>1. CASE c = b /\ s = "24h"
      BY <2>2, <2>4, <2>6, <3>1
    <3>2. CASE c # b \/ s # "24h"
      BY <1>11, <2>6, <2>7, <3>2
    <3>3. QED
      BY <3>1, <3>2
  <2>10. \A j \in DOMAIN delivered'[c]["2h"] : booking[c].start <= delivered'[c]["2h"][j] + Lead2
    <3>1. CASE c = b /\ s = "2h"
      BY <2>3, <2>4, <2>6, <3>1
    <3>2. CASE c # b \/ s # "2h"
      BY <1>11, <2>6, <2>7, <3>2
    <3>3. QED
      BY <3>1, <3>2
  <2>11. QED
    BY <2>8, <2>9, <2>10
<1>19. QED
  BY <1>10, <1>15, <1>16, <1>17, <1>18 DEF NotificationsInv

(* Every step of every run, and every change of an appointment, keeps the invariant. *)
LEMMA NextNotificationsInv ==
    NotificationsInv /\ [NotificationsNext]_notifyVars => NotificationsInv'
<1> SUFFICES ASSUME NotificationsInv, [NotificationsNext]_notifyVars PROVE NotificationsInv'
  OBVIOUS
<1>1. ASSUME NEW i \in BookingInputs, NEW start \in ReminderStarts, NEW enqueued \in BOOLEAN,
             BookFor(i[1], start, i[2], i[3], enqueued)
      PROVE  NotificationsInv'
  <2>1. i[1] \in Bookings /\ i[2] \in RemindedStatuses /\ start \in Nat /\ hour \in Nat
    <3>1. i \in Bookings \X RemindedStatuses \X Recipients
      BY ReminderLeads
    <3>2. start \in Nat
      BY ReminderLeads
    <3>3. QED
      BY <3>1, <3>2, NotificationFacts
  <2>2. PICK b \in Bookings : b = i[1]
    BY <2>1
  <2> DEFINE new == [status |-> i[2], start |-> start, created |-> hour,
                     wants |-> i[3] # "off", deliverable |-> i[3] # "technical"]
  <2>3. PICK row \in BookingRows : row.status = i[2] /\ booking' = [booking EXCEPT ![b] = row]
    <3>1. booking' = [booking EXCEPT ![b] = new]
      BY <1>1, <2>2 DEF BookFor
    <3>2. (i[3] # "off") \in BOOLEAN /\ (i[3] # "technical") \in BOOLEAN
      OBVIOUS
    <3>3. new \in BookingRows /\ new.status = i[2]
      BY <2>1, <3>2 DEF BookingRows
    <3>4. QED
      BY <3>1, <3>3
  <2>4. booking[b].status = "none" /\ UNCHANGED <<hour, mark, reminder, delivered, unanswered>>
    BY <1>1, <2>2 DEF BookFor
  <2>5. booking' \in [Bookings -> BookingRows]
        /\ \A c \in Bookings : c # b => booking'[c] = booking[c]
    BY <2>3 DEF NotificationsInv, NotificationsTypeOK
  <2>6. QED
    BY <2>4, <2>5, AgendaMoves
<1>2. ASSUME NEW b \in Bookings, CancelBooking(b) PROVE NotificationsInv'
  <2>1. PICK row \in BookingRows : row = [booking[b] EXCEPT !.status = "cancelled"]
    BY NotificationFacts DEF BookingRows
  <2>2. /\ row.status = "cancelled" /\ row.start = booking[b].start
        /\ row.created = booking[b].created
    BY <2>1, NotificationFacts DEF BookingRows
  <2>3. booking' = [booking EXCEPT ![b] = row] /\ UNCHANGED <<hour, mark, reminder, delivered, unanswered>>
    BY <1>2, <2>1 DEF CancelBooking
  <2>4. booking' \in [Bookings -> BookingRows]
        /\ \A c \in Bookings : booking'[c] = IF c = b THEN row ELSE booking[c]
    BY <2>3 DEF NotificationsInv, NotificationsTypeOK
  <2>5. QED
    BY <2>2, <2>3, <2>4, AgendaMoves
<1>3. ASSUME UNCHANGED <<hour, booking, mark, reminder, delivered, unanswered>>
      PROVE  NotificationsInv'
  BY <1>3, AgendaMoves DEF NotificationsInv, NotificationsTypeOK
<1>4. ASSUME NEW m \in bookingMail, LoadBookingMail(m) \/ SendBookingMail(m) PROVE NotificationsInv'
  BY <1>3, <1>4 DEF LoadBookingMail, SendBookingMail
<1>5. ASSUME NEW r \in ReminderRuns, StartReminders(r) PROVE NotificationsInv'
  <2> DEFINE q == [IdleRun EXCEPT !.at = "reading", !.now = hour]
  <2>1. q \in ReminderStates /\ q.at = "reading" /\ q.now = hour /\ q.rows = {}
    BY NotificationFacts DEF IdleRun, ReminderStates
  <2>2. reminder' = [reminder EXCEPT ![r] = q] /\ UNCHANGED <<hour, booking, mark, delivered, unanswered>>
    BY <1>5 DEF StartReminders
  <2> HIDE DEF q
  <2>3. q.now <= hour /\ hour <= q.now + 1
    BY <2>1, NotificationFacts
  <2>4. QED
    BY <2>1, <2>2, <2>3, RunMoves
<1>6. ASSUME NEW r \in ReminderRuns, ReadWindow(r) PROVE NotificationsInv'
  <2>1. PICK o \in ReminderStates : o = reminder[r]
    BY NotificationFacts
  <2> DEFINE free == Pending(o.stage, o.now) \ LockedByRuns(ReminderRuns \ {r})
             page == Page(free)
             q == [o EXCEPT !.at = "page", !.rows = page, !.locks = o.locks \cup page]
  <2>2. page \subseteq free /\ free \subseteq Bookings
        /\ \A b \in free : booking[b].status # "none"
    BY DEF Page, Pending, InWindow, RemindedStatuses
  <2>3. reminder' = [reminder EXCEPT ![r] = q] /\ UNCHANGED <<hour, booking, mark, delivered, unanswered>>
    BY <1>6, <2>1 DEF ReadWindow
  <2> HIDE DEF page, free
  <2>4. q \in ReminderStates /\ q.at = "page" /\ q.now = o.now /\ q.rows = page
    BY <2>2 DEF ReminderStates
  <2>5. o.now <= hour /\ hour <= o.now + 1
    BY <1>6, <2>1 DEF ReadWindow, NotificationsInv, RunsAreRecent
  <2> HIDE DEF q
  <2>6. QED
    BY <2>2, <2>3, <2>4, <2>5, RunMoves
<1>7. ASSUME NEW r \in ReminderRuns, NextWindow(r) PROVE NotificationsInv'
  <2>1. PICK o \in ReminderStates : o = reminder[r]
    BY NotificationFacts
  <2> DEFINE q == IF o.stage = "2h" THEN [o EXCEPT !.at = "reading", !.stage = "24h"] ELSE IdleRun
  <2>2. /\ reminder' = [reminder EXCEPT ![r] = q] /\ o.at = "page" /\ o.rows = {}
        /\ UNCHANGED <<hour, booking, mark, delivered, unanswered>>
    BY <1>7, <2>1 DEF NextWindow
  <2>3. q \in ReminderStates /\ q.at # "claimed" /\ (q.at # "idle" => q.now = o.now /\ q.rows = o.rows)
    BY NotificationFacts DEF ReminderStates, Stages
  <2>4. o.now <= hour /\ hour <= o.now + 1
    BY <2>1, <2>2 DEF NotificationsInv, RunsAreRecent
  <2> HIDE DEF q
  <2>5. QED
    BY <2>2, <2>3, <2>4, RunMoves
<1>8. ASSUME NEW r \in ReminderRuns, RunCut(r) PROVE NotificationsInv'
  BY <1>8, NotificationFacts, RunMoves DEF RunCut
<1>9. ASSUME NEW r \in ReminderRuns, NEW b \in Bookings, ExamineRow(r, b) PROVE NotificationsInv'
  BY <1>9, ExamineKeeps
<1>10. ASSUME NEW r \in ReminderRuns, NEW o \in MailOutcomes, SendReminder(r, o) PROVE NotificationsInv'
  BY <1>10, SendKeeps
<1>11. ASSUME HourPasses PROVE NotificationsInv'
  <2>1. /\ hour' = hour + 1 /\ hour' \in 0..ReminderHorizon
        /\ \A r \in ReminderRuns : reminder[r].at # "idle" => reminder[r].now = hour
        /\ UNCHANGED <<booking, mark, reminder, delivered, unanswered>>
    BY <1>11, NotificationFacts, ReminderLeads DEF HourPasses
  <2>2. RunsAreRecent'
    BY <2>1, NotificationFacts DEF NotificationsInv, RunsAreRecent, StageIsDue
  <2>3. QED
    BY <2>1, <2>2 DEF NotificationsInv, NotificationsTypeOK, ClaimsHold, Holds,
       UnmarkedIsUnanswered, MailsInWindow, OneMailPerStage
<1>12. CASE UNCHANGED notifyVars
  BY <1>3, <1>12 DEF notifyVars
<1>13. QED
  BY <1>1, <1>2, <1>4, <1>5, <1>6, <1>7, <1>8, <1>9, <1>10, <1>11, <1>12 DEF NotificationsNext

(* For any appointments, runs, leads and limits, a stage reaches the client once unless the    *)
(* answer of a send was lost, and the reminder of 24 hours leaves before the one of 2          *)
(* (claim_reminder, _PISO_24H).                                                                *)
THEOREM RemindersAreRight == NotificationsSpec => []RemindersHold
<1>1. NotificationsInv => RemindersHold
  BY InTheirPlace DEF NotificationsInv, RemindersHold
<1>2. QED
  BY <1>1, InitNotificationsInv, NextNotificationsInv, PTL DEF NotificationsSpec

------------------------------------------------------------------------------
(* The edits of the deposit channels. An edit that is alone sees the store as it *)
(* is, and one that overlaps another is the case the warning does not cover.  *)

StoreFlags == [whatsapp : BOOLEAN, payments : BOOLEAN, manual : BOOLEAN, usable : BOOLEAN]
EditKinds == {"none", "whatsapp", "payments", "disconnect", "require"}
EditStates == [at : {"idle", "read", "checked"}, kind : EditKinds, copy : StoreFlags,
               before : BOOLEAN, warn : BOOLEAN]

(* An edit that is alone decides on the store as it is. *)
EditSees(e) ==
    /\ editor[e].copy = store
    /\ editor[e].before = AnyChannel(store)
    /\ editor[e].at = "checked" => editor[e].warn = ChannelLost(e)

EditsInv ==
    /\ store \in StoreFlags
    /\ editor \in [Editors -> EditStates]
    /\ told \in BOOLEAN /\ overlap \in BOOLEAN
    /\ ~ overlap =>
          /\ \A d, e \in Editors : d # e => Idle(d) \/ Idle(e)
          /\ \A e \in Editors : ~ Idle(e) => EditSees(e)

(* The channels of a store are decided by its flags, and no edit of the panel adds one. *)
LEMMA ChannelsOfFlags ==
    ASSUME NEW s \in StoreFlags
    PROVE  /\ AnyChannel(s) \in BOOLEAN
           /\ AnyChannel(s) <=> (s.payments /\ s.usable) \/ s.whatsapp
           /\ \A k \in EditKinds : Changed(s, k) \in StoreFlags
           /\ \A k \in EditKinds :
                 [Changed(s, k) EXCEPT !.usable = s.usable /\ Changed(s, k).usable] = Changed(s, k)
<1>1. /\ AnyChannel(s) \in BOOLEAN
      /\ AnyChannel(s) <=> (s.payments /\ s.usable) \/ s.whatsapp
  BY DEF AnyChannel, DepositChannelsOf, StoreFlags
<1>2. ASSUME NEW k \in EditKinds
      PROVE  /\ Changed(s, k) \in StoreFlags
             /\ [Changed(s, k) EXCEPT !.usable = s.usable /\ Changed(s, k).usable] = Changed(s, k)
  <2>1. CASE k = "whatsapp"
    <3>1. Changed(s, k) = [s EXCEPT !.whatsapp = FALSE]
      BY <2>1 DEF Changed
    <3>2. QED
      BY <3>1 DEF StoreFlags
  <2>2. CASE k = "payments"
    <3>1. Changed(s, k) = [s EXCEPT !.payments = FALSE]
      BY <2>2 DEF Changed
    <3>2. QED
      BY <3>1 DEF StoreFlags
  <2>3. CASE k = "disconnect"
    <3>1. Changed(s, k) = [s EXCEPT !.usable = FALSE]
      BY <2>3 DEF Changed
    <3>2. QED
      BY <3>1 DEF StoreFlags
  <2>4. CASE k \in {"none", "require"}
    <3>1. Changed(s, k) = s
      BY <2>4 DEF Changed
    <3>2. QED
      BY <3>1 DEF StoreFlags
  <2>5. QED
    BY <2>1, <2>2, <2>3, <2>4 DEF EditKinds
<1>3. QED
  BY <1>1, <1>2

(* No edit is under way at the start. *)
LEMMA InitEditsInv == DepositsInit => EditsInv
<1> SUFFICES ASSUME DepositsInit PROVE EditsInv
  OBVIOUS
<1>1. store \in StoreFlags
  BY DEF DepositsInit, StoreFlags
<1>2. NoEdit \in EditStates /\ NoEdit.at = "idle"
  BY DEF NoEdit, NoStore, EditStates, EditKinds, StoreFlags
<1>3. told \in BOOLEAN
  BY <1>1, ChannelsOfFlags DEF DepositsInit
<1>4. QED
  BY <1>1, <1>2, <1>3 DEF DepositsInit, EditsInv, Idle

(* What touches nothing the edits look at changes nothing of what they know. *)
LEMMA EditsUntouched ==
    ASSUME EditsInv, UNCHANGED <<store, services, told, editor, overlap>>
    PROVE  EditsInv'
BY DEF EditsInv, EditSees, Idle, ChannelLost, HasRequired

(* Who changes a flag or a service while no edit is under way, or makes it count as *)
(* overlapped, leaves nothing to know.                                              *)
LEMMA EditsOverlapped ==
    ASSUME EditsInv, store' \in StoreFlags, told' \in BOOLEAN, UNCHANGED editor,
           overlap' = (overlap \/ \E e \in Editors : ~ Idle(e))
    PROVE  EditsInv'
BY DEF EditsInv, Idle

(* Reads, checks and commits of the panel, and everybody else, keep what an edit knows. *)
LEMMA NextEditsInv == EditsInv /\ [DepositsNext]_depositVars => EditsInv'
<1> SUFFICES ASSUME EditsInv, [DepositsNext]_depositVars PROVE EditsInv'
  OBVIOUS
<1>0. store \in StoreFlags /\ editor \in [Editors -> EditStates] /\ told \in BOOLEAN
      /\ overlap \in BOOLEAN
  BY DEF EditsInv
<1>1. CASE \/ \E ask \in ClientAsks, withAddon, verified \in BOOLEAN : Preview(ask, withAddon, verified)
           \/ ResolveRequest \/ WriteBooking \/ AttachPaymentLink \/ PanelLink
           \/ \E p \in AddonPrices : ReplaceAddons(p)
           \/ \E p \in Promotions : EditPromotion(p)
           \/ UNCHANGED depositVars
  <2>1. UNCHANGED <<store, services, told, editor, overlap>>
    BY <1>1 DEF Preview, ResolveRequest, WriteBooking, AttachPaymentLink, PanelLink,
                ReplaceAddons, EditPromotion, depositVars
  <2>2. QED
    BY <2>1, EditsUntouched
<1>2. ASSUME NEW e \in Editors, NEW k \in {"whatsapp", "payments", "disconnect", "require"},
             EditRead(e, k)
      PROVE  EditsInv'
  <2> DEFINE x == [at |-> "read", kind |-> k, copy |-> store, before |-> AnyChannel(store),
                   warn |-> FALSE]
  <2>1. x \in EditStates
    BY <1>0, ChannelsOfFlags DEF EditStates, EditKinds
  <2>2. /\ editor' \in [Editors -> EditStates] /\ editor'[e] = x
        /\ \A d \in Editors \ {e} : editor'[d] = editor[d]
        /\ UNCHANGED <<store, services, told>>
        /\ ~ overlap' => ~ overlap /\ \A d \in Editors \ {e} : Idle(d)
    BY <1>0, <1>2, <2>1 DEF EditRead, Overlapping
  <2>3. ~ overlap' => \A d \in Editors \ {e} : editor'[d].at = "idle"
    BY <2>2 DEF Idle
  <2>4. x.at = "read" /\ x.copy = store /\ x.before = AnyChannel(store)
    OBVIOUS
  <2>5. overlap' \in BOOLEAN
    BY <1>0, <1>2 DEF EditRead, Overlapping
  <2>6. QED
    BY <1>0, <2>2, <2>3, <2>4, <2>5 DEF EditsInv, EditSees, Idle
<1>3. ASSUME NEW e \in Editors, EditCheck(e) PROVE EditsInv'
  <2> DEFINE x == [editor[e] EXCEPT !.at = "checked", !.warn = ChannelLost(e)]
  <2>1. ChannelLost(e) \in BOOLEAN
    BY <1>0 DEF ChannelLost, EditStates, HasRequired
  <2>2. x \in EditStates
    BY <1>0, <2>1 DEF EditStates
  <2>3. /\ x.at = "checked" /\ x.warn = ChannelLost(e) /\ x.copy = editor[e].copy
        /\ x.before = editor[e].before /\ x.kind = editor[e].kind
    BY <1>0 DEF EditStates
  <2>4. editor' = [editor EXCEPT ![e] = x]
    BY <1>0, <1>3 DEF EditCheck
  <2> HIDE DEF x
  <2>5. /\ editor' \in [Editors -> EditStates] /\ editor'[e] = x
        /\ \A d \in Editors \ {e} : editor'[d] = editor[d]
        /\ UNCHANGED <<store, services, told, overlap>>
        /\ ~ Idle(e)
    BY <1>0, <1>3, <2>2, <2>4 DEF EditCheck, Idle
  <2>6. ChannelLost(e)' = ChannelLost(e)
    BY <2>3, <2>5 DEF ChannelLost, HasRequired
  <2>7. ~ overlap => \A d \in Editors \ {e} : editor'[d].at = "idle"
    BY <2>5 DEF EditsInv, Idle
  <2>8. ~ overlap => editor[e].copy = store /\ editor[e].before = AnyChannel(store)
    BY <2>5 DEF EditsInv, EditSees
  <2>9. QED
    BY <1>0, <2>3, <2>5, <2>6, <2>7, <2>8 DEF EditsInv, EditSees, Idle
<1>4. ASSUME NEW e \in Editors, EditCommit(e) PROVE EditsInv'
  <2>1. NoEdit \in EditStates /\ NoEdit.at = "idle"
    BY DEF NoEdit, NoStore, EditStates, EditKinds, StoreFlags
  <2>2. /\ editor' \in [Editors -> EditStates] /\ editor'[e].at = "idle"
        /\ \A d \in Editors \ {e} : editor'[d] = editor[d]
        /\ overlap' = overlap /\ ~ Idle(e)
    BY <1>0, <1>4, <2>1 DEF EditCommit, Idle
  <2>3. ~ overlap' => \A d \in Editors : editor'[d].at = "idle"
    BY <2>2 DEF EditsInv, Idle
  <2>4. editor[e].kind \in EditKinds /\ editor[e].warn \in BOOLEAN
    BY <1>0 DEF EditStates
  <2>5. store' \in StoreFlags /\ told' \in BOOLEAN
    BY <1>0, <1>4, <2>4, ChannelsOfFlags DEF EditCommit
  <2>6. QED
    BY <1>0, <2>2, <2>3, <2>5 DEF EditsInv, Idle
<1>5. ASSUME NEW c \in {"whatsapp", "payments", "usable"}, RestoreChannel(c) PROVE EditsInv'
  <2>1. store' \in StoreFlags
    BY <1>0, <1>5 DEF RestoreChannel, StoreFlags
  <2>2. AnyChannel(store') \in BOOLEAN
    BY <2>1, ChannelsOfFlags
  <2>3. told' \in BOOLEAN
    BY <1>0, <1>5, <2>2 DEF RestoreChannel
  <2>4. QED
    BY <1>5, <2>1, <2>3, EditsOverlapped DEF RestoreChannel
<1>6. CASE ConnectionBreaks
  <2>1. store' \in StoreFlags
    BY <1>0, <1>6 DEF ConnectionBreaks, StoreFlags
  <2>2. AnyChannel(store') \in BOOLEAN
    BY <2>1, ChannelsOfFlags
  <2>3. told' \in BOOLEAN
    BY <1>0, <1>6, <2>2 DEF ConnectionBreaks
  <2>4. QED
    BY <1>6, <2>1, <2>3, EditsOverlapped DEF ConnectionBreaks
<1>7. ASSUME NEW i \in 1..2, NEW to \in BOOLEAN, SetActive(i, to) PROVE EditsInv'
  BY <1>0, <1>7, EditsOverlapped DEF SetActive
<1>8. QED
  BY <1>1, <1>2, <1>3, <1>4, <1>5, <1>6, <1>7 DEF DepositsNext

(* A step that takes the last channel of a store is of an edit that saw it, or tells at once. *)
LEMMA LossStep ==
    ASSUME EditsInv, DepositsNext, ~ overlap', AnyChannel(store), ~ AnyChannel(store'), HasRequired
    PROVE  told'
<1>0. store \in StoreFlags /\ editor \in [Editors -> EditStates] /\ told \in BOOLEAN
  BY DEF EditsInv
<1>1. store' # store
  OBVIOUS
<1>2. ASSUME NEW e \in Editors, EditCommit(e) PROVE told'
  <2>1. ~ overlap /\ ~ Idle(e) /\ editor[e].at = "checked" /\ store' = Changed(store, editor[e].kind)
        /\ told' = (told \/ editor[e].warn)
    BY <1>2 DEF EditCommit, Idle
  <2>2. editor[e].copy = store /\ editor[e].before = AnyChannel(store) /\ editor[e].warn = ChannelLost(e)
    BY <2>1 DEF EditsInv, EditSees
  <2>3. editor[e].kind \in EditKinds
    BY <1>0 DEF EditStates
  <2>4. [Changed(store, editor[e].kind) EXCEPT
            !.usable = store.usable /\ Changed(store, editor[e].kind).usable] = store'
    BY <1>0, <2>1, <2>3, ChannelsOfFlags
  <2>5. ChannelLost(e) = TRUE
    BY <2>2, <2>4 DEF ChannelLost
  <2>6. QED
    BY <2>1, <2>2, <2>5
<1>3. ASSUME NEW c \in {"whatsapp", "payments", "usable"}, RestoreChannel(c) PROVE FALSE
  <2>1. store' = [store EXCEPT ![c] = TRUE]
    BY <1>3 DEF RestoreChannel
  <2>2. store' \in StoreFlags
    BY <1>0, <2>1 DEF StoreFlags
  <2>3. /\ store.whatsapp => store'.whatsapp
        /\ store.payments => store'.payments
        /\ store.usable => store'.usable
    BY <1>0, <2>1 DEF StoreFlags
  <2>4. QED
    BY <1>0, <2>2, <2>3, ChannelsOfFlags
<1>4. CASE ConnectionBreaks
  BY <1>0, <1>4 DEF ConnectionBreaks
<1>5. QED
  BY <1>1, <1>2, <1>3, <1>4
  DEF DepositsNext, Preview, ResolveRequest, WriteBooking, AttachPaymentLink, PanelLink, EditRead,
      EditCheck, SetActive, ReplaceAddons, EditPromotion

(* As long as the edits of the panel do not overlap, a store whose last channel goes while a *)
(* service requires a deposit has told its owner, for any editors, services and edits        *)
(* (warn_if_deposit_channel_lost, _mark_connection_broken).                                   *)
THEOREM LossReachesTheOwner == DepositsSpec => LossIsTold
<1>1. EditsInv /\ [DepositsNext]_depositVars
        => [~ overlap' /\ AnyChannel(store) /\ ~ AnyChannel(store') /\ HasRequired => told']_depositVars
  BY LossStep DEF depositVars
<1>2. QED
  BY <1>1, InitEditsInv, NextEditsInv, PTL DEF DepositsSpec, LossIsTold

-----------------------------------------------------------------------------
(* Sums and maxima over sets, which the week and the deposits are built of. *)

(* The element of a set the library sums next. *)
NextOf(s) == CHOOSE x \in s : TRUE

(* g gives the sum of f over every subset of V, element by element. *)
SumsUp(f, V, g) ==
    /\ g \in [SUBSET V -> Nat]
    /\ \A s \in SUBSET V : g[s] = IF s = {} THEN 0 ELSE f[NextOf(s)] + g[s \ {NextOf(s)}]

(* Such a function exists, by the size of the subsets. *)
LEMMA SumExists ==
    ASSUME NEW V, IsFiniteSet(V), NEW f, \A v \in V : f[v] \in Nat
    PROVE  \E g : SumsUp(f, V, g)
<1> DEFINE Small(n) == {s \in SUBSET V : Cardinality(s) <= n}
<1> DEFINE Part(n, g) ==
      /\ g \in [Small(n) -> Nat]
      /\ \A s \in Small(n) : g[s] = IF s = {} THEN 0 ELSE f[NextOf(s)] + g[s \ {NextOf(s)}]
<1> DEFINE Bad == {n \in Nat : \A g : ~ Part(n, g)}
<1>1. \A s \in SUBSET V : IsFiniteSet(s) /\ Cardinality(s) \in Nat
  BY FS_Subset, FS_CardinalityType
<1>2. ASSUME NEW n \in Nat, NEW s \in Small(n), s # {}
      PROVE  NextOf(s) \in V /\ NextOf(s) \in s /\ n # 0 /\ s \ {NextOf(s)} \in Small(n - 1)
  <2>1. NextOf(s) \in s
    BY <1>2 DEF NextOf
  <2>2. Cardinality(s \ {NextOf(s)}) = Cardinality(s) - 1
    BY <2>1, <1>1, FS_RemoveElement
  <2>3. Cardinality(s \ {NextOf(s)}) \in Nat
    BY <1>1
  <2>4. QED
    BY <2>1, <2>2, <2>3, <1>1
<1>3. ASSUME Bad # {} PROVE FALSE
  <2>1. PICK n \in Bad : \A m \in Bad : n <= m
    <3> HIDE DEF Bad
    <3>1. Bad \in SUBSET Nat BY DEF Bad
    <3>2. QED BY <3>1, <1>3, Least
  <2>2. CASE n = 0
    <3>1. \A s \in Small(0) : s = {}
      BY <1>2
    <3> DEFINE z == [s \in Small(0) |-> 0]
    <3>2. z \in [Small(0) -> Nat] /\ \A s \in Small(0) : z[s] = 0
      OBVIOUS
    <3> HIDE DEF z, Small
    <3>3. Part(0, z)
      BY <3>1, <3>2
    <3>4. QED
      BY <3>3, <2>1, <2>2
  <2>3. CASE n # 0
    <3>1. n \in Nat /\ n - 1 \in Nat /\ n - 1 \notin Bad
      <4>1. n \in Nat
        OBVIOUS
      <4> HIDE DEF Bad
      <4>2. QED BY <4>1, <2>1, <2>3
    <3>2. PICK g : Part(n - 1, g)
      BY <3>1
    <3> DEFINE h == [s \in Small(n) |-> IF s = {} THEN 0 ELSE f[NextOf(s)] + g[s \ {NextOf(s)}]]
    <3>3. \A s \in Small(n - 1) : s \in Small(n) /\ h[s] = g[s]
      BY <3>1, <3>2, <1>1
    <3>4. ASSUME NEW s \in Small(n)
          PROVE  h[s] \in Nat /\ h[s] = IF s = {} THEN 0 ELSE f[NextOf(s)] + h[s \ {NextOf(s)}]
      <4>1. CASE s = {}
        BY <4>1
      <4>2. CASE s # {}
        <5>1. NextOf(s) \in V /\ s \ {NextOf(s)} \in Small(n - 1)
          BY <4>2, <3>1, <1>2
        <5>2. g[s \ {NextOf(s)}] \in Nat /\ h[s \ {NextOf(s)}] = g[s \ {NextOf(s)}]
          BY <5>1, <3>2, <3>3
        <5>3. h[s] = f[NextOf(s)] + g[s \ {NextOf(s)}]
          BY <4>2
        <5>4. f[NextOf(s)] \in Nat
          BY <5>1
        <5> HIDE DEF h, Small
        <5>5. QED
          BY <4>2, <5>2, <5>3, <5>4
      <4>3. QED
        BY <4>1, <4>2
    <3>5. h \in [Small(n) -> Nat]
      <4>1. \A s \in Small(n) : h[s] \in Nat
        BY <3>4
      <4> DEFINE S == Small(n)
      <4>2. h = [s \in S |-> h[s]]
        OBVIOUS
      <4> HIDE DEF h, S
      <4>3. QED
        BY <4>1, <4>2 DEF S
    <3>6. Part(n, h)
      <4> HIDE DEF h, Small
      <4>1. QED BY <3>4, <3>5
    <3>7. QED
      BY <3>6, <2>1
  <2>4. QED
    BY <2>2, <2>3
<1>4. Cardinality(V) \in Nat /\ \A s \in SUBSET V : Cardinality(s) <= Cardinality(V)
  BY FS_Subset, FS_CardinalityType
<1>5. Small(Cardinality(V)) = SUBSET V
  BY <1>4
<1>6. PICK g : Part(Cardinality(V), g)
  <2> HIDE DEF Part
  <2>1. QED BY <1>3, <1>4
<1>7. SumsUp(f, V, g)
  <2> HIDE DEF Small
  <2>1. QED BY <1>5, <1>6 DEF SumsUp
<1>8. QED
  BY <1>7

(* And there is only one, which the library computes. *)
LEMMA SumIs ==
    ASSUME NEW V, IsFiniteSet(V), NEW f, NEW g, SumsUp(f, V, g)
    PROVE  SumFunctionOnSet(f, V) = g[V]
<1> DEFINE Step(h) == [s \in SUBSET V |-> IF s = {} THEN 0 ELSE f[NextOf(s)] + h[s \ {NextOf(s)}]]
<1> DEFINE iter == CHOOSE h : h = Step(h)
<1>1. SumFunctionOnSet(f, V) = iter[V]
  BY DEF SumFunctionOnSet, FoldFunctionOnSet, MapThenFoldSet, NextOf
<1>2. g = Step(g)
  BY DEF SumsUp
<1>3. iter = Step(iter)
  BY <1>2
<1> HIDE DEF iter
<1> DEFINE D == {s \in SUBSET V : iter[s] # g[s]}
<1> DEFINE Sizes == {Cardinality(s) : s \in D}
<1>4. \A s \in SUBSET V : IsFiniteSet(s) /\ Cardinality(s) \in Nat
  BY FS_Subset, FS_CardinalityType
<1>5. ASSUME D # {} PROVE FALSE
  <2>1. PICK n \in Sizes : \A m \in Sizes : n <= m
    <3>1. Sizes \in SUBSET Nat /\ Sizes # {}
      BY <1>4, <1>5
    <3> HIDE DEF Sizes
    <3>2. QED BY <3>1, Least
  <2>2. PICK s \in D : n = Cardinality(s)
    BY <2>1
  <2>3. s \in SUBSET V /\ iter[s] # g[s]
    BY <2>2
  <2>4. iter[s] = (IF s = {} THEN 0 ELSE f[NextOf(s)] + iter[s \ {NextOf(s)}])
    BY <1>3, <2>3
  <2>5. g[s] = (IF s = {} THEN 0 ELSE f[NextOf(s)] + g[s \ {NextOf(s)}])
    BY <2>3 DEF SumsUp
  <2>6. s # {}
    BY <2>3, <2>4, <2>5
  <2> DEFINE t == s \ {NextOf(s)}
  <2>7. t \in D
    BY <2>3, <2>4, <2>5, <2>6
  <2>8. Cardinality(t) = Cardinality(s) - 1
    BY <2>6, <2>3, <1>4, FS_RemoveElement DEF NextOf
  <2>9. Cardinality(t) \in Sizes
    BY <2>7
  <2>10. Cardinality(s) \in Nat /\ Cardinality(t) \in Nat
    BY <2>3, <1>4
  <2> HIDE DEF t, D, Sizes
  <2>11. QED
    BY <2>1, <2>2, <2>8, <2>9, <2>10
<1>6. QED
  BY <1>1, <1>5

(* A sum of natural numbers is one; it is not zero if none of them is. *)
LEMMA SumType ==
    ASSUME NEW V, IsFiniteSet(V), NEW f, \A v \in V : f[v] \in Nat
    PROVE  /\ SumFunctionOnSet(f, V) \in Nat
           /\ V # {} /\ (\A v \in V : f[v] # 0) => SumFunctionOnSet(f, V) # 0
<1>1. PICK g : SumsUp(f, V, g)
  BY SumExists
<1>2. SumFunctionOnSet(f, V) = g[V]
  BY <1>1, SumIs
<1>3. g[V] \in Nat
  BY <1>1 DEF SumsUp
<1>4. ASSUME V # {} PROVE NextOf(V) \in V /\ g[V] = f[NextOf(V)] + g[V \ {NextOf(V)}] /\ g[V \ {NextOf(V)}] \in Nat
  BY <1>1, <1>4 DEF SumsUp, NextOf
<1>5. QED
  BY <1>2, <1>3, <1>4

(* A set of numbers with an upper bound has a maximum. *)
LEMMA MaxBelow ==
    ASSUME NEW S \in SUBSET Int, S # {}, NEW b \in Int, \A x \in S : x <= b
    PROVE  Max(S) \in S /\ \A x \in S : x <= Max(S)
<1> DEFINE T == {b - x : x \in S}
<1>1. T \in SUBSET Nat /\ T # {}
  <2>1. \A x \in S : b - x \in Nat
    OBVIOUS
  <2>2. PICK x \in S : TRUE
    OBVIOUS
  <2>3. b - x \in T
    OBVIOUS
  <2>4. QED
    BY <2>1, <2>3
<1>2. PICK n \in T : \A m \in T : n <= m
  <2> HIDE DEF T
  <2>1. QED BY <1>1, Least
<1>3. PICK y \in S : n = b - y
  BY <1>2
<1>4. \A x \in S : y >= x
  BY <1>2, <1>3
<1>5. QED
  BY <1>4 DEF Max

-----------------------------------------------------------------------------
(* The week: no two ranges of a day overlap, and what a request is about to   *)
(* write fits the week as it is, which its lock keeps.                         *)
RowsApart(rows) ==
    \A i, j \in RowIds(rows) :
        i # j /\ rows[i].day = rows[j].day
        => ~ Overlaps(rows[i].from, rows[i].to, rows[j].from, rows[j].to)

(* A request that adds, updates or deletes carries the only row it changes. *)
OneRow(rows, i, row) == rows = [IdleWeek.rows EXCEPT ![i] = row]

(* What a running request checked against the week still holds of it. *)
WritesApart(r) ==
    LET q == weekReq[r] IN
    /\ q.at # "idle" => q.staff \in AvStaff
    /\ q.at \in {"add", "update", "delete"} =>
          \E i \in FranjaIds, row \in Rows :
              /\ OneRow(q.rows, i, row)
              /\ q.at # "delete" => NoOverlap(week[q.staff], row, {i})
    /\ q.at = "replace" => RowsApart(q.rows)

(* One request per professional: the row lock of the week. *)
WeeksLocked ==
    \A q, r \in WeekRequests :
        q # r /\ weekReq[q].at # "idle" /\ weekReq[r].at # "idle"
        => weekReq[q].staff # weekReq[r].staff

(* The inductive invariant of the weeks. *)
WeeksInv ==
    /\ AvailabilityTypeOK
    /\ WeeksLocked
    /\ \A s \in AvStaff : RowsApart(week[s])
    /\ \A r \in WeekRequests : WritesApart(r)

(* A row of a week: ids are numbers, and its range is not empty. *)
LEMMA RowType ==
    ASSUME NEW row \in Rows
    PROVE  /\ row # NoFranja
           /\ row.day \in {0, 1} /\ row.from \in Nat /\ row.to \in Nat
           /\ row.from < row.to /\ row.to <= DayEnd
BY AvailabilityAssumption DEF Rows

(* The rows of a week are rows, and their ids are numbers. *)
LEMMA WeekRows ==
    ASSUME NEW rows \in [FranjaIds -> Rows \cup {NoFranja}]
    PROVE  \A i \in RowIds(rows) : i \in Nat /\ rows[i] \in Rows
BY AvailabilityAssumption DEF RowIds

(* What a request writes: the only row it has, in its place. *)
LEMMA OneRowIs ==
    ASSUME NEW rows, NEW i \in FranjaIds, NEW row \in Rows, OneRow(rows, i, row)
    PROVE  /\ rows[i] = row
           /\ \A j \in FranjaIds : rows[j] # NoFranja <=> j = i
           /\ (CHOOSE j \in FranjaIds : rows[j] # NoFranja) = i
<1>1. \A j \in FranjaIds : rows[j] = IF j = i THEN row ELSE NoFranja
  BY DEF OneRow, IdleWeek
<1>2. QED
  BY <1>1, RowType

(* first_overlapping_day looks at neighbours; that is enough: of the rows after i  *)
(* in its day, the first one is the one to look at.                                  *)
LEMMA NeighboursAreEnough ==
    ASSUME NEW rows \in [FranjaIds -> Rows \cup {NoFranja}], ~ FirstOverlappingDay(rows)
    PROVE  RowsApart(rows)
<1>1. \A i \in RowIds(rows) :
          /\ i \in Nat /\ rows[i].from \in Nat /\ rows[i].to \in Nat
          /\ rows[i].from < rows[i].to
  BY WeekRows, RowType
<1>2. ASSUME NEW i \in RowIds(rows), NEW j \in RowIds(rows), Precedes(rows, i, j)
      PROVE  rows[i].to <= rows[j].from
  <2> DEFINE After == {k \in RowIds(rows) : Precedes(rows, i, k)}
  <2> DEFINE Froms == {rows[k].from : k \in After}
  <2>1. PICK n \in Froms : \A m \in Froms : n <= m
    <3>1. Froms \in SUBSET Nat /\ Froms # {}
      BY <1>1, <1>2
    <3> HIDE DEF Froms
    <3>2. QED BY <3>1, Least
  <2> DEFINE Early == {k \in After : rows[k].from = n}
  <2> DEFINE Tos == {rows[k].to : k \in Early}
  <2>2. PICK m \in Tos : \A o \in Tos : m <= o
    <3>1. Tos \in SUBSET Nat /\ Tos # {}
      BY <1>1, <2>1
    <3> HIDE DEF Tos
    <3>2. QED BY <3>1, Least
  <2> DEFINE Short == {k \in Early : rows[k].to = m}
  <2>3. PICK k \in Short : \A l \in Short : k <= l
    <3>1. Short \in SUBSET Nat /\ Short # {}
      BY <1>1, <2>2
    <3> HIDE DEF Short
    <3>2. QED BY <3>1, Least
  <2>4. k \in RowIds(rows) /\ Precedes(rows, i, k) /\ rows[k].from = n /\ rows[k].to = m
    BY <2>3
  <2>5. ASSUME NEW l \in RowIds(rows), Precedes(rows, i, l), Precedes(rows, l, k)
        PROVE  FALSE
    <3>1. rows[l].from \in Froms /\ n <= rows[l].from
      BY <2>5, <2>1
    <3>2. rows[l].from = n
      BY <3>1, <2>5, <2>4, <1>1 DEF Precedes
    <3>3. rows[l].to \in Tos /\ m <= rows[l].to
      BY <3>2, <2>5, <2>2
    <3>4. rows[l].to = m
      BY <3>2, <3>3, <2>5, <2>4, <1>1 DEF Precedes
    <3>5. l \in Short /\ k <= l
      BY <3>2, <3>4, <2>5, <2>3
    <3>6. QED
      BY <3>2, <3>4, <3>5, <2>4, <2>5, <1>1 DEF Precedes
  <2>6. ~ (rows[k].from < rows[i].to)
    BY <2>4, <2>5 DEF FirstOverlappingDay
  <2>7. rows[k].from <= rows[j].from
    <3>1. rows[j].from \in Froms
      BY <1>2
    <3>2. QED BY <3>1, <2>1, <2>4
  <2>8. QED
    BY <2>4, <2>6, <2>7, <1>1
<1>3. ASSUME NEW i \in RowIds(rows), NEW j \in RowIds(rows), i # j, rows[i].day = rows[j].day
      PROVE  Precedes(rows, i, j) \/ Precedes(rows, j, i)
  BY <1>1, <1>3 DEF Precedes
<1>4. QED
  BY <1>1, <1>2, <1>3 DEF RowsApart, Overlaps

(* A row put where it overlaps no other leaves the week apart. *)
LEMMA PutRow ==
    ASSUME NEW rows \in [FranjaIds -> Rows \cup {NoFranja}], RowsApart(rows),
           NEW i \in FranjaIds, NEW row \in Rows, NoOverlap(rows, row, {i})
    PROVE  RowsApart([rows EXCEPT ![i] = row])
<1> DEFINE new == [rows EXCEPT ![i] = row]
<1>1. \A j \in RowIds(new) : j \in FranjaIds /\ new[j] = IF j = i THEN row ELSE rows[j]
  BY DEF RowIds
<1>2. \A j \in RowIds(new) \ {i} : j \in RowIds(rows) \ {i}
  BY DEF RowIds
<1>3. \A j \in RowIds(rows) \ {i} :
          rows[j].day = row.day =>
              /\ ~ Overlaps(rows[j].from, rows[j].to, row.from, row.to)
              /\ ~ Overlaps(row.from, row.to, rows[j].from, rows[j].to)
  BY WeekRows, RowType DEF NoOverlap, Overlaps
<1> HIDE DEF new
<1>4. RowsApart(new)
  BY <1>1, <1>2, <1>3 DEF RowsApart
<1>5. QED
  BY <1>4 DEF new

(* A row taken away, too. *)
LEMMA DropRow ==
    ASSUME NEW rows \in [FranjaIds -> Rows \cup {NoFranja}], RowsApart(rows),
           NEW i \in FranjaIds
    PROVE  RowsApart([rows EXCEPT ![i] = NoFranja])
<1> DEFINE new == [rows EXCEPT ![i] = NoFranja]
<1>1. \A j \in RowIds(new) : j \in RowIds(rows) /\ new[j] = rows[j]
  BY DEF RowIds
<1> HIDE DEF new
<1>2. RowsApart(new)
  BY <1>1 DEF RowsApart
<1>3. QED
  BY <1>2 DEF new

(* The minutes of a choice of services. *)
LEMMA MinutesType ==
    ASSUME NEW V \in ShortSelections
    PROVE  SelectionMinutes(V) \in Nat \ {0}
<1>1. V \subseteq AvServices /\ V # {} /\ IsFiniteSet(V)
  BY AvailabilityAssumption, FS_Subset DEF ShortSelections
<1>2. \A v \in V : ServiceMinutes[v] \in Nat /\ ServiceMinutes[v] # 0
  BY <1>1, AvailabilityAssumption
<1>3. QED
  BY <1>1, <1>2, SumType DEF SelectionMinutes

(* The weeks start apart. *)
LEMMA InitWeeksInv == AvailabilityInit => WeeksInv
<1> SUFFICES ASSUME AvailabilityInit PROVE WeeksInv
  OBVIOUS
<1>1. IdleWeek.rows \in [FranjaIds -> Rows \cup {NoFranja}]
  BY DEF IdleWeek
<1>2. ASSUME NEW i \in FranjaIds, NEW row \in Rows
      PROVE  [IdleWeek.rows EXCEPT ![i] = row] \in [FranjaIds -> Rows \cup {NoFranja}]
  BY <1>1
<1>3. ASSUME NEW s \in AvStaff
      PROVE  /\ week[s] \in [FranjaIds -> Rows \cup {NoFranja}]
             /\ RowsApart(week[s])
  <2>1. \/ week[s] = IdleWeek.rows
        \/ \E i \in FranjaIds, row \in Rows : OneRow(week[s], i, row)
    BY DEF AvailabilityInit, OneRow
  <2>2. CASE week[s] = IdleWeek.rows
    <3>1. RowIds(week[s]) = {}
      BY <2>2 DEF RowIds, IdleWeek
    <3>2. QED BY <2>2, <3>1, <1>1 DEF RowsApart
  <2>3. ASSUME NEW i \in FranjaIds, NEW row \in Rows, OneRow(week[s], i, row)
        PROVE  /\ week[s] \in [FranjaIds -> Rows \cup {NoFranja}]
               /\ RowsApart(week[s])
    <3>1. RowIds(week[s]) = {i}
      <4> DEFINE rows == week[s]
      <4> HIDE DEF rows
      <4>1. \A j \in FranjaIds : rows[j] # NoFranja <=> j = i
        BY <2>3, OneRowIs DEF rows
      <4>2. QED BY <4>1 DEF RowIds, rows
    <3>2. QED
      BY <2>3, <3>1, <1>2 DEF RowsApart, OneRow
  <2>4. QED
    BY <2>1, <2>2, <2>3
<1>4. AvailabilityTypeOK
  <2>1. week \in [AvStaff -> [FranjaIds -> Rows \cup {NoFranja}]]
    BY <1>3 DEF AvailabilityInit
  <2>2. weekReq \in [WeekRequests -> [at : {"idle", "add", "update", "delete", "replace"},
                                     staff : AvStaff \cup {NoStaff},
                                     rows : [FranjaIds -> Rows \cup {NoFranja}]]]
    <3>1. IdleWeek \in [at : {"idle", "add", "update", "delete", "replace"},
                        staff : AvStaff \cup {NoStaff},
                        rows : [FranjaIds -> Rows \cup {NoFranja}]]
      BY DEF IdleWeek
    <3>2. QED BY <3>1 DEF AvailabilityInit
  <2>3. clock \in Instants
    BY AvailabilityAssumption DEF AvailabilityInit, Instants
  <2>4. QED
    BY <2>1, <2>2, <2>3 DEF AvailabilityTypeOK, AvailabilityInit
<1>5. \A r \in WeekRequests : weekReq[r].at = "idle"
  BY DEF AvailabilityInit, IdleWeek
<1>6. QED
  BY <1>3, <1>4, <1>5 DEF WeeksInv, WeeksLocked, WritesApart

(* What a request asks for under the lock of the professional. *)
LEMMA WeekAsked ==
    ASSUME WeeksInv, NEW r \in WeekRequests, NEW s \in AvStaff,
           NEW kind \in {"add", "update", "delete", "replace"},
           NEW rows \in [FranjaIds -> Rows \cup {NoFranja}],
           LockStaff(r, s), WriteWeek(r, kind, s, rows), week' = week,
           kind # "replace" =>
               \E i \in FranjaIds, row \in Rows :
                   OneRow(rows, i, row) /\ (kind # "delete" => NoOverlap(week[s], row, {i})),
           kind = "replace" => RowsApart(rows),
           booked' = booked, blocked' = blocked, clock' = clock
    PROVE  WeeksInv'
<1>1. /\ weekReq'[r] = [at |-> kind, staff |-> s, rows |-> rows]
      /\ \A q \in WeekRequests \ {r} : weekReq'[q] = weekReq[q]
  BY DEF WeeksInv, AvailabilityTypeOK, WriteWeek
<1>2. AvailabilityTypeOK'
  BY DEF WeeksInv, AvailabilityTypeOK, WriteWeek
<1>3. WeeksLocked'
  BY <1>1 DEF WeeksInv, WeeksLocked, LockStaff
<1>4. \A q \in WeekRequests \ {r} : WritesApart(q)'
  BY <1>1 DEF WeeksInv, WritesApart
<1>5. WritesApart(r)'
  <2>1. weekReq'[r].at = kind /\ weekReq'[r].staff = s /\ weekReq'[r].rows = rows
    BY <1>1
  <2>2. CASE kind = "replace"
    BY <2>1, <2>2 DEF WritesApart, RowsApart
  <2>3. CASE kind # "replace"
    <3>1. PICK i \in FranjaIds, row \in Rows :
              OneRow(rows, i, row) /\ (kind # "delete" => NoOverlap(week[s], row, {i}))
      BY <2>3
    <3>2. OneRow(weekReq'[r].rows, i, row) /\ (kind # "delete" => NoOverlap(week'[s], row, {i}))
      BY <3>1, <2>1
    <3>3. QED
      BY <3>2, <2>1, <2>3 DEF WritesApart
  <2>4. QED BY <2>2, <2>3
<1>6. QED
  BY <1>2, <1>3, <1>4, <1>5 DEF WeeksInv

(* The commit writes one week, which stays apart; nobody else had its lock. *)
LEMMA WeekCommitted ==
    ASSUME WeeksInv, NEW r \in WeekRequests, CommitWeek(r)
    PROVE  WeeksInv'
<1> DEFINE q == weekReq[r]
<1> DEFINE i == CHOOSE j \in FranjaIds : q.rows[j] # NoFranja
<1> DEFINE old == week[q.staff]
<1> DEFINE new == CASE q.at = "replace" -> q.rows
                    [] q.at = "delete"  -> [old EXCEPT ![i] = NoFranja]
                    [] q.at = "update" /\ old[i] = NoFranja -> old
                    [] OTHER            -> [old EXCEPT ![i] = q.rows[i]]
<1>1. /\ q.at \in {"add", "update", "delete", "replace"} /\ q.staff \in AvStaff
      /\ q.rows \in [FranjaIds -> Rows \cup {NoFranja}]
      /\ old \in [FranjaIds -> Rows \cup {NoFranja}]
  BY DEF WeeksInv, AvailabilityTypeOK, WritesApart, CommitWeek
<1>2. week' = [week EXCEPT ![q.staff] = new]
  BY DEF CommitWeek
<1>3. RowsApart(old)
  BY <1>1 DEF WeeksInv
<1>4. new \in [FranjaIds -> Rows \cup {NoFranja}] /\ RowsApart(new)
  <2>1. CASE q.at = "replace"
    <3>1. RowsApart(q.rows)
      BY <2>1 DEF WeeksInv, WritesApart
    <3>2. QED BY <3>1, <2>1, <1>1
  <2>2. CASE q.at # "replace"
    <3>1. PICK k \in FranjaIds, row \in Rows :
              /\ OneRow(q.rows, k, row)
              /\ q.at # "delete" => NoOverlap(old, row, {k})
      BY <2>2, <1>1 DEF WeeksInv, WritesApart
    <3>2. i = k /\ q.rows[i] = row
      BY <3>1, OneRowIs
    <3>3. CASE q.at = "delete"
      <4>1. new = [old EXCEPT ![k] = NoFranja]
        BY <3>3, <3>2
      <4> HIDE DEF old, new
      <4>2. RowsApart([old EXCEPT ![k] = NoFranja])
        BY <1>1, <1>3, DropRow
      <4>3. [old EXCEPT ![k] = NoFranja] \in [FranjaIds -> Rows \cup {NoFranja}]
        BY <1>1
      <4>4. QED BY <4>1, <4>2, <4>3
    <3>4. CASE q.at # "delete"
      <4>1. new = old \/ new = [old EXCEPT ![k] = row]
        BY <3>2, <3>4, <2>2
      <4>2. RowsApart([old EXCEPT ![k] = row])
        BY <3>1, <3>4, <1>1, <1>3, PutRow
      <4>3. [old EXCEPT ![k] = row] \in [FranjaIds -> Rows \cup {NoFranja}]
        BY <1>1
      <4> HIDE DEF old, new
      <4>4. QED BY <4>1, <4>2, <4>3, <1>1, <1>3
    <3>5. QED BY <3>3, <3>4
  <2>3. QED BY <2>1, <2>2
<1> HIDE DEF new
<1>5. \A s \in AvStaff : week'[s] = IF s = q.staff THEN new ELSE week[s]
  BY <1>2 DEF WeeksInv, AvailabilityTypeOK
<1>6. \A p \in WeekRequests : weekReq'[p] = IF p = r THEN IdleWeek ELSE weekReq[p]
  BY DEF WeeksInv, AvailabilityTypeOK, CommitWeek
<1>7. AvailabilityTypeOK'
  <2>1. week' \in [AvStaff -> [FranjaIds -> Rows \cup {NoFranja}]]
    BY <1>2, <1>4 DEF WeeksInv, AvailabilityTypeOK
  <2>2. IdleWeek \in [at : {"idle", "add", "update", "delete", "replace"},
                      staff : AvStaff \cup {NoStaff},
                      rows : [FranjaIds -> Rows \cup {NoFranja}]]
    BY DEF IdleWeek
  <2>3. QED
    BY <2>1, <2>2 DEF WeeksInv, AvailabilityTypeOK, CommitWeek
<1>8. ASSUME NEW p \in WeekRequests PROVE WritesApart(p)'
  <2>1. CASE p = r
    BY <2>1, <1>6 DEF WritesApart, IdleWeek
  <2>2. CASE p # r /\ weekReq[p].at = "idle"
    BY <2>2, <1>6 DEF WritesApart
  <2>3. CASE p # r /\ weekReq[p].at # "idle"
    <3>1. weekReq[p].staff # q.staff /\ weekReq[p].staff \in AvStaff
      BY <2>3, <1>1 DEF WeeksInv, WeeksLocked, WritesApart
    <3>2. week'[weekReq[p].staff] = week[weekReq[p].staff] /\ weekReq'[p] = weekReq[p]
      BY <3>1, <2>3, <1>5, <1>6
    <3>3. WritesApart(p)
      BY DEF WeeksInv
    <3>4. QED
      BY <3>2, <3>3 DEF WritesApart
  <2>4. QED BY <2>1, <2>2, <2>3
<1>9. QED
  BY <1>4, <1>5, <1>6, <1>7, <1>8 DEF WeeksInv, WeeksLocked, IdleWeek

(* Every write of a week, booking and block keeps them. *)
LEMMA NextWeeksInv == WeeksInv /\ [AvailabilityNext]_availVars => WeeksInv'
<1> SUFFICES ASSUME WeeksInv, [AvailabilityNext]_availVars PROVE WeeksInv'
  OBVIOUS
<1> DEFINE SameWeeks == week' = week /\ weekReq' = weekReq
<1>1. ASSUME SameWeeks, AvailabilityTypeOK' PROVE WeeksInv'
  BY <1>1 DEF WeeksInv, WeeksLocked, WritesApart
<1>2. CASE ClockTicks
  <2>1. clock' \in Instants
    BY <1>2, AvailabilityAssumption DEF ClockTicks, WeeksInv, AvailabilityTypeOK, Instants
  <2>2. QED
    BY <2>1, <1>1, <1>2 DEF ClockTicks, WeeksInv, AvailabilityTypeOK
<1>3. ASSUME NEW s \in AvStaff, NEW V \in ShortSelections, NEW t \in Instants, BookRange(s, V, t)
      PROVE  WeeksInv'
  <2>1. <<t, t + SelectionMinutes(V)>> \in Instants \X Instants
    BY <1>3, MinutesType, AvailabilityAssumption DEF BookRange, Instants
  <2>2. booked' \in [AvStaff -> SUBSET (Instants \X Instants)]
    BY <2>1, <1>3 DEF BookRange, WeeksInv, AvailabilityTypeOK
  <2>3. QED
    BY <2>2, <1>1, <1>3 DEF BookRange, WeeksInv, AvailabilityTypeOK
<1>4. ASSUME NEW s \in AvStaff, NEW t \in Instants, NEW u \in Instants, BlockRange(s, t, u)
      PROVE  WeeksInv'
  <2>1. blocked' \in [AvStaff -> SUBSET (Instants \X Instants)]
    BY <1>4 DEF BlockRange, WeeksInv, AvailabilityTypeOK
  <2>2. QED
    BY <2>1, <1>1, <1>4 DEF BlockRange, WeeksInv, AvailabilityTypeOK
<1>5. \A i \in FranjaIds, row \in Rows :
          LET rows == [IdleWeek.rows EXCEPT ![i] = row]
          IN  rows \in [FranjaIds -> Rows \cup {NoFranja}] /\ OneRow(rows, i, row)
  BY DEF IdleWeek, OneRow
<1>6. ASSUME NEW r \in WeekRequests, NEW s \in AvStaff, NEW i \in FranjaIds, NEW row \in Rows,
             AddSchedule(r, s, i, row)
      PROVE  WeeksInv'
  <2>1. NoOverlap(week[s], row, {i})
    BY <1>6 DEF AddSchedule, NoOverlap
  <2>2. QED
    BY <2>1, <1>5, <1>6, WeekAsked DEF AddSchedule
<1>7. ASSUME NEW r \in WeekRequests, NEW s \in AvStaff, NEW i \in FranjaIds, NEW row \in Rows,
             UpdateSchedule(r, s, i, row)
      PROVE  WeeksInv'
  BY <1>5, <1>7, WeekAsked DEF UpdateSchedule
<1>8. ASSUME NEW r \in WeekRequests, NEW s \in AvStaff, NEW i \in FranjaIds, DeleteSchedule(r, s, i)
      PROVE  WeeksInv'
  <2>1. week[s][i] \in Rows
    BY <1>8 DEF DeleteSchedule, WeeksInv, AvailabilityTypeOK
  <2>2. QED
    BY <2>1, <1>5, <1>8, WeekAsked DEF DeleteSchedule
<1>9. ASSUME NEW r \in WeekRequests, NEW s \in AvStaff,
             NEW rows \in [FranjaIds -> Rows \cup {NoFranja}], ReplaceSchedules(r, s, rows)
      PROVE  WeeksInv'
  BY <1>9, NeighboursAreEnough, WeekAsked DEF ReplaceSchedules
<1>10. CASE UNCHANGED availVars
  BY <1>10, <1>1 DEF availVars, WeeksInv, AvailabilityTypeOK
<1>11. QED
  BY <1>2, <1>3, <1>4, <1>6, <1>7, <1>8, <1>9, <1>10, WeekCommitted DEF AvailabilityNext

(* The day: what the grid is made of. *)
LEMMA HoursType ==
    ASSUME WeeksInv, NEW s \in AvStaff, NEW f \in EffectiveHours(s)
    PROVE  f.from \in Nat /\ f.to \in Nat /\ f.from < f.to /\ f.to <= DayEnd
<1>1. week[s] \in [FranjaIds -> Rows \cup {NoFranja}]
  BY DEF WeeksInv, AvailabilityTypeOK
<1>2. QED
  BY <1>1, WeekRows, RowType, AvailabilityAssumption DEF EffectiveHours

(* What is busy or blocked are instants. *)
LEMMA BusyType ==
    ASSUME WeeksInv, NEW s \in AvStaff
    PROVE  /\ \A b \in booked[s] \cup blocked[s] : b[1] \in Int /\ b[2] \in Int
           /\ MinBookable \in Int /\ DayBuffer \in Nat
BY AvailabilityAssumption DEF WeeksInv, AvailabilityTypeOK, Instants, MinBookable

(* What is free is accepted: both read the same rows, one by one half of its bounds. *)
LEMMA FreeIsAccepted ==
    ASSUME WeeksInv, NEW V \in ShortSelections, NEW s \in AvStaff, NEW f \in EffectiveHours(s),
           NEW t \in FreeSlots(s, f, SelectionMinutes(V))
    PROVE  CanTakeRange(s, t, t + SelectionMinutes(V))
<1>1. t \in Nat /\ t + SelectionMinutes(V) \in Nat
  BY MinutesType, AvailabilityAssumption DEF FreeSlots, GridStarts, Instants
<1>2. SlotFree(s, t, t + SelectionMinutes(V)) /\ f.from <= t /\ t + SelectionMinutes(V) <= f.to
  BY DEF FreeSlots, GridStarts
<1>3. \A b \in booked[s] : ~ Overlaps(b[1] - DayBuffer, b[2] + DayBuffer, t, t + SelectionMinutes(V))
  BY <1>1, <1>2, BusyType DEF SlotFree, Overlaps
<1>4. QED
  BY <1>2, <1>3 DEF SlotFree, CanTakeRange, FranjasCover

(* The ranges of a day share no start. *)
LEMMA HoursApart ==
    ASSUME WeeksInv, NEW s \in AvStaff, NEW f \in EffectiveHours(s), NEW g \in EffectiveHours(s),
           f # g
    PROVE  f.to <= g.from \/ g.to <= f.from
<1>1. week[s] \in [FranjaIds -> Rows \cup {NoFranja}] /\ RowsApart(week[s])
  BY DEF WeeksInv, AvailabilityTypeOK
<1>2. RowIds(week[s]) # {}
  BY AvailabilityAssumption DEF EffectiveHours
<1>3. PICK i \in RowIds(week[s]) :
          week[s][i].day = 0 /\ f = [id |-> i, from |-> week[s][i].from, to |-> week[s][i].to]
  BY <1>2 DEF EffectiveHours
<1>4. PICK j \in RowIds(week[s]) :
          week[s][j].day = 0 /\ g = [id |-> j, from |-> week[s][j].from, to |-> week[s][j].to]
  BY <1>2 DEF EffectiveHours
<1>5. i # j
  BY <1>3, <1>4
<1>6. ~ Overlaps(f.from, f.to, g.from, g.to)
  BY <1>1, <1>3, <1>4, <1>5 DEF RowsApart
<1>7. QED
  BY <1>6, HoursType DEF Overlaps

(* A multiple of the step. *)
LEMMA Multiple ==
    ASSUME NEW q \in Int PROVE (SlotStep * q) % SlotStep = 0
BY AvailabilityAssumption

(* _first_grid_start is the first start of the grid at or after an instant. *)
LEMMA GridStartIs ==
    ASSUME NEW origin \in Nat, NEW instant \in Int
    PROVE  LET first == FirstGridStart(origin, instant) IN
           /\ first \in Nat /\ origin <= first /\ instant <= first
           /\ (first - origin) % SlotStep = 0
           /\ \A t \in Nat : origin <= t /\ instant <= t /\ (t - origin) % SlotStep = 0 => first <= t
<1> DEFINE first == FirstGridStart(origin, instant)
<1>1. SlotStep \in Nat \ {0}
  BY AvailabilityAssumption
<1>2. CASE instant <= origin
  <2>1. first = origin
    BY <1>2 DEF FirstGridStart
  <2>2. 0 % SlotStep = 0
    BY <1>1
  <2>3. QED
    BY <2>1, <2>2, <1>2
<1>3. CASE ~ (instant <= origin)
  <2> DEFINE a == instant - origin + SlotStep - 1
  <2> DEFINE q == a \div SlotStep
  <2>1. first = origin + (SlotStep * q)
    BY <1>3 DEF FirstGridStart
  <2>2. a \in Int /\ q \in Int /\ a % SlotStep \in 0..(SlotStep - 1) /\ a = (SlotStep * q) + (a % SlotStep)
    BY <1>1
  <2> DEFINE m == SlotStep * q
  <2>3. m \in Int /\ instant - origin <= m /\ m <= a
    <3>1. m \in Int
      BY <1>1, <2>2
    <3> HIDE DEF m
    <3>2. a = m + (a % SlotStep)
      BY <2>2 DEF m
    <3>3. QED BY <3>1, <3>2, <2>2, <1>1
  <2>4. first = origin + m
    BY <2>1
  <2>5. (first - origin) % SlotStep = 0
    <3>1. first - origin = m
      BY <2>3, <2>4
    <3>2. (SlotStep * q) % SlotStep = 0
      BY <2>2, Multiple
    <3>3. QED BY <3>1, <3>2
  <2>6. ASSUME NEW t \in Nat, origin <= t, instant <= t, (t - origin) % SlotStep = 0
        PROVE  first <= t
    <3> DEFINE k == (t - origin) \div SlotStep
    <3>1. k \in Int /\ t - origin = SlotStep * k
      BY <1>1, <2>6
    <3>2. ASSUME k < q PROVE FALSE
      <4>1. (SlotStep * k) + SlotStep <= SlotStep * q
        BY <3>1, <3>2, <2>2, <1>1
      <4> HIDE DEF k
      <4>2. t - origin + SlotStep <= m
        BY <4>1, <3>1
      <4> HIDE DEF q, m
      <4>3. QED BY <4>2, <2>3, <2>6, <1>1
    <3>3. q <= k
      BY <3>2, <3>1, <2>2
    <3>4. SlotStep * q <= SlotStep * k
      BY <3>3, <3>1, <2>2, <1>1
    <3>5. m <= t - origin
      BY <3>1, <3>4
    <3> HIDE DEF m, first
    <3>6. QED BY <3>5, <2>3, <2>4
  <2> HIDE DEF m, first
  <2>7. first \in Nat /\ origin <= first /\ instant <= first
    BY <2>3, <2>4, <1>3
  <2>8. QED
    BY <2>5, <2>6, <2>7 DEF first
<1>4. QED
  BY <1>2, <1>3

(* The first free start of a range of hours is the first of the grid in its window: *)
(* that one would be free, too. The filter never hides it.                            *)
LEMMA FirstIsOffered ==
    ASSUME WeeksInv, NEW V \in ShortSelections, NEW s \in AvStaff, NEW f \in EffectiveHours(s),
           FreeSlots(s, f, SelectionMinutes(V)) # {}
    PROVE  OfferedSlots(s, f, SelectionMinutes(V), GapMinutes(V)) # {}
<1> DEFINE m == SelectionMinutes(V)
<1> DEFINE free == FreeSlots(s, f, m)
<1>1. m \in Nat \ {0} /\ f.from \in Nat /\ f.to \in Nat
  BY MinutesType, HoursType
<1> HIDE DEF m
<1>2. free \in SUBSET Nat
  BY AvailabilityAssumption DEF FreeSlots, GridStarts, Instants
<1>3. PICK t \in free : \A u \in free : t <= u
  <2> HIDE DEF free
  <2>1. QED BY <1>2, Least DEF free, m
<1>4. /\ t \in Instants /\ t \in Nat /\ t >= f.from /\ t + m <= f.to
      /\ (t - f.from) % SlotStep = 0 /\ SlotFree(s, t, t + m)
  BY <1>2 DEF FreeSlots, GridStarts
<1> DEFINE ends == {f.from} \cup {o[2] : o \in {p \in Obstacles(s, f) : p[2] <= t}}
<1>5. \A o \in Obstacles(s, f) : o[1] \in Int /\ o[2] \in Int
  BY BusyType, <1>1 DEF Obstacles
<1>6. ends \in SUBSET Int /\ ends # {} /\ \A x \in ends : x <= t
  BY <1>1, <1>4, <1>5
<1> DEFINE window == FreeFrom(s, f, t)
<1>7. window \in ends /\ \A x \in ends : x <= window
  <2>1. window = Max(ends)
    BY DEF FreeFrom
  <2>2. t \in Int
    BY <1>4
  <2> HIDE DEF ends, window
  <2>3. Max(ends) \in ends /\ \A x \in ends : x <= Max(ends)
    BY <2>2, <1>6, MaxBelow
  <2>4. QED BY <2>1, <2>3
<1>8. window \in Int /\ window <= t /\ f.from <= window
  <2> HIDE DEF window
  <2>1. QED BY <1>6, <1>7
<1> DEFINE first == FirstGridStart(f.from, window)
<1> HIDE DEF window
<1>9. /\ first \in Nat /\ f.from <= first /\ window <= first
      /\ (first - f.from) % SlotStep = 0 /\ first <= t
  BY <1>1, <1>4, <1>8, GridStartIs
<1> HIDE DEF first
<1>10. \A o \in Obstacles(s, f) : o[2] <= t => o[2] <= first
  <2> SUFFICES ASSUME NEW o \in Obstacles(s, f), o[2] <= t PROVE o[2] <= first
    OBVIOUS
  <2>1. o[2] \in ends
    OBVIOUS
  <2> HIDE DEF ends
  <2>2. o[2] <= window
    BY <2>1, <1>7
  <2>3. QED BY <2>2, <1>5, <1>8, <1>9
<1>11. SlotFree(s, first, first + m)
  <2>1. ASSUME NEW b \in booked[s] PROVE first + m <= b[1] - DayBuffer \/ first >= b[2] + DayBuffer
    <3>1. t + m <= b[1] - DayBuffer \/ t >= b[2] + DayBuffer
      BY <1>4 DEF SlotFree
    <3>2. <<b[1] - DayBuffer, b[2] + DayBuffer>> \in Obstacles(s, f)
      BY DEF Obstacles
    <3>3. b[2] + DayBuffer <= t => b[2] + DayBuffer <= first
      BY <3>2, <1>10
    <3>4. QED
      BY <3>1, <3>3, <1>1, <1>4, <1>9, BusyType
  <2>2. ASSUME NEW b \in blocked[s] PROVE ~ Overlaps(b[1], b[2], first, first + m)
    <3>1. ~ Overlaps(b[1], b[2], t, t + m)
      BY <1>4 DEF SlotFree
    <3>2. b[2] <= t => b[2] <= first
      BY <1>10 DEF Obstacles
    <3>3. QED
      BY <3>1, <3>2, <1>1, <1>4, <1>9, BusyType DEF Overlaps
  <2>3. first >= MinBookable
    <3>1. t >= MinBookable
      BY <1>4 DEF SlotFree
    <3>2. CASE MinBookable > f.from
      <4>1. <<f.from, MinBookable>> \in Obstacles(s, f)
        BY <3>2 DEF Obstacles
      <4>2. QED BY <4>1, <3>1, <1>4, <1>10, BusyType
    <3>3. CASE ~ (MinBookable > f.from)
      BY <3>3, <1>1, <1>9, BusyType
    <3>4. QED BY <3>2, <3>3
  <2>4. QED
    BY <2>1, <2>2, <2>3 DEF SlotFree
<1>12. first \in free
  <2>1. first \in Instants
    BY <1>4, <1>9, AvailabilityAssumption DEF Instants
  <2>2. first + m <= f.to
    BY <1>1, <1>4, <1>9
  <2>3. QED
    BY <2>1, <2>2, <1>9, <1>11 DEF FreeSlots, GridStarts
<1>13. t = first
  <2> HIDE DEF free
  <2>1. QED BY <1>12, <1>3, <1>4, <1>9
<1>14. ~ LeavesUnsellableGap(s, f, t, m, GapMinutes(V))
  BY <1>13 DEF LeavesUnsellableGap, first, window
<1>15. QED
  BY <1>3, <1>14 DEF OfferedSlots, m

(* OfferIsHonest, from weeks whose ranges are apart. *)
LEMMA OffersAreHonest == WeeksInv => OfferIsHonest
<1> SUFFICES ASSUME WeeksInv PROVE OfferIsHonest
  OBVIOUS
<1>1. OfferedIsAccepted
  BY FreeIsAccepted DEF OfferedIsAccepted, OfferedSlots, CommonStaff
<1>2. OfferedOnce
  <2> SUFFICES ASSUME NEW V \in ShortSelections, NEW s \in CommonStaff(V),
                      NEW f \in EffectiveHours(s), NEW g \in EffectiveHours(s), f # g,
                      NEW t \in OfferedSlots(s, f, SelectionMinutes(V), GapMinutes(V)),
                      t \in OfferedSlots(s, g, SelectionMinutes(V), GapMinutes(V))
               PROVE  FALSE
    BY DEF OfferedOnce
  <2>1. s \in AvStaff
    BY DEF CommonStaff
  <2>2. /\ t \in Nat /\ f.from <= t /\ t + SelectionMinutes(V) <= f.to
        /\ g.from <= t /\ t + SelectionMinutes(V) <= g.to
    BY AvailabilityAssumption DEF OfferedSlots, FreeSlots, GridStarts, Instants
  <2>3. QED
    BY <2>1, <2>2, HoursApart, HoursType, MinutesType
<1>3. FilterLeavesSome
  BY FirstIsOffered DEF FilterLeavesSome, CommonStaff
<1>4. QED
  BY <1>1, <1>2, <1>3 DEF OfferIsHonest

(* What the portal offers can be booked, is offered once, and something of what is   *)
(* free is always offered, whatever edits of the weeks cross.                           *)
THEOREM OffersStayHonest == AvailabilitySpec => [](AvailabilityTypeOK /\ OfferIsHonest)
<1>1. AvailabilityInit => WeeksInv
  BY InitWeeksInv
<1>2. WeeksInv /\ [AvailabilityNext]_availVars => WeeksInv'
  BY NextWeeksInv
<1>3. WeeksInv => AvailabilityTypeOK /\ OfferIsHonest
  BY OffersAreHonest DEF WeeksInv
<1>4. QED
  BY <1>1, <1>2, <1>3, PTL DEF AvailabilitySpec

-----------------------------------------------------------------------------
(* The deposit: the invariant of a visit. *)

(* The services keep their rows; what an edit changes is not their price. *)
ServicesFit ==
    /\ services \in Seq(ServiceRow) /\ Len(services) > 0
    /\ \A i \in 1..Len(services) : services[i].type = "percent" => services[i].amount <= 100

(* The store, its surcharges, its promotion and its add-on, as the tables admit. *)
StoreFits ==
    /\ store \in [whatsapp : BOOLEAN, payments : BOOLEAN, manual : BOOLEAN, usable : BOOLEAN]
    /\ {rules.farDays, rules.farExtra, rules.newExtra, rules.absentExtra} \subseteq Nat
    /\ {promo.percent, promo.minimum} \subseteq Nat
    /\ addon.id \in Nat \ {0} /\ addon.price \in Nat

(* The visit, with the add-on the client saw: as it is, or under an id that is gone. *)
VisitFields == {"at", "ask", "chosen", "seen", "shown", "steady", "price", "deposit",
                "outcome", "charged", "hold", "link", "raced"}
VisitFits ==
    /\ DOMAIN visit = VisitFields
    /\ visit.at \in {"shown", "resolved", "written", "booked", "rejected"}
    /\ visit.ask \in ClientAsks
    /\ visit.chosen \in Nat /\ visit.chosen <= addon.id /\ visit.seen \in Nat
    /\ visit.chosen = 0 => visit.seen = 0
    /\ visit.chosen = addon.id => visit.seen = addon.price
    /\ visit.shown.verified \in BOOLEAN
    /\ visit.shown.verified => visit.ask.verified
    /\ visit.at = "shown" => visit.link = 0 /\ ~ visit.raced

(* As long as nothing changed, what was shown is what would be shown now. *)
ShownIsCurrent ==
    /\ visit.chosen \in {0, addon.id}
    /\ visit.shown = Shown(visit.ask, visit.chosen, visit.shown.verified)

(* What is resolved can be paid, in its price and in time. *)
SeenPrice == ListPrice(services) + visit.seen
ResolvedFits ==
    /\ visit.outcome \in Channels
    /\ visit.price \in Nat
    /\ ~ visit.ask.promo => visit.price = SeenPrice
    /\ visit.deposit \in 0..visit.price
    /\ visit.at = "resolved" /\ visit.ask.promo /\ ~ visit.raced => visit.price = Discounted(promo, SeenPrice)
    /\ visit.at # "resolved" /\ ~ visit.raced => visit.charged <= visit.price
    /\ visit.at # "resolved" /\ visit.outcome # "none" => visit.hold \in 1..visit.ask.wait
    /\ visit.link # 0 => visit.link <= visit.price

(* And is what was shown, as long as nothing changed. *)
ResolvedAsShown ==
    LET sh == visit.shown IN
    /\ ~ visit.raced
    /\ sh.blocked # "bookable" => visit.outcome = "mercadopago" /\ ~ store.usable
    /\ sh.mandatory => visit.outcome \in {"mercadopago", "none"}
    /\ sh.closed => visit.deposit = 0
    /\ visit.deposit >= sh.amount
    /\ sh.verified = visit.ask.verified => visit.deposit = sh.amount
    /\ visit.at = "resolved" /\ visit.ask.promo =>
          visit.deposit = DecideSelection(services, visit.price, visit.ask.wait,
                                          HistoryOf(visit.ask, visit.ask.verified))
    /\ visit.at = "written" /\ visit.outcome # "none" => visit.charged = visit.deposit

(* The visit at each of its stages. *)
VisitInv ==
    visit = NoVisit \/
      /\ VisitFits
      /\ visit.at = "shown" /\ visit.steady => ShownIsCurrent
      /\ visit.at \in {"resolved", "written", "booked"} => ResolvedFits
      /\ visit.at \in {"resolved", "written"} /\ visit.steady => ResolvedAsShown
      /\ ShownIsCharged

(* The inductive invariant of the deposits. *)
DepositInv == ServicesFit /\ StoreFits /\ VisitInv

(* ROUND_HALF_UP of a percentage: it grows with the percentage, and never passes *)
(* the amount while the percentage does not pass 100.                              *)
LEMMA PercentIs ==
    ASSUME NEW a \in Nat, NEW p \in Nat
    PROVE  /\ PercentOf(a, p) \in Nat
           /\ p <= 100 => PercentOf(a, p) <= a
           /\ \A q \in Nat : p <= q => PercentOf(a, p) <= PercentOf(a, q)
<1>1. a * p \in Nat
  OBVIOUS
<1>2. PercentOf(a, p) \in Nat
  BY <1>1 DEF PercentOf
<1>3. ASSUME p <= 100 PROVE PercentOf(a, p) <= a
  <2>1. a * p <= a * 100
    BY <1>3
  <2> DEFINE b == a * p
  <2> HIDE DEF b
  <2>2. (b + 50) \div 100 <= a
    BY <2>1, <1>1 DEF b
  <2>3. QED BY <2>2 DEF PercentOf, b
<1>4. ASSUME NEW q \in Nat, p <= q PROVE PercentOf(a, p) <= PercentOf(a, q)
  <2>1. a * q \in Nat /\ a * p <= a * q
    BY <1>4
  <2> DEFINE b == a * p
  <2> DEFINE c == a * q
  <2> HIDE DEF b, c
  <2>2. (b + 50) \div 100 <= (c + 50) \div 100
    BY <2>1, <1>1 DEF b, c
  <2>3. QED BY <2>2 DEF PercentOf, b, c
<1>5. QED BY <1>2, <1>3, <1>4

(* A row of the choice, field by field. *)
LEMMA ServiceFits ==
    ASSUME ServicesFit, NEW i \in DOMAIN services
    PROVE  /\ services[i].mode \in Modes
           /\ services[i].type \in {"full", "fixed", "percent"}
           /\ services[i].amount \in Nat /\ services[i].price \in Nat
           /\ services[i].type = "percent" => services[i].amount <= 100
<1>1. i \in 1..Len(services) /\ services[i] \in ServiceRow
  BY DEF ServicesFit
<1>2. QED
  BY <1>1 DEF ServicesFit, ServiceRow

(* The price of the services does not change with the mode or the state of one.    *)
LEMMA ListPriceType ==
    ASSUME ServicesFit PROVE ListPrice(services) \in Nat
<1> DEFINE f == [i \in DOMAIN services |-> services[i].price]
<1>1. IsFiniteSet(DOMAIN f)
  BY FS_Interval DEF ServicesFit
<1>2. \A i \in DOMAIN f : f[i] \in Nat
  BY ServiceFits
<1> HIDE DEF f
<1>3. SumFunctionOnSet(f, DOMAIN f) \in Nat
  BY <1>1, <1>2, SumType
<1>4. QED
  BY <1>3 DEF ListPrice, SumFunction, f

(* An edit of the mode or the state of a service. *)
LEMMA RowChanged ==
    ASSUME ServicesFit, NEW i \in DOMAIN services, NEW row \in ServiceRow,
           row.type = services[i].type, row.amount = services[i].amount, row.price = services[i].price,
           services' = [services EXCEPT ![i] = row]
    PROVE  ServicesFit' /\ ListPrice(services') = ListPrice(services)
<1>1. services' \in Seq(ServiceRow) /\ Len(services') = Len(services) /\ DOMAIN services' = DOMAIN services
  BY DEF ServicesFit
<1>2. \A k \in DOMAIN services : /\ services'[k].price = services[k].price
                                 /\ services'[k].type = services[k].type
                                 /\ services'[k].amount = services[k].amount
  BY DEF ServicesFit
<1>3. [k \in DOMAIN services' |-> services'[k].price] = [k \in DOMAIN services |-> services[k].price]
  BY <1>1, <1>2
<1>4. ListPrice(services') = ListPrice(services)
  BY <1>3 DEF ListPrice
<1>5. DOMAIN services = 1..Len(services)
  BY DEF ServicesFit
<1>6. QED
  BY <1>1, <1>2, <1>4, <1>5 DEF ServicesFit

(* decide_deposit stays within the price, is zero with its base, and only grows with *)
(* what is known of the client.                                                        *)
LEMMA DepositOf ==
    ASSUME ServicesFit, StoreFits, NEW i \in DOMAIN services, NEW price \in Nat, NEW wait, NEW history
    PROVE  LET known == DecideDeposit(services[i], price, wait, history)
               unknown == DecideDeposit(services[i], price, wait, "unknown")
           IN  /\ known \in 0..price /\ unknown \in 0..price
               /\ unknown <= known
               /\ unknown = 0 <=> known = 0
<1> DEFINE base == BaseDeposit(services[i], price)
<1>1. base \in 0..price
  BY ServiceFits, PercentIs DEF BaseDeposit, AtMost
<1>2. /\ ExtraPercent(wait, history) \in Nat /\ ExtraPercent(wait, "unknown") \in Nat
      /\ ExtraPercent(wait, "unknown") <= ExtraPercent(wait, history)
  BY DEF ExtraPercent, StoreFits
<1> DEFINE e == ExtraPercent(wait, history)
<1> DEFINE u == ExtraPercent(wait, "unknown")
<1>3. /\ PercentOf(price, e) \in Nat /\ PercentOf(price, u) \in Nat
      /\ PercentOf(price, u) <= PercentOf(price, e)
  BY <1>2, PercentIs
<1> HIDE DEF base, e, u
<1>4. /\ DecideDeposit(services[i], price, wait, history) =
            IF base <= 0 THEN 0 ELSE IF e <= 0 THEN base ELSE AtMost(price, base + PercentOf(price, e))
      /\ DecideDeposit(services[i], price, wait, "unknown") =
            IF base <= 0 THEN 0 ELSE IF u <= 0 THEN base ELSE AtMost(price, base + PercentOf(price, u))
  BY <1>1, <1>2 DEF DecideDeposit, base, e, u
<1>5. QED
  BY <1>1, <1>2, <1>3, <1>4 DEF AtMost, e, u

(* decide_selection_deposit is one of them, the highest. *)
LEMMA SelectionIs ==
    ASSUME ServicesFit, StoreFits, NEW price \in Nat, NEW wait, NEW history
    PROVE  LET d == DecideSelection(services, price, wait, history)
               charging == {k \in DOMAIN services : services[k].mode # "none"}
           IN  /\ d \in 0..price
               /\ \A i \in charging : DecideDeposit(services[i], price, wait, history) <= d
               /\ d = 0 \/ \E i \in charging : d = DecideDeposit(services[i], price, wait, history)
<1> DEFINE charging == {k \in DOMAIN services : services[k].mode # "none"}
<1> DEFINE S == {0} \union {DecideDeposit(services[i], price, wait, history) : i \in charging}
<1>1. \A i \in charging : DecideDeposit(services[i], price, wait, history) \in 0..price
  BY DepositOf
<1>2. S \in SUBSET Int /\ S # {} /\ \A x \in S : x <= price
  BY <1>1
<1>3. Max(S) \in S /\ \A x \in S : x <= Max(S)
  <2> HIDE DEF S
  <2>1. QED BY <1>2, MaxBelow
<1>4. DecideSelection(services, price, wait, history) = Max(S)
  BY DEF DecideSelection
<1>5. \A x \in S : x \in 0..price
  BY <1>1
<1> DEFINE m == Max(S)
<1>6. m \in S /\ (\A x \in S : x <= m) /\ DecideSelection(services, price, wait, history) = m
  BY <1>3, <1>4
<1> HIDE DEF m
<1>7. QED
  BY <1>5, <1>6

(* So does the deposit of the whole choice. *)
LEMMA SelectionGrows ==
    ASSUME ServicesFit, StoreFits, NEW price \in Nat, NEW wait, NEW history
    PROVE  LET known == DecideSelection(services, price, wait, history)
               unknown == DecideSelection(services, price, wait, "unknown")
           IN  unknown <= known /\ (unknown = 0 <=> known = 0)
<1> DEFINE known == DecideSelection(services, price, wait, history)
<1> DEFINE unknown == DecideSelection(services, price, wait, "unknown")
<1> DEFINE charging == {k \in DOMAIN services : services[k].mode # "none"}
<1> DEFINE K(i) == DecideDeposit(services[i], price, wait, history)
<1> DEFINE U(i) == DecideDeposit(services[i], price, wait, "unknown")
<1>1. /\ known \in 0..price /\ \A i \in charging : K(i) <= known
      /\ known = 0 \/ \E i \in charging : known = K(i)
  BY SelectionIs
<1>2. /\ unknown \in 0..price /\ \A i \in charging : U(i) <= unknown
      /\ unknown = 0 \/ \E i \in charging : unknown = U(i)
  BY SelectionIs
<1>3. \A i \in charging : /\ K(i) \in 0..price /\ U(i) \in 0..price /\ U(i) <= K(i)
                          /\ U(i) = 0 <=> K(i) = 0
  BY DepositOf
<1> HIDE DEF known, unknown, charging, K, U
<1>4. unknown <= known /\ (unknown = 0 <=> known = 0)
  BY <1>1, <1>2, <1>3
<1>5. QED
  BY <1>4 DEF known, unknown

(* The channels. Only whether there is a deposit matters of its amount. *)
LEMMA SameChannel ==
    ASSUME NEW method, NEW ch, NEW mode, NEW far, NEW a \in Nat, NEW b \in Nat, a = 0 <=> b = 0
    PROVE  /\ ResolveChannel(method, ch, a, mode, far) = ResolveChannel(method, ch, b, mode, far)
           /\ BlockedCode(ch, a, mode, far) = BlockedCode(ch, b, mode, far)
           /\ OnlineMandatory(ch, a, mode, far) = OnlineMandatory(ch, b, mode, far)
<1>1. (a > 0 <=> b > 0) /\ (a <= 0 <=> b <= 0)
  OBVIOUS
<1>2. \A m : ResolveChannel(m, ch, a, mode, far) = ResolveChannel(m, ch, b, mode, far)
  BY <1>1 DEF ResolveChannel, FarRuleApplies, ExplicitMercadopago
<1>3. OnlineMandatory(ch, a, mode, far) = OnlineMandatory(ch, b, mode, far)
  BY <1>1 DEF OnlineMandatory
<1>4. QED
  BY <1>2, <1>3 DEF BlockedCode

(* What the preview says of a booking, whatever method the client asks for. *)
Tells(method, amount, mode, far, listed) ==
    LET ch == DepositChannelsFor(mode)
        got == ResolveChannel(method, ch, amount, mode, far)
        code == BlockedCode(ch, amount, mode, far)
    IN  /\ got \in BlockedCodes => code = got
        /\ code # "bookable" /\ got \in Channels => got = "mercadopago" /\ ~ store.usable
        /\ OnlineMandatory(ch, amount, mode, far) /\ got \in Channels => got \in {"mercadopago", "none"}
        /\ method = "manual" /\ got = "invalid method" => OnlineMandatory(ch, amount, mode, far)
        /\ mode = "required" /\ far /\ amount # 0
           /\ BlockedCode(DepositChannelsOf(store), listed, "required", TRUE) = "FAR_BOOKING_UNAVAILABLE"
           => got \notin Channels
LEMMA PreviewTells ==
    ASSUME StoreFits, NEW method, NEW amount \in Nat, NEW mode, NEW far \in BOOLEAN, NEW listed \in Nat
    PROVE  Tells(method, amount, mode, far, listed)
<1> DEFINE ch == DepositChannelsFor(mode)
<1> DEFINE got == ResolveChannel(method, ch, amount, mode, far)
<1> DEFINE auto == ResolveChannel("auto", ch, amount, mode, far)
<1>0. amount > 0 <=> ~ (amount <= 0)
  OBVIOUS
<1>1. /\ store.whatsapp \in BOOLEAN /\ store.payments \in BOOLEAN
      /\ store.manual \in BOOLEAN /\ store.usable \in BOOLEAN
  BY DEF StoreFits
<1>2. /\ ch.mercadopago <=> mode = "required" /\ store.payments /\ store.usable
      /\ ch.whatsapp <=> mode = "required" /\ store.whatsapp
      /\ ch.payments <=> store.payments
  BY <1>1 DEF DepositChannelsFor, DepositChannelsOf
<1> HIDE DEF ch
<1> DEFINE distant == far /\ mode = "required" /\ amount > 0
<1>3. CASE distant /\ ~ ch.mercadopago
  <2>1. got = "FAR_BOOKING_UNAVAILABLE" /\ auto = "FAR_BOOKING_UNAVAILABLE"
    BY <1>3 DEF ResolveChannel, FarRuleApplies
  <2>2. QED
    BY <2>1, <1>3 DEF Tells, BlockedCode, BlockedCodes, Channels, ch
<1>4. CASE ~ (distant /\ ~ ch.mercadopago)
  <2>1. mode = "required" /\ far /\ amount # 0 =>
          BlockedCode(DepositChannelsOf(store), listed, "required", TRUE) # "FAR_BOOKING_UNAVAILABLE"
    <3> SUFFICES ASSUME mode = "required", far, amount # 0
                 PROVE  BlockedCode(DepositChannelsOf(store), listed, "required", TRUE)
                          # "FAR_BOOKING_UNAVAILABLE"
      OBVIOUS
    <3>1. DepositChannelsOf(store) = ch /\ ch.mercadopago
      BY <1>4 DEF ch, DepositChannelsFor
    <3>2. ResolveChannel("auto", ch, listed, "required", TRUE) # "FAR_BOOKING_UNAVAILABLE"
      BY <3>1 DEF ResolveChannel, FarRuleApplies, RequiredChannel
    <3>3. QED BY <3>1, <3>2 DEF BlockedCode, BlockedCodes
  <2>2. auto = IF amount <= 0 THEN "none"
               ELSE IF mode # "required" THEN IF ch.payments THEN "mercadopago" ELSE "none"
               ELSE IF distant THEN "mercadopago"
               ELSE RequiredChannel("auto", ch)
    BY <1>4 DEF ResolveChannel, FarRuleApplies
  <2>3. got = IF method = "mercadopago" THEN ExplicitMercadopago(ch, amount)
              ELSE IF amount <= 0 THEN "none"
              ELSE IF mode # "required" THEN IF method = "auto" /\ ch.payments THEN "mercadopago" ELSE "none"
              ELSE IF distant THEN IF method = "manual" THEN "FAR_BOOKING_REQUIRES_MERCADOPAGO" ELSE "mercadopago"
              ELSE RequiredChannel(method, ch)
    BY <1>4 DEF ResolveChannel, FarRuleApplies
  <2>4. BlockedCode(ch, amount, mode, far) = IF auto \in BlockedCodes THEN auto ELSE "bookable"
    BY DEF BlockedCode
  <2> DEFINE code == BlockedCode(ch, amount, mode, far)
  <2> HIDE DEF got, auto, code
  <2>5. /\ WhatsappUsable(ch) \in BOOLEAN
        /\ WhatsappUsable(ch) => store.whatsapp
        /\ ~ ch.mercadopago => (WhatsappUsable(ch) <=> ch.whatsapp)
    BY <1>1, <1>2 DEF WhatsappUsable
  <2> DEFINE wa == WhatsappUsable(ch)
  <2> HIDE DEF wa
  <2>6. /\ RequiredChannel("auto", ch) = IF ch.mercadopago THEN "mercadopago"
                                         ELSE IF wa THEN "whatsapp" ELSE "DEPOSIT_CHANNEL_UNAVAILABLE"
        /\ RequiredChannel(method, ch) = IF method = "manual"
                                         THEN IF wa THEN "whatsapp"
                                              ELSE IF ch.mercadopago THEN "invalid method"
                                              ELSE "DEPOSIT_CHANNEL_UNAVAILABLE"
                                         ELSE RequiredChannel("auto", ch)
    BY <1>1, <1>2, <2>5 DEF RequiredChannel, wa
  <2>7. got \in BlockedCodes => code = got
    BY <1>1, <1>2, <1>4, <2>2, <2>3, <2>4, <2>6 DEF ExplicitMercadopago, BlockedCodes, code
  <2>8. code # "bookable" /\ got \in Channels => got = "mercadopago" /\ ~ store.usable
    BY <1>1, <1>2, <1>4, <2>2, <2>3, <2>4, <2>6 DEF ExplicitMercadopago, BlockedCodes, Channels, code
  <2>9. OnlineMandatory(ch, amount, mode, far) /\ got \in Channels => got \in {"mercadopago", "none"}
    BY <1>1, <1>2, <1>4, <2>3, <2>6 DEF ExplicitMercadopago, Channels, OnlineMandatory, wa
  <2>10. method = "manual" /\ got = "invalid method" => OnlineMandatory(ch, amount, mode, far)
    <3> SUFFICES ASSUME method = "manual", got = "invalid method"
                 PROVE  OnlineMandatory(ch, amount, mode, far)
      OBVIOUS
    <3>1. amount > 0
      BY <1>0, <2>3
    <3>4. mode = "required"
      BY <1>2, <2>3 DEF ExplicitMercadopago
    <3>5. ~ distant
      BY <1>2, <2>3 DEF ExplicitMercadopago
    <3>6. got = RequiredChannel(method, ch)
      BY <1>2, <2>3, <3>1, <3>4, <3>5 DEF ExplicitMercadopago
    <3>2. ~ wa /\ ch.mercadopago
      BY <3>6, <2>6
    <3>3. QED BY <3>1, <3>4, <3>2 DEF OnlineMandatory, wa
  <2>11. QED
    BY <2>1, <2>7, <2>8, <2>9, <2>10 DEF Tells, got, code, ch
<1>5. QED
  BY <1>3, <1>4

-----------------------------------------------------------------------------
(* What the portal computes changes only with what the panel edits. *)
LEMMA SameSelection ==
    ASSUME rules' = rules, NEW q, NEW price, NEW wait, NEW history
    PROVE  DecideSelection(q, price, wait, history)' = DecideSelection(q, price, wait, history)
<1>1. ExtraPercent(wait, history)' = ExtraPercent(wait, history)
  BY DEF ExtraPercent, FarNotice
<1>2. \A s : DecideDeposit(s, price, wait, history)' = DecideDeposit(s, price, wait, history)
  BY <1>1 DEF DecideDeposit
<1>3. QED
  BY <1>2 DEF DecideSelection

(* Nor do the channels, while the store stays as it is. *)
LEMMA SameChannels ==
    ASSUME store' = store, NEW mode, NEW amount, NEW far, NEW method, NEW ch
    PROVE  /\ DepositChannelsFor(mode)' = DepositChannelsFor(mode)
           /\ ResolveChannel(method, ch, amount, mode, far)' = ResolveChannel(method, ch, amount, mode, far)
           /\ BlockedCode(ch, amount, mode, far)' = BlockedCode(ch, amount, mode, far)
           /\ OnlineMandatory(ch, amount, mode, far)' = OnlineMandatory(ch, amount, mode, far)
<1>1. DepositChannelsFor(mode)' = DepositChannelsFor(mode)
  BY DEF DepositChannelsFor, DepositChannelsOf
<1>2. WhatsappUsable(ch)' = WhatsappUsable(ch)
  BY DEF WhatsappUsable
<1>3. \A m : RequiredChannel(m, ch)' = RequiredChannel(m, ch)
  BY <1>2 DEF RequiredChannel
<1>4. \A m, f : ResolveChannel(m, ch, amount, mode, f)' = ResolveChannel(m, ch, amount, mode, f)
  BY <1>3 DEF ResolveChannel, ExplicitMercadopago
<1>5. OnlineMandatory(ch, amount, mode, far)' = OnlineMandatory(ch, amount, mode, far)
  BY <1>2 DEF OnlineMandatory
<1>6. QED
  BY <1>1, <1>4, <1>5 DEF BlockedCode

(* Nor does the preview. *)
LEMMA SameShown ==
    ASSUME UNCHANGED <<store, services, rules, promo, addon>>,
           NEW ask, NEW chosen, NEW verified
    PROVE  Shown(ask, chosen, verified)' = Shown(ask, chosen, verified)
<1> DEFINE gross == GrossTotal(chosen)
<1> DEFINE final == IF ask.promo /\ Discounted(promo, gross) >= 0 THEN Discounted(promo, gross) ELSE gross
<1> DEFINE mode == SelectionMode(services)
<1> DEFINE amount == DecideSelection(services, final, ask.wait, HistoryOf(ask, verified))
<1> DEFINE far == IsFarBooking(ask.wait)
<1> DEFINE ch == DepositChannelsFor(mode)
<1>1. gross' = gross
  BY DEF GrossTotal, AddonsTotal
<1>2. final' = final /\ mode' = mode /\ far' = far
  <2>1. Discounted(promo, gross)' = Discounted(promo, gross)
    BY <1>1 DEF Discounted
  <2>2. SelectionMode(services)' = SelectionMode(services)
    OBVIOUS
  <2>3. QED
    BY <1>1, <2>1, <2>2
<1>3. amount' = amount
  BY <1>2, SameSelection
<1>4. ch' = ch
  BY <1>2, SameChannels
<1>5. BlockedCode(ch, amount, mode, far)' = BlockedCode(ch, amount, mode, far)
  BY <1>2, <1>3, <1>4, SameChannels
<1>6. OnlineMandatory(ch, amount, mode, far)' = OnlineMandatory(ch, amount, mode, far)
  BY <1>2, <1>3, <1>4, SameChannels
<1> DEFINE listed == DecideSelection(services, ListPrice(services), ask.wait, "unknown")
<1> DEFINE open == DepositChannelsOf(store)
<1>7. listed' = listed /\ open' = open
  <2>1. listed' = listed
    BY SameSelection
  <2>2. open' = open
    BY DEF DepositChannelsOf
  <2>3. QED
    BY <2>1, <2>2
<1>9. BlockedCode(open, listed, "required", TRUE)' = BlockedCode(open, listed, "required", TRUE)
  <2>1. \A c, a : BlockedCode(c, a, "required", TRUE)' = BlockedCode(c, a, "required", TRUE)
    BY SameChannels
  <2> HIDE DEF open, listed
  <2>2. QED
    BY <1>7, <2>1
<1>10. GridClosed(services, ask.wait)' = GridClosed(services, ask.wait)
  BY <1>9 DEF GridClosed
<1>8. QED
  BY <1>3, <1>5, <1>6, <1>10 DEF Shown

(* All of it together: what a step of the client finds unchanged. *)
LEMMA SameShop ==
    ASSUME UNCHANGED <<store, services, rules, promo, addon>>
    PROVE  /\ ServicesFit => ServicesFit'
           /\ StoreFits => StoreFits'
           /\ ListPrice(services)' = ListPrice(services)
           /\ \A ask, chosen, verified : Shown(ask, chosen, verified)' = Shown(ask, chosen, verified)
           /\ \A price, wait, history :
                 DecideSelection(services, price, wait, history)' = DecideSelection(services, price, wait, history)
<1>1. /\ ServicesFit => ServicesFit'
      /\ StoreFits => StoreFits'
      /\ ListPrice(services)' = ListPrice(services)
  BY DEF ServicesFit, StoreFits
<1>2. \A ask, chosen, verified : Shown(ask, chosen, verified)' = Shown(ask, chosen, verified)
  BY SameShown
<1>3. \A q, price, wait, history :
         DecideSelection(q, price, wait, history)' = DecideSelection(q, price, wait, history)
  BY SameSelection
<1>4. QED
  BY <1>1, <1>2, <1>3

(* Discounted leaves a price within the total, or says that the code does not apply.  *)
LEMMA DiscountedIs ==
    ASSUME StoreFits, NEW total \in Nat
    PROVE  Discounted(promo, total) = -1 \/ Discounted(promo, total) \in 0..total
<1>1. PercentOf(total, promo.percent) \in Nat
  BY PercentIs DEF StoreFits
<1>2. QED
  BY <1>1 DEF Discounted, AtMost

(* What the booking would do with what is shown, both asked at the same time: the  *)
(* contact may only have been verified in between.                                     *)
Foretells(ask, chosen, verified, final) ==
    LET sh == Shown(ask, chosen, verified)
        mode == SelectionMode(services)
        amount == DecideSelection(services, final, ask.wait, HistoryOf(ask, ask.verified))
        got == ResolveChannel(ask.method, DepositChannelsFor(mode), amount, mode, IsFarBooking(ask.wait))
    IN  /\ sh.amount \in 0..amount
        /\ verified = ask.verified => sh.amount = amount
        /\ got \in BlockedCodes => sh.blocked = got
        /\ sh.blocked # "bookable" /\ got \in Channels => got = "mercadopago" /\ ~ store.usable
        /\ sh.mandatory /\ got \in Channels => got \in {"mercadopago", "none"}
        /\ ask.method = "manual" /\ got = "invalid method" => sh.mandatory
        /\ sh.closed /\ got \in Channels => amount = 0
LEMMA ShownTells ==
    ASSUME ServicesFit, StoreFits, NEW ask \in ClientAsks, NEW chosen,
           NEW verified \in BOOLEAN, verified => ask.verified,
           NEW final \in Nat, GrossTotal(chosen) \in Nat,
           final = IF ask.promo THEN Discounted(promo, GrossTotal(chosen)) ELSE GrossTotal(chosen)
    PROVE  Foretells(ask, chosen, verified, final)
<1> DEFINE sh == Shown(ask, chosen, verified)
<1> DEFINE mode == SelectionMode(services)
<1> DEFINE far == IsFarBooking(ask.wait)
<1> DEFINE ch == DepositChannelsFor(mode)
<1> DEFINE amount == DecideSelection(services, final, ask.wait, HistoryOf(ask, ask.verified))
<1> DEFINE seen == DecideSelection(services, final, ask.wait, HistoryOf(ask, verified))
<1> DEFINE listed == DecideSelection(services, ListPrice(services), ask.wait, "unknown")
<1> DEFINE got == ResolveChannel(ask.method, ch, amount, mode, far)
<1>1. /\ sh.amount = seen
      /\ sh.blocked = BlockedCode(ch, seen, mode, far)
      /\ sh.mandatory = OnlineMandatory(ch, seen, mode, far)
      /\ sh.closed = GridClosed(services, ask.wait)
  BY DEF Shown
<1>2. ask.verified \in BOOLEAN
  BY DepositInputs
<1>3. amount \in 0..final /\ seen \in 0..final /\ listed \in Nat
  BY SelectionIs, ListPriceType
<1>4. verified = ask.verified => seen = amount
  OBVIOUS
<1>5. seen <= amount /\ (seen = 0 <=> amount = 0)
  <2>1. CASE verified = ask.verified
    BY <2>1, <1>3
  <2>2. CASE verified # ask.verified
    <3>1. HistoryOf(ask, verified) = "unknown"
      BY <2>2, <1>2 DEF HistoryOf
    <3>2. QED
      BY <3>1, SelectionGrows
  <2>3. QED
    BY <2>1, <2>2
<1>6. far \in BOOLEAN
  BY DEF IsFarBooking
<1>7. GridClosed(services, ask.wait) =>
         mode = "required" /\ far /\ BlockedCode(DepositChannelsOf(store), listed, "required", TRUE)
                                        = "FAR_BOOKING_UNAVAILABLE"
  BY DEF GridClosed
<1> HIDE DEF sh, mode, far, amount, seen, listed
<1>8. /\ BlockedCode(ch, seen, mode, far) = BlockedCode(ch, amount, mode, far)
      /\ OnlineMandatory(ch, seen, mode, far) = OnlineMandatory(ch, amount, mode, far)
  BY <1>3, <1>5, SameChannel
<1>9. Tells(ask.method, amount, mode, far, listed)
  BY <1>3, <1>6, PreviewTells
<1> HIDE DEF got
<1>12. sh.amount \in 0..amount
  BY <1>1, <1>3, <1>5
<1>10. /\ sh.amount \in 0..amount
       /\ verified = ask.verified => sh.amount = amount
       /\ got \in BlockedCodes => sh.blocked = got
       /\ sh.blocked # "bookable" /\ got \in Channels => got = "mercadopago" /\ ~ store.usable
       /\ sh.mandatory /\ got \in Channels => got \in {"mercadopago", "none"}
       /\ ask.method = "manual" /\ got = "invalid method" => sh.mandatory
       /\ sh.closed /\ got \in Channels => amount = 0
  BY <1>1, <1>4, <1>5, <1>7, <1>8, <1>9, <1>12 DEF Tells, got
<1>11. QED
  BY <1>10 DEF Foretells, sh, mode, far, amount, got

-----------------------------------------------------------------------------
(* The steps of the client. *)
LEMMA InitDepositInv ==
    DepositsInit => DepositInv
<1> SUFFICES ASSUME DepositsInit PROVE DepositInv
  OBVIOUS
<1>1. Min(AddonPrices) \in Nat
  <2>1. AddonPrices \in SUBSET Nat /\ AddonPrices # {}
    BY DepositInputs
  <2>2. \E x \in AddonPrices : \A y \in AddonPrices : x <= y
    BY <2>1, Least
  <2>3. QED
    BY <2>1, <2>2 DEF Min
<1>2. ServicesFit
  BY DepositInputs DEF DepositsInit, ServicesFit
<1>3. StoreFits
  BY <1>1, DepositInputs DEF DepositsInit, StoreFits
<1>4. QED
  BY <1>2, <1>3 DEF DepositInv, VisitInv, DepositsInit

(* The preview shows what is current. *)
LEMMA PreviewInv ==
    ASSUME DepositInv, NEW ask \in ClientAsks, NEW withAddon \in BOOLEAN, NEW verified \in BOOLEAN,
           Preview(ask, withAddon, verified)
    PROVE  DepositInv'
<1>1. UNCHANGED <<store, services, rules, promo, addon>>
  BY DEF Preview
<1>2. ServicesFit' /\ StoreFits' /\ ServicesFit /\ StoreFits
  BY <1>1, SameShop DEF DepositInv
<1> DEFINE chosen == IF withAddon THEN addon.id ELSE 0
<1> DEFINE sh == Shown(ask, chosen, verified)
<1>3. sh.verified = verified
  BY DEF Shown
<1>4. Shown(ask, chosen, verified)' = sh
  <2>1. \A c : Shown(ask, c, verified)' = Shown(ask, c, verified)
    BY <1>1, SameShop
  <2>2. chosen' = chosen
    BY <1>1
  <2> HIDE DEF chosen
  <2>3. QED
    BY <2>1, <2>2
<1>5. visit' = [at |-> "shown", ask |-> ask, chosen |-> chosen, seen |-> IF withAddon THEN addon.price ELSE 0,
                shown |-> sh, steady |-> TRUE,
                price |-> 0, deposit |-> 0, outcome |-> "none", charged |-> 0, hold |-> 0, link |-> 0,
                raced |-> FALSE]
  BY DEF Preview
<1>6. verified => ask.verified
  BY DEF Preview
<1>7. addon.id \in Nat \ {0} /\ addon.price \in Nat /\ addon' = addon
  BY <1>1, <1>2 DEF StoreFits
<1>8. chosen \in {0, addon.id}
  OBVIOUS
<1> HIDE DEF sh
<1>9. VisitFits'
  BY <1>3, <1>5, <1>6, <1>7 DEF VisitFits, VisitFields
<1>10. ShownIsCurrent'
  <2>1. visit'.shown = sh /\ visit'.ask = ask /\ visit'.chosen = chosen
    BY <1>5
  <2>2. (Shown(visit.ask, visit.chosen, visit.shown.verified))' = sh
    <3>1. \A a, c, v : Shown(a, c, v)' = Shown(a, c, v)
      BY <1>1, SameShop
    <3> HIDE DEF chosen
    <3>2. QED
      BY <2>1, <1>3, <3>1 DEF sh
  <2>3. visit'.chosen \in {0, addon'.id}
    BY <1>7, <1>8, <2>1
  <2>4. QED
    BY <2>1, <2>2, <2>3 DEF ShownIsCurrent
<1>11. visit'.at = "shown"
  BY <1>5
<1>12. ShownIsCharged'
  BY <1>11 DEF ShownIsCharged
<1>13. QED
  BY <1>2, <1>9, <1>10, <1>11, <1>12 DEF DepositInv, VisitInv

(* ResolveRequest: a request the portal did not stop, by ShownTells. *)
LEMMA ResolveInv ==
    ASSUME DepositInv, ResolveRequest PROVE DepositInv'
<1> DEFINE ask == visit.ask
<1> DEFINE gross == GrossTotal(visit.chosen)
<1> DEFINE final == IF ask.promo THEN Discounted(promo, gross) ELSE gross
<1> DEFINE mode == SelectionMode(services)
<1> DEFINE amount == DecideSelection(services, final, ask.wait, HistoryOf(ask, ask.verified))
<1> DEFINE got == ResolveChannel(ask.method, DepositChannelsFor(mode), amount, mode, IsFarBooking(ask.wait))
<1> DEFINE sh == visit.shown
<1> DEFINE found == AddonsTotal(visit.chosen) >= 0
<1>1. UNCHANGED <<store, services, rules, promo, addon>> /\ visit.at = "shown"
  BY DEF ResolveRequest
<1>2. ServicesFit' /\ StoreFits' /\ ServicesFit /\ StoreFits
  BY <1>1, SameShop DEF DepositInv
<1>3. VisitFits /\ (visit.steady => ShownIsCurrent)
  BY <1>1 DEF DepositInv, VisitInv, NoVisit
<1>4. ask \in ClientAsks /\ ask.wait \in Nat /\ ask.promo \in BOOLEAN /\ ask.verified \in BOOLEAN
  BY <1>3, DepositInputs DEF VisitFits
<1>5. /\ addon.id \in Nat \ {0} /\ addon.price \in Nat
      /\ visit.chosen \in Nat /\ visit.seen \in Nat
      /\ visit.chosen = 0 => visit.seen = 0
      /\ visit.chosen = addon.id => visit.seen = addon.price
  BY <1>2, <1>3 DEF StoreFits, VisitFits
<1>6. AddonsTotal(visit.chosen) = -1 \/ AddonsTotal(visit.chosen) = visit.seen
  BY <1>5 DEF AddonsTotal
<1>7. found => gross = SeenPrice /\ gross \in Nat
  BY <1>2, <1>5, <1>6, ListPriceType DEF GrossTotal, SeenPrice
<1>8. found => final = -1 \/ final \in 0..gross
  BY <1>2, <1>4, <1>7, DiscountedIs
<1>9. DOMAIN visit = VisitFields
  BY <1>3 DEF VisitFits
<1>10. ASSUME found, final >= 0
       PROVE  /\ final \in Nat /\ amount \in 0..final
              /\ visit.steady =>
                    /\ sh.amount \in 0..amount
                    /\ sh.verified = ask.verified => sh.amount = amount
                    /\ got \in BlockedCodes => sh.blocked = got
                    /\ sh.blocked # "bookable" /\ got \in Channels => got = "mercadopago" /\ ~ store.usable
                    /\ sh.mandatory /\ got \in Channels => got \in {"mercadopago", "none"}
                    /\ ask.method = "manual" /\ got = "invalid method" => sh.mandatory
                    /\ sh.closed /\ got \in Channels => amount = 0
  <2>1. final \in Nat /\ gross \in Nat
    BY <1>7, <1>8, <1>10
  <2>2. amount \in 0..final
    <3> HIDE DEF final, ask
    <3>1. QED BY <1>2, <2>1, SelectionIs
  <2>3. ASSUME visit.steady
        PROVE  /\ sh.amount \in 0..amount
               /\ sh.verified = ask.verified => sh.amount = amount
               /\ got \in BlockedCodes => sh.blocked = got
               /\ sh.blocked # "bookable" /\ got \in Channels => got = "mercadopago" /\ ~ store.usable
               /\ sh.mandatory /\ got \in Channels => got \in {"mercadopago", "none"}
               /\ ask.method = "manual" /\ got = "invalid method" => sh.mandatory
               /\ sh.closed /\ got \in Channels => amount = 0
    <3>1. sh = Shown(ask, visit.chosen, sh.verified)
      BY <1>3, <2>3 DEF ShownIsCurrent
    <3>2. sh.verified \in BOOLEAN /\ (sh.verified => ask.verified)
      BY <1>3 DEF VisitFits
    <3> DEFINE chosen == visit.chosen
    <3> DEFINE verified == sh.verified
    <3>3. final = IF ask.promo THEN Discounted(promo, GrossTotal(chosen)) ELSE GrossTotal(chosen)
      OBVIOUS
    <3>4. GrossTotal(chosen) \in Nat
      BY <2>1
    <3> HIDE DEF ask, final, chosen, verified
    <3>5. Foretells(ask, chosen, verified, final)
      BY <1>2, <1>4, <2>1, <3>2, <3>3, <3>4, ShownTells DEF verified
    <3>6. Shown(ask, chosen, verified) = sh
      BY <3>1 DEF chosen, verified
    <3>7. QED
      BY <3>5, <3>6 DEF Foretells, verified
  <2>4. QED
    BY <2>1, <2>2, <2>3
<1>11. visit' = CASE AddonsTotal(visit.chosen) < 0 -> Rejected(visit, "ADDON_UNAVAILABLE")
                  [] AddonsTotal(visit.chosen) >= 0 /\ final < 0 -> Rejected(visit, "promotion")
                  [] AddonsTotal(visit.chosen) >= 0 /\ final >= 0 /\ got \notin Channels
                        -> Rejected(visit, got)
                  [] OTHER -> [visit EXCEPT !.at = "resolved", !.price = final, !.deposit = amount,
                                            !.outcome = got]
  BY DEF ResolveRequest
<1>12. SeenPrice' = ListPrice(services) + visit'.seen
  BY <1>1, SameShop DEF SeenPrice
<1> DEFINE total == AddonsTotal(visit.chosen)
<1>13. total \in Int
  BY <1>5, <1>6
<1>14. total >= 0 => final \in Int
  BY <1>7, <1>8
<1>15. ListPrice(services) \in Nat
  BY <1>2, ListPriceType
<1> HIDE DEF final, amount, got, total
<1>16. CASE ~ (total >= 0 /\ final >= 0 /\ got \in Channels)
  <2>1. \E why : /\ visit' = Rejected(visit, why)
                 /\ \/ why \in {"ADDON_UNAVAILABLE", "promotion"}
                    \/ why = got /\ why \notin Channels /\ total >= 0 /\ final >= 0
    BY <1>11, <1>13, <1>14, <1>16 DEF total
  <2>2. PICK why : /\ visit' = Rejected(visit, why)
                   /\ \/ why \in {"ADDON_UNAVAILABLE", "promotion"}
                      \/ why = got /\ why \notin Channels /\ total >= 0 /\ final >= 0
    BY <2>1
  <2>3. /\ visit'.at = "rejected" /\ visit'.outcome = why
        /\ visit'.shown = sh /\ visit'.ask = ask /\ visit'.steady = visit.steady
        /\ visit'.chosen = visit.chosen /\ visit'.seen = visit.seen /\ DOMAIN visit' = VisitFields
    BY <2>2, <1>9 DEF Rejected, VisitFields
  <2>4. VisitFits'
    BY <1>1, <1>3, <2>3 DEF VisitFits
  <2>5. visit.steady => /\ why \in BlockedCodes => sh.blocked = why
                        /\ ask.method = "manual" /\ why = "invalid method" => sh.mandatory
    BY <2>2, <1>10 DEF BlockedCodes, total
  <2>6. ShownIsCharged'
    BY <2>3, <2>5 DEF ShownIsCharged
  <2>7. QED
    BY <1>2, <2>3, <2>4, <2>6 DEF DepositInv, VisitInv
<1>17. CASE total >= 0 /\ final >= 0 /\ got \in Channels
  <2>1. visit' = [visit EXCEPT !.at = "resolved", !.price = final, !.deposit = amount, !.outcome = got]
    BY <1>11, <1>13, <1>14, <1>17 DEF total
  <2>2. /\ visit'.at = "resolved" /\ visit'.outcome = got /\ visit'.price = final /\ visit'.deposit = amount
        /\ visit'.shown = sh /\ visit'.ask = ask /\ visit'.steady = visit.steady
        /\ visit'.raced = visit.raced /\ visit'.link = visit.link
        /\ visit'.chosen = visit.chosen /\ visit'.seen = visit.seen /\ DOMAIN visit' = VisitFields
    BY <2>1, <1>9 DEF VisitFields
  <2>3. VisitFits'
    BY <1>1, <1>3, <2>2 DEF VisitFits
  <2>4. /\ final \in Nat /\ amount \in 0..final
        /\ visit.steady =>
              /\ sh.amount \in 0..amount
              /\ sh.verified = ask.verified => sh.amount = amount
              /\ sh.blocked # "bookable" => got = "mercadopago" /\ ~ store.usable
              /\ sh.mandatory => got \in {"mercadopago", "none"}
              /\ sh.closed => amount = 0
    BY <1>10, <1>17 DEF total
  <2>5. visit.link = 0 /\ ~ visit.raced
    BY <1>1, <1>3 DEF VisitFits
  <2>6. SeenPrice' = SeenPrice /\ promo' = promo
    BY <1>1, <1>12, <2>2 DEF SeenPrice
  <2>7. final = IF ask.promo THEN Discounted(promo, SeenPrice) ELSE SeenPrice
    BY <1>7, <1>17 DEF final, total
  <2>8. ResolvedFits'
    BY <1>17, <2>2, <2>4, <2>5, <2>6, <2>7 DEF ResolvedFits
  <2>9. ASSUME visit.steady PROVE ResolvedAsShown'
    <3>1. (DecideSelection(services, visit.price, visit.ask.wait, HistoryOf(visit.ask, visit.ask.verified)))' = amount
      <4>1. \A price, wait, history :
               DecideSelection(services, price, wait, history)' = DecideSelection(services, price, wait, history)
        BY <1>1, SameShop
      <4>2. (HistoryOf(visit.ask, visit.ask.verified))' = HistoryOf(ask, ask.verified)
        BY <2>2 DEF HistoryOf
      <4>3. QED
        BY <2>2, <4>1, <4>2 DEF amount
    <3>2. store' = store
      BY <1>1
    <3>3. QED
      BY <2>2, <2>4, <2>5, <2>9, <3>1, <3>2 DEF ResolvedAsShown
  <2>10. ShownIsCharged'
    BY <2>2 DEF ShownIsCharged
  <2>11. QED
    BY <1>2, <2>2, <2>3, <2>8, <2>9, <2>10 DEF DepositInv, VisitInv
<1>18. QED
  BY <1>16, <1>17

(* The slot waits for the payment some time, and not past its start. *)
LEMMA HoldIs ==
    ASSUME NEW channel, NEW wait \in Nat \ {0} PROVE HoldDeadline(channel, wait) \in 1..wait
  BY DEF HoldDeadline, AtMost, PaymentHold, WhatsappHoldLead, WhatsappMinHold

(* WriteBooking: the promotion quoted again gives the same price unless it was            *)
(* edited in between.                                                                     *)
LEMMA WriteInv ==
    ASSUME DepositInv, WriteBooking PROVE DepositInv'
<1> DEFINE ask == visit.ask
<1> DEFINE quoted == IF ask.promo THEN Discounted(promo, SeenPrice) ELSE visit.price
<1> DEFINE amount == IF ask.promo
                     THEN DecideSelection(services, quoted, ask.wait, HistoryOf(ask, ask.verified))
                     ELSE visit.deposit
<1> DEFINE charged == IF visit.outcome = "none" THEN 0 ELSE amount
<1> DEFINE hold == IF visit.outcome = "none" THEN 0 ELSE HoldDeadline(visit.outcome, ask.wait)
<1>1. UNCHANGED <<store, services, rules, promo, addon>> /\ visit.at = "resolved"
  BY DEF WriteBooking
<1>2. ServicesFit' /\ StoreFits' /\ ServicesFit /\ StoreFits
  BY <1>1, SameShop DEF DepositInv
<1>3. VisitFits /\ ResolvedFits /\ (visit.steady => ResolvedAsShown)
  BY <1>1 DEF DepositInv, VisitInv, NoVisit
<1>4. ask \in ClientAsks /\ ask.wait \in Nat \ {0} /\ ask.promo \in BOOLEAN
  BY <1>3, DepositInputs DEF VisitFits
<1>5. DOMAIN visit = VisitFields
  BY <1>3 DEF VisitFits
<1>6. visit' = IF quoted < 0 THEN Rejected(visit, "promotion")
               ELSE [visit EXCEPT !.at = "written", !.charged = charged, !.hold = hold]
  BY DEF WriteBooking, SeenPrice
<1>7. visit.price \in Nat /\ visit.deposit \in 0..visit.price
  BY <1>3 DEF ResolvedFits
<1>8. ~ visit.raced => quoted = visit.price
  BY <1>1, <1>3 DEF ResolvedFits
<1>9. ~ visit.raced => charged \in Nat /\ charged <= visit.price
  <2> SUFFICES ASSUME ~ visit.raced PROVE charged \in Nat /\ charged <= visit.price
    OBVIOUS
  <2>1. quoted \in Nat /\ quoted = visit.price
    BY <1>7, <1>8
  <2> HIDE DEF quoted, ask
  <2>2. DecideSelection(services, quoted, ask.wait, HistoryOf(ask, ask.verified)) \in 0..quoted
    BY <1>2, <2>1, SelectionIs
  <2>3. amount \in 0..visit.price
    BY <1>7, <2>1, <2>2
  <2> HIDE DEF amount
  <2>4. QED
    BY <1>7, <2>3
<1>10. visit.outcome # "none" => hold \in 1..ask.wait
  BY <1>4, HoldIs
<1>11. visit.steady /\ visit.outcome # "none" => charged = visit.deposit
  BY <1>1, <1>3, <1>8 DEF ResolvedAsShown
<1> HIDE DEF quoted, charged, hold
<1>12. CASE quoted < 0
  <2>1. visit' = Rejected(visit, "promotion")
    BY <1>6, <1>12
  <2>2. /\ visit'.at = "rejected" /\ visit'.outcome = "promotion"
        /\ visit'.shown = visit.shown /\ visit'.ask = ask /\ visit'.steady = visit.steady
        /\ visit'.chosen = visit.chosen /\ visit'.seen = visit.seen /\ DOMAIN visit' = VisitFields
    BY <2>1, <1>5 DEF Rejected, VisitFields
  <2>3. VisitFits'
    BY <1>1, <1>3, <2>2 DEF VisitFits
  <2>4. ShownIsCharged'
    BY <2>2 DEF ShownIsCharged, BlockedCodes
  <2>5. QED
    BY <1>2, <2>2, <2>3, <2>4 DEF DepositInv, VisitInv
<1>13. CASE ~ (quoted < 0)
  <2>1. visit' = [visit EXCEPT !.at = "written", !.charged = charged, !.hold = hold]
    BY <1>6, <1>13
  <2>2. /\ visit'.at = "written" /\ visit'.charged = charged /\ visit'.hold = hold
        /\ visit'.shown = visit.shown /\ visit'.ask = ask /\ visit'.steady = visit.steady
        /\ visit'.outcome = visit.outcome /\ visit'.price = visit.price /\ visit'.deposit = visit.deposit
        /\ visit'.raced = visit.raced /\ visit'.link = visit.link
        /\ visit'.chosen = visit.chosen /\ visit'.seen = visit.seen /\ DOMAIN visit' = VisitFields
    BY <2>1, <1>5 DEF VisitFields
  <2>3. VisitFits'
    BY <1>1, <1>3, <2>2 DEF VisitFits
  <2>4. SeenPrice' = SeenPrice /\ store' = store
    BY <1>1, <2>2, SameShop DEF SeenPrice
  <2>5. ResolvedFits'
    BY <1>1, <1>3, <1>9, <1>10, <2>2, <2>4 DEF ResolvedFits
  <2>6. visit.steady => ResolvedAsShown'
    BY <1>1, <1>3, <1>11, <2>2, <2>4 DEF ResolvedAsShown
  <2>7. ShownIsCharged'
    BY <2>2 DEF ShownIsCharged
  <2>8. QED
    BY <1>2, <2>2, <2>3, <2>5, <2>6, <2>7 DEF DepositInv, VisitInv
<1>14. QED
  BY <1>12, <1>13

(* AttachPaymentLink: without a connection the booking is undone. *)
LEMMA AttachInv ==
    ASSUME DepositInv, AttachPaymentLink PROVE DepositInv'
<1>1. UNCHANGED <<store, services, rules, promo, addon>> /\ visit.at = "written"
  BY DEF AttachPaymentLink
<1>2. ServicesFit' /\ StoreFits' /\ ServicesFit /\ StoreFits
  BY <1>1, SameShop DEF DepositInv
<1>3. VisitFits /\ ResolvedFits /\ (visit.steady => ResolvedAsShown)
  BY <1>1 DEF DepositInv, VisitInv, NoVisit
<1>4. DOMAIN visit = VisitFields
  BY <1>3 DEF VisitFits
<1>5. visit.outcome \in Channels
  BY <1>3 DEF ResolvedFits
<1>6. CASE visit.outcome = "mercadopago" /\ ~ store.usable
  <2>1. visit' = Rejected(visit, "PAYMENT_GATEWAY_NOT_CONNECTED")
    BY <1>6 DEF AttachPaymentLink
  <2>2. /\ visit'.at = "rejected" /\ visit'.outcome = "PAYMENT_GATEWAY_NOT_CONNECTED"
        /\ visit'.shown = visit.shown /\ visit'.ask = visit.ask /\ visit'.steady = visit.steady
        /\ visit'.chosen = visit.chosen /\ visit'.seen = visit.seen /\ DOMAIN visit' = VisitFields
    BY <2>1, <1>4 DEF Rejected, VisitFields
  <2>3. VisitFits'
    BY <1>1, <1>3, <2>2 DEF VisitFits
  <2>4. ShownIsCharged'
    BY <2>2 DEF ShownIsCharged, BlockedCodes
  <2>5. QED
    BY <1>2, <2>2, <2>3, <2>4 DEF DepositInv, VisitInv
<1>7. CASE ~ (visit.outcome = "mercadopago" /\ ~ store.usable)
  <2>1. visit' = [visit EXCEPT !.at = "booked"]
    BY <1>7 DEF AttachPaymentLink
  <2>2. /\ visit'.at = "booked" /\ visit'.charged = visit.charged /\ visit'.hold = visit.hold
        /\ visit'.shown = visit.shown /\ visit'.ask = visit.ask /\ visit'.steady = visit.steady
        /\ visit'.outcome = visit.outcome /\ visit'.price = visit.price /\ visit'.deposit = visit.deposit
        /\ visit'.raced = visit.raced /\ visit'.link = visit.link
        /\ visit'.chosen = visit.chosen /\ visit'.seen = visit.seen /\ DOMAIN visit' = VisitFields
    BY <2>1, <1>4 DEF VisitFields
  <2>3. VisitFits'
    BY <1>1, <1>3, <2>2 DEF VisitFits
  <2>4. SeenPrice' = SeenPrice
    BY <1>1, <2>2, SameShop DEF SeenPrice
  <2>5. ResolvedFits'
    BY <1>1, <1>3, <2>2, <2>4 DEF ResolvedFits
  <2>6. ShownIsCharged'
    <3>1. visit.outcome \notin BlockedCodes /\ visit.outcome # "invalid method"
      BY <1>5 DEF Channels, BlockedCodes
    <3>2. visit.steady =>
             LET sh == visit.shown IN
             /\ sh.blocked = "bookable"
             /\ sh.mandatory /\ visit.outcome # "none" => visit.outcome = "mercadopago"
             /\ sh.closed => visit.deposit = 0
             /\ visit.deposit >= sh.amount
             /\ sh.verified = visit.ask.verified => visit.deposit = sh.amount
             /\ visit.outcome # "none" => visit.charged = visit.deposit
      BY <1>1, <1>3, <1>7 DEF ResolvedAsShown
    <3>3. QED
      BY <2>2, <3>1, <3>2 DEF ShownIsCharged
  <2>7. QED
    BY <1>2, <2>2, <2>3, <2>5, <2>6 DEF DepositInv, VisitInv
<1>8. QED
  BY <1>6, <1>7

(* The link of the panel asks for a part of the price of the booking. *)
LEMMA LinkIs ==
    ASSUME ServicesFit, VisitFits, ResolvedFits PROVE LinkAmount(visit) <= visit.price
<1> DEFINE price == IF visit.ask.promo THEN AtMost(SeenPrice, visit.price) ELSE SeenPrice
<1> DEFINE asks == {LinkDeposit(services[i], price) : i \in DOMAIN services}
<1>1. SeenPrice \in Nat
  BY ListPriceType DEF SeenPrice, VisitFits
<1>2. price \in Nat /\ price <= visit.price /\ visit.price \in Nat
  BY <1>1 DEF ResolvedFits, AtMost
<1> HIDE DEF price
<1>3. \A i \in DOMAIN services : LinkDeposit(services[i], price) \in 0..price
  BY <1>2, ServiceFits, PercentIs DEF LinkDeposit, AtMost, Modes
<1>4. 1 \in DOMAIN services
  BY DEF ServicesFit
<1>5. asks \in SUBSET Int /\ asks # {} /\ \A x \in asks : x <= price
  BY <1>2, <1>3, <1>4
<1>6. \A x \in asks : x \in 0..price
  BY <1>3
<1> HIDE DEF asks
<1>7. Max(asks) \in asks
  BY <1>2, <1>5, MaxBelow
<1>8. Max(asks) \in 0..price
  BY <1>6, <1>7
<1>9. LinkAmount(visit) = IF Max(asks) = 0 THEN price ELSE Max(asks)
  BY DEF LinkAmount, SeenPrice, price, asks
<1>10. QED
  BY <1>2, <1>8, <1>9

(* PanelLink: the link of the panel stays within the price. *)
LEMMA LinkInv ==
    ASSUME DepositInv, PanelLink PROVE DepositInv'
<1>1. UNCHANGED <<store, services, rules, promo, addon>> /\ visit.at = "booked"
  BY DEF PanelLink
<1>2. ServicesFit' /\ StoreFits' /\ ServicesFit /\ StoreFits
  BY <1>1, SameShop DEF DepositInv
<1>3. VisitFits /\ ResolvedFits /\ ShownIsCharged
  BY <1>1 DEF DepositInv, VisitInv, NoVisit
<1>4. DOMAIN visit = VisitFields
  BY <1>3 DEF VisitFits
<1> DEFINE link == LinkAmount(visit)
<1>5. link <= visit.price
  BY <1>2, <1>3, LinkIs
<1>6. visit' = [visit EXCEPT !.link = link]
  BY DEF PanelLink
<1> HIDE DEF link
<1>7. /\ visit'.at = "booked" /\ visit'.charged = visit.charged /\ visit'.hold = visit.hold
      /\ visit'.shown = visit.shown /\ visit'.ask = visit.ask /\ visit'.steady = visit.steady
      /\ visit'.outcome = visit.outcome /\ visit'.price = visit.price /\ visit'.deposit = visit.deposit
      /\ visit'.raced = visit.raced /\ visit'.link = link
      /\ visit'.chosen = visit.chosen /\ visit'.seen = visit.seen /\ DOMAIN visit' = VisitFields
  BY <1>1, <1>4, <1>6 DEF VisitFields
<1>8. VisitFits'
  BY <1>1, <1>3, <1>7 DEF VisitFits
<1>9. SeenPrice' = SeenPrice
  BY <1>1, <1>7, SameShop DEF SeenPrice
<1>10. ResolvedFits'
  BY <1>1, <1>3, <1>5, <1>7, <1>9 DEF ResolvedFits
<1>11. ShownIsCharged'
  BY <1>1, <1>3, <1>7 DEF ShownIsCharged
<1>12. QED
  BY <1>2, <1>7, <1>8, <1>10, <1>11 DEF DepositInv, VisitInv

-----------------------------------------------------------------------------
(* The steps of the panel: the visit is left as it is, or loses its steadiness. *)
LEMMA PanelInv ==
    ASSUME DepositInv, ServicesFit', StoreFits', ListPrice(services)' = ListPrice(services),
           addon.id <= addon'.id, addon'.id = addon.id => addon' = addon,
           \/ visit' = Disturbed(visit) /\ promo' = promo
           \/ visit' = Disturbed(visit) /\ visit.at # "resolved"
           \/ visit' = [Disturbed(visit) EXCEPT !.raced = TRUE] /\ visit.at = "resolved"
    PROVE  DepositInv'
<1>1. ServicesFit /\ StoreFits /\ VisitInv
  BY DEF DepositInv
<1>2. CASE visit = NoVisit
  <2>1. visit' = NoVisit
    BY <1>2 DEF NoVisit, Disturbed
  <2>2. QED
    BY <2>1 DEF DepositInv, VisitInv
<1>3. CASE visit # NoVisit
  <2>1. /\ VisitFits
        /\ visit.at \in {"resolved", "written", "booked"} => ResolvedFits
        /\ ShownIsCharged
    BY <1>1, <1>3 DEF VisitInv
  <2>2. DOMAIN visit = VisitFields
    BY <2>1 DEF VisitFits
  <2>3. /\ visit'.at = visit.at /\ visit'.charged = visit.charged /\ visit'.hold = visit.hold
        /\ visit'.shown = visit.shown /\ visit'.ask = visit.ask
        /\ visit'.outcome = visit.outcome /\ visit'.price = visit.price /\ visit'.deposit = visit.deposit
        /\ visit'.link = visit.link
        /\ visit'.chosen = visit.chosen /\ visit'.seen = visit.seen /\ DOMAIN visit' = VisitFields
    BY <2>2 DEF Disturbed, VisitFields
  <2>4. /\ visit.at \in {"shown", "resolved", "written"} => visit'.steady = FALSE
        /\ visit.at \notin {"shown", "resolved", "written"} => visit' = visit
    BY <2>2 DEF Disturbed, VisitFields
  <2>5. /\ visit.at # "resolved" \/ ~ visit'.raced => visit'.raced = visit.raced
        /\ visit.at = "resolved" /\ ~ visit'.raced => promo' = promo
    BY <2>2 DEF Disturbed, VisitFields
  <2>6. VisitFits'
    <3>1. addon.id \in Nat /\ addon'.id \in Nat
      BY <1>1 DEF StoreFits
    <3>2. visit.chosen \in Nat /\ visit.chosen <= addon.id
      BY <2>1 DEF VisitFits
    <3>3. visit.chosen <= addon'.id /\ (visit.chosen = addon'.id => addon' = addon)
      BY <3>1, <3>2
    <3>4. QED
      BY <2>1, <2>3, <2>5, <3>2, <3>3 DEF VisitFits
  <2>7. SeenPrice' = SeenPrice
    BY <2>3 DEF SeenPrice
  <2>8. visit'.at \in {"resolved", "written", "booked"} => ResolvedFits'
    BY <2>1, <2>3, <2>5, <2>7 DEF ResolvedFits
  <2>9. ShownIsCharged'
    BY <2>1, <2>3, <2>4 DEF ShownIsCharged
  <2>10. QED
    BY <2>3, <2>4, <2>6, <2>8, <2>9 DEF DepositInv, VisitInv
<1>4. QED
  BY <1>2, <1>3

(* Reads of the panel, and stuttering. *)
LEMMA NothingInv ==
    ASSUME DepositInv, UNCHANGED <<store, services, rules, promo, addon, visit>>
    PROVE  DepositInv'
<1>1. /\ ServicesFit' /\ StoreFits' /\ ListPrice(services)' = ListPrice(services)
      /\ \A ask, chosen, verified : Shown(ask, chosen, verified)' = Shown(ask, chosen, verified)
      /\ \A price, wait, history :
            DecideSelection(services, price, wait, history)' = DecideSelection(services, price, wait, history)
  BY SameShop DEF DepositInv
<1>2. VisitFits => VisitFits'
  BY DEF VisitFits
<1>3. ShownIsCurrent => ShownIsCurrent'
  BY <1>1 DEF ShownIsCurrent
<1>4. SeenPrice' = SeenPrice
  BY <1>1 DEF SeenPrice
<1>5. ResolvedFits => ResolvedFits'
  BY <1>4 DEF ResolvedFits
<1>6. (HistoryOf(visit.ask, visit.ask.verified))' = HistoryOf(visit.ask, visit.ask.verified)
  BY DEF HistoryOf
<1>7. (DecideSelection(services, visit.price, visit.ask.wait, HistoryOf(visit.ask, visit.ask.verified)))'
         = DecideSelection(services, visit.price, visit.ask.wait, HistoryOf(visit.ask, visit.ask.verified))
  BY <1>1, <1>6
<1>8. ResolvedAsShown => ResolvedAsShown'
  BY <1>7 DEF ResolvedAsShown
<1>9. ShownIsCharged => ShownIsCharged'
  BY DEF ShownIsCharged
<1>10. VisitInv'
  BY <1>2, <1>3, <1>5, <1>8, <1>9 DEF DepositInv, VisitInv
<1>11. QED
  BY <1>1, <1>10 DEF DepositInv

(* update_my_store, the flags, the disconnection, the PATCH of a service. *)
LEMMA EditCommitInv ==
    ASSUME DepositInv, NEW e, EditCommit(e) PROVE DepositInv'
<1>1. /\ UNCHANGED <<rules, promo, addon>> /\ visit' = Disturbed(visit)
      /\ store' = Changed(store, editor[e].kind)
      /\ services' = services \/ services' = [services EXCEPT ![1].mode = "required"]
  BY DEF EditCommit
<1>2. ServicesFit /\ StoreFits
  BY DEF DepositInv
<1>3. ServicesFit' /\ ListPrice(services') = ListPrice(services)
  <2>1. CASE services' = services
    BY <1>2, <2>1 DEF ServicesFit
  <2>2. CASE services' = [services EXCEPT ![1].mode = "required"]
    <3> DEFINE row == [services[1] EXCEPT !.mode = "required"]
    <3>1. 1 \in DOMAIN services /\ services[1] \in ServiceRow
      BY <1>2 DEF ServicesFit
    <3>2. /\ row \in ServiceRow
          /\ row.type = services[1].type /\ row.amount = services[1].amount /\ row.price = services[1].price
      BY <3>1 DEF ServiceRow, Modes
    <3>3. services' = [services EXCEPT ![1] = row]
      BY <2>2
    <3> HIDE DEF row
    <3>4. QED
      BY <1>2, <3>1, <3>2, <3>3, RowChanged
  <2>3. QED
    BY <1>1, <2>1, <2>2
<1>4. StoreFits'
  BY <1>1, <1>2 DEF StoreFits, Changed
<1>5. addon.id <= addon'.id /\ addon' = addon
  BY <1>1, <1>2 DEF StoreFits
<1>6. QED
  BY <1>1, <1>3, <1>4, <1>5, PanelInv

(* A channel comes back, or the connection breaks. *)
LEMMA StoreFlagInv ==
    ASSUME DepositInv, \/ \E c \in {"whatsapp", "payments", "usable"} : RestoreChannel(c)
                       \/ ConnectionBreaks
    PROVE  DepositInv'
<1>1. UNCHANGED <<services, rules, promo, addon>> /\ visit' = Disturbed(visit)
  BY DEF RestoreChannel, ConnectionBreaks
<1>2. ServicesFit /\ StoreFits
  BY DEF DepositInv
<1>3. store' \in [whatsapp : BOOLEAN, payments : BOOLEAN, manual : BOOLEAN, usable : BOOLEAN]
  BY <1>2 DEF RestoreChannel, ConnectionBreaks, StoreFits
<1>4. StoreFits' /\ ServicesFit' /\ ListPrice(services)' = ListPrice(services)
  BY <1>1, <1>2, <1>3 DEF StoreFits, ServicesFit
<1>5. addon.id <= addon'.id /\ addon' = addon
  BY <1>1, <1>2 DEF StoreFits
<1>6. QED
  BY <1>1, <1>4, <1>5, PanelInv

(* A service is deactivated or comes back. *)
LEMMA SetActiveInv ==
    ASSUME DepositInv, NEW i \in 1..2, NEW to \in BOOLEAN, SetActive(i, to) PROVE DepositInv'
<1>1. /\ UNCHANGED <<store, rules, promo, addon>> /\ visit' = Disturbed(visit)
      /\ i \in DOMAIN services /\ services' = [services EXCEPT ![i].active = to]
  BY DEF SetActive
<1>2. ServicesFit /\ StoreFits
  BY DEF DepositInv
<1> DEFINE row == [services[i] EXCEPT !.active = to]
<1>3. services[i] \in ServiceRow
  BY <1>1, <1>2 DEF ServicesFit
<1>4. /\ row \in ServiceRow
      /\ row.type = services[i].type /\ row.amount = services[i].amount /\ row.price = services[i].price
  BY <1>3 DEF ServiceRow
<1>5. services' = [services EXCEPT ![i] = row]
  BY <1>1
<1> HIDE DEF row
<1>6. ServicesFit' /\ ListPrice(services') = ListPrice(services)
  BY <1>1, <1>2, <1>4, <1>5, RowChanged
<1>7. StoreFits' /\ addon.id <= addon'.id /\ addon' = addon
  BY <1>1, <1>2 DEF StoreFits
<1>8. QED
  BY <1>1, <1>6, <1>7, PanelInv

(* replace_addons: an id the client saw keeps its price or is gone. *)
LEMMA ReplaceAddonsInv ==
    ASSUME DepositInv, NEW p \in AddonPrices, ReplaceAddons(p) PROVE DepositInv'
<1>1. /\ UNCHANGED <<store, services, rules, promo>> /\ visit' = Disturbed(visit)
      /\ addon' = ReplacedAddon(p)
  BY DEF ReplaceAddons
<1>2. ServicesFit /\ StoreFits
  BY DEF DepositInv
<1>3. ServicesFit' /\ ListPrice(services)' = ListPrice(services)
  BY <1>1, <1>2 DEF ServicesFit
<1>4. addon.id \in Nat \ {0} /\ addon.price \in Nat /\ p \in Nat
  BY <1>2, DepositInputs DEF StoreFits
<1>5. /\ addon'.id \in Nat \ {0} /\ addon'.price \in Nat
      /\ addon.id <= addon'.id /\ (addon'.id = addon.id => addon' = addon)
  BY <1>1, <1>4 DEF ReplacedAddon
<1>6. StoreFits'
  BY <1>1, <1>2, <1>5 DEF StoreFits
<1>7. QED
  BY <1>1, <1>3, <1>5, <1>6, PanelInv

(* An edit between the quote and the redemption leaves the visit raced. *)
LEMMA EditPromotionInv ==
    ASSUME DepositInv, NEW p \in Promotions, EditPromotion(p) PROVE DepositInv'
<1>1. /\ UNCHANGED <<store, services, rules, addon>> /\ promo' = p
      /\ visit' = IF visit.at = "resolved" THEN [Disturbed(visit) EXCEPT !.raced = TRUE] ELSE Disturbed(visit)
  BY DEF EditPromotion
<1>2. ServicesFit /\ StoreFits
  BY DEF DepositInv
<1>3. ServicesFit' /\ ListPrice(services)' = ListPrice(services)
  BY <1>1, <1>2 DEF ServicesFit
<1>4. StoreFits'
  BY <1>1, <1>2, DepositInputs DEF StoreFits
<1>5. addon.id <= addon'.id /\ addon' = addon
  BY <1>1, <1>2 DEF StoreFits
<1>6. QED
  BY <1>1, <1>3, <1>4, <1>5, PanelInv

(* Every step of the client and of the panel. *)
LEMMA NextDepositInv ==
    ASSUME DepositInv, [DepositsNext]_depositVars PROVE DepositInv'
<1>1. CASE \E ask \in ClientAsks, withAddon, verified \in BOOLEAN : Preview(ask, withAddon, verified)
  BY <1>1, PreviewInv
<1>2. CASE ResolveRequest
  BY <1>2, ResolveInv
<1>3. CASE WriteBooking
  BY <1>3, WriteInv
<1>4. CASE AttachPaymentLink
  BY <1>4, AttachInv
<1>5. CASE PanelLink
  BY <1>5, LinkInv
<1>6. CASE \E e \in Editors : \/ \E k \in {"whatsapp", "payments", "disconnect", "require"} : EditRead(e, k)
                              \/ EditCheck(e)
  <2>1. UNCHANGED <<store, services, rules, promo, addon, visit>>
    BY <1>6 DEF EditRead, EditCheck
  <2>2. QED
    BY <2>1, NothingInv
<1>7. CASE \E e \in Editors : EditCommit(e)
  BY <1>7, EditCommitInv
<1>8. CASE (\E c \in {"whatsapp", "payments", "usable"} : RestoreChannel(c)) \/ ConnectionBreaks
  BY <1>8, StoreFlagInv
<1>9. CASE \E i \in 1..2, to \in BOOLEAN : SetActive(i, to)
  BY <1>9, SetActiveInv
<1>10. CASE \E p \in AddonPrices : ReplaceAddons(p)
  BY <1>10, ReplaceAddonsInv
<1>11. CASE \E p \in Promotions : EditPromotion(p)
  BY <1>11, EditPromotionInv
<1>12. CASE UNCHANGED depositVars
  BY <1>12, NothingInv DEF depositVars
<1>13. QED
  BY <1>1, <1>2, <1>3, <1>4, <1>5, <1>6, <1>7, <1>8, <1>9, <1>10, <1>11, <1>12 DEF DepositsNext

(* DepositHolds: the deposit of a booking is the one that was shown and one that can   *)
(* be paid, whatever the panel edits in between.                                          *)
LEMMA InvDepositHolds ==
    DepositInv => DepositHolds
<1> SUFFICES ASSUME DepositInv PROVE DepositHolds
  OBVIOUS
<1>1. CASE visit = NoVisit
  <2>1. visit.at = "none"
    BY <1>1 DEF NoVisit
  <2>2. QED
    BY <2>1 DEF DepositHolds, ShownIsCharged, DepositIsPayable
<1>2. CASE visit # NoVisit
  <2>1. ShownIsCharged /\ (visit.at \in {"resolved", "written", "booked"} => ResolvedFits)
    BY <1>2 DEF DepositInv, VisitInv
  <2>2. visit.at = "booked" /\ ~ visit.raced => visit.link <= visit.price
    <3>1. visit.at = "booked" => visit.price \in Nat
      BY <2>1 DEF ResolvedFits
    <3>2. QED
      BY <2>1, <3>1 DEF ResolvedFits
  <2>3. DepositIsPayable
    BY <2>1, <2>2 DEF DepositIsPayable, ResolvedFits, SeenPrice
  <2>4. QED
    BY <2>1, <2>3 DEF DepositHolds
<1>3. QED
  BY <1>1, <1>2

(* While nobody edits the panel between the preview and the booking, the client is        *)
(* charged the deposit he was shown, or more if his contact was verified after it, and    *)
(* is stopped only where the portal said so; and whatever is edited, the deposit and the  *)
(* link stay within the price of the booking (but for a promotion edited between its two  *)
(* quotes), and the slot waits for the payment and never past its start.                  *)
THEOREM DepositsHold == DepositsSpec => []DepositHolds
<1>1. DepositsInit => DepositInv
  BY InitDepositInv
<1>2. DepositInv /\ [DepositsNext]_depositVars => DepositInv'
  BY NextDepositInv
<1>3. DepositInv => DepositHolds
  BY InvDepositHolds
<1>4. QED
  BY <1>1, <1>2, <1>3, PTL DEF DepositsSpec
==============================================================================
