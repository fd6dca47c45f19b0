-------------------------- MODULE WebhookInboxProofs --------------------------
(***************************************************************************)
(* No notification is marked as processed without its status, and none is  *)
(* abandoned early, for any number of notifications, deliveries and        *)
(* requests.  What a request or the job carries from Mercado Pago while    *)
(* it holds no lock (AnswersAreRecent) and what a request remembers of the *)
(* row (MemoryIsPast) make the two properties inductive.                   *)
(***************************************************************************)
EXTENDS WebhookInbox, FiniteSetTheorems, TLAPS

(* What was asked after a notification covers what it announced. *)
AnswersAreRecent ==
    /\ \A n \in Notes : sent[n] <= version
    /\ \A r \in Requests :
         req[r].at # "idle" =>
           /\ req[r].note \in Notes
           /\ sent[req[r].note] # 0
           /\ req[r].got # 0 => req[r].got >= sent[req[r].note]
    /\ job = "idle" => answered = {}
    /\ \A n \in Notes :
         /\ inbox[n] # "none" \/ n \in pending => sent[n] # 0
         /\ jobGot[n] # 0 => n \in answered /\ jobGot[n] >= sent[n]

(* A waiting row has attempts left, and so had the row a request read. *)
MemoryIsPast ==
    /\ \A n \in Notes :
         inbox[n] \in {"none", "waiting"} => attempts[n] < MaxAttempts
    /\ \A r \in Requests :
         req[r].at = "read" =>
           req[r].old < MaxAttempts /\ req[r].old <= failures[req[r].note]

InboxInv ==
    /\ TypeOK
    /\ AnswersAreRecent
    /\ MemoryIsPast
    /\ ProcessedIsApplied
    /\ DroppedIsEarned

(* The empty inbox satisfies the invariant. *)
LEMMA InitInboxInv == Init => InboxInv
BY InboxAssumption
   DEF Init, InboxInv, TypeOK, AnswersAreRecent, MemoryIsPast,
       ProcessedIsApplied, DroppedIsEarned, RowStates, Request, Idle

(* The properties of a step that leaves the rows alone. *)
LEMMA RowsFrame ==
    ASSUME InboxInv, UNCHANGED <<inbox, attempts, applied, failures, sent>>
    PROVE  ProcessedIsApplied' /\ DroppedIsEarned'
BY DEF InboxInv, ProcessedIsApplied, DroppedIsEarned

(* A request that ended carries nothing. *)
LEMMA IdleRequest == Idle \in Request /\ Idle.at = "idle"
BY DEF Idle, Request

(* Mercado Pago moves the payment on: earlier answers stay as recent as they were. *)
LEMMA AnnounceInv ==
    ASSUME InboxInv, NEW n \in Notes, Announce(n) PROVE InboxInv'
<1> USE InboxAssumption
<1>1. /\ version' = version + 1 /\ version \in Nat
      /\ sent' = [sent EXCEPT ![n] = version + 1]
      /\ sent[n] = 0
      /\ UNCHANGED <<delivered, inbox, attempts, place, applied, failures, req,
                     job, pending, answered, jobGot>>
  BY DEF Announce, InboxInv, TypeOK, rowVars, jobVars
<1>2. TypeOK'
  BY <1>1 DEF InboxInv, TypeOK
<1>3. inbox[n] = "none" /\ n \notin pending
  BY <1>1 DEF InboxInv, AnswersAreRecent
<1>4. AnswersAreRecent'
  BY <1>1, <1>3 DEF InboxInv, TypeOK, AnswersAreRecent, Request
<1>5. MemoryIsPast'
  BY <1>1 DEF InboxInv, MemoryIsPast
<1>6. ProcessedIsApplied' /\ DroppedIsEarned'
  BY <1>1, <1>3 DEF InboxInv, TypeOK, ProcessedIsApplied, DroppedIsEarned
<1> QED BY <1>2, <1>4, <1>5, <1>6 DEF InboxInv

(* A delivery begins with the answer of Mercado Pago. *)
LEMMA DeliverInv ==
    ASSUME InboxInv, NEW r \in Requests, NEW n \in Notes,
           NEW got \in {0, version}, Deliver(r, n, got)
    PROVE  InboxInv'
<1> USE InboxAssumption
<1> DEFINE asked == [at |-> "asked", note |-> n, got |-> got, saw |-> "none",
                     old |-> 0]
<1>1. /\ req' = [req EXCEPT ![r] = asked]
      /\ delivered' = [delivered EXCEPT ![n] = @ + 1]
      /\ delivered[n] < MaxDeliveries
      /\ sent[n] # 0
      /\ UNCHANGED <<version, sent, inbox, attempts, place, applied, failures,
                     job, pending, answered, jobGot>>
  BY DEF Deliver, rowVars, jobVars
<1>2. /\ asked \in Request
      /\ asked.at = "asked" /\ asked.note = n /\ asked.got = got
  BY DEF Request, InboxInv, TypeOK
<1> HIDE DEF asked
<1>3. TypeOK'
  BY <1>1, <1>2 DEF InboxInv, TypeOK
<1>4. AnswersAreRecent'
  BY <1>1, <1>2 DEF InboxInv, TypeOK, AnswersAreRecent
<1>5. MemoryIsPast'
  BY <1>1, <1>2 DEF InboxInv, TypeOK, MemoryIsPast
<1> QED BY <1>1, <1>3, <1>4, <1>5, RowsFrame DEF InboxInv

(* The handler remembers the attempts its row has when it reads it. *)
LEMMA ReadInv ==
    ASSUME InboxInv, NEW r \in Requests, Read(r) PROVE InboxInv'
<1> USE InboxAssumption
<1> DEFINE n == req[r].note
           got == req[r].got
           read == [at |-> "read", note |-> n, got |-> got, saw |-> inbox[n],
                    old |-> attempts[n]]
<1>1. /\ req[r].at = "asked"
      /\ UNCHANGED <<version, sent, delivered, inbox, attempts, place, applied,
                     failures, job, pending, answered, jobGot>>
  BY DEF Read, remoteVars, rowVars, jobVars
<1>2. n \in Notes /\ req[r] \in Request
  BY <1>1 DEF InboxInv, TypeOK, AnswersAreRecent
<1>3. CASE inbox[n] \in {"done", "dropped"}
  <2>1. req' = [req EXCEPT ![r] = Idle]
    BY <1>3 DEF Read
  <2>2. TypeOK' /\ AnswersAreRecent' /\ MemoryIsPast'
    BY <1>1, <2>1, IdleRequest DEF InboxInv, TypeOK, AnswersAreRecent, MemoryIsPast
  <2> QED BY <1>1, <2>2, RowsFrame DEF InboxInv
<1>4. CASE inbox[n] \in {"none", "waiting"}
  <2>1. req' = [req EXCEPT ![r] = read]
    BY <1>4 DEF Read
  <2>2. /\ read \in Request /\ read.note = n /\ read.got = req[r].got
        /\ read.old = attempts[n]
    <3>1. attempts[n] \in Nat /\ got \in Nat
      BY <1>2 DEF Request, InboxInv, TypeOK
    <3> QED BY <1>2, <1>4, <3>1 DEF Request
  <2> HIDE DEF read
  <2>3. TypeOK'
    BY <1>1, <2>1, <2>2 DEF InboxInv, TypeOK
  <2>4. AnswersAreRecent'
    BY <1>1, <1>2, <2>1, <2>2 DEF InboxInv, TypeOK, AnswersAreRecent
  <2>5. attempts[n] < MaxAttempts /\ attempts[n] <= failures[n]
    BY <1>2, <1>4 DEF InboxInv, MemoryIsPast, DroppedIsEarned
  <2>6. MemoryIsPast'
    BY <1>1, <1>2, <2>1, <2>2, <2>5 DEF InboxInv, TypeOK, MemoryIsPast
  <2> QED BY <1>1, <2>3, <2>4, <2>6, RowsFrame DEF InboxInv
<1> QED BY <1>2, <1>3, <1>4 DEF InboxInv, TypeOK, RowStates

(* The place of a row in the order of arrival is a number. *)
LEMMA PlaceType ==
    ASSUME InboxInv, NEW r \in Requests, CanWrite(r), Placed(r)
    PROVE  place' \in [Notes -> Nat]
<1> DEFINE S == {n \in Notes : inbox[n] # "none"}
<1>1. IsFiniteSet(S)
  <2>1. S \in SUBSET Notes /\ IsFiniteSet(Notes)
    BY InboxAssumption
  <2> HIDE DEF S
  <2> QED BY <2>1, FS_Subset
<1>2. Cardinality(S) \in Nat
  <2> HIDE DEF S
  <2> QED BY <1>1, FS_CardinalityType
<1> QED BY <1>2 DEF Placed, InboxInv, TypeOK

(* The handler applies its answer and marks its row processed. *)
LEMMA AcceptInv ==
    ASSUME InboxInv, NEW r \in Requests, Accept(r) PROVE InboxInv'
<1> USE InboxAssumption
<1> DEFINE n == req[r].note
<1>1. /\ req[r].at = "read" /\ req[r].got # 0
      /\ applied' = applied \cup {req[r].got}
      /\ inbox' = [inbox EXCEPT ![n] = "done"]
      /\ req' = [req EXCEPT ![r] = Idle]
      /\ place' \in [Notes -> Nat]
      /\ UNCHANGED <<version, sent, delivered, attempts, failures, job, pending,
                     answered, jobGot>>
  <2>1. place' \in [Notes -> Nat]
    BY PlaceType DEF Accept
  <2> QED BY <2>1 DEF Accept, CanWrite, remoteVars, jobVars
<1>2. /\ n \in Notes /\ sent[n] # 0 /\ req[r].got \in Nat
      /\ req[r].got >= sent[n]
  BY <1>1 DEF InboxInv, TypeOK, Request, AnswersAreRecent
<1> HIDE DEF n
<1>3. TypeOK'
  BY <1>1, <1>2, IdleRequest DEF InboxInv, TypeOK, RowStates
<1>4. AnswersAreRecent'
  BY <1>1, <1>2, IdleRequest DEF InboxInv, TypeOK, AnswersAreRecent
<1>5. MemoryIsPast'
  BY <1>1, <1>2, IdleRequest DEF InboxInv, TypeOK, MemoryIsPast
<1>6. ProcessedIsApplied'
  BY <1>1, <1>2 DEF InboxInv, TypeOK, ProcessedIsApplied
<1>7. DroppedIsEarned'
  BY <1>1, <1>2 DEF InboxInv, TypeOK, DroppedIsEarned
<1> QED BY <1>3, <1>4, <1>5, <1>6, <1>7 DEF InboxInv

(* The handler writes the attempts it remembered plus one. *)
LEMMA RefuseInv ==
    ASSUME InboxInv, NEW r \in Requests, Refuse(r) PROVE InboxInv'
<1> USE InboxAssumption
<1> DEFINE n == req[r].note
           k == req[r].old + 1
<1>1. /\ req[r].at = "read"
      /\ attempts' = [attempts EXCEPT ![n] = k]
      /\ failures' = [failures EXCEPT ![n] = @ + 1]
      /\ req' = [req EXCEPT ![r] = Idle]
      /\ place' \in [Notes -> Nat]
      /\ UNCHANGED <<version, sent, delivered, applied, job, pending, answered,
                     jobGot>>
  <2>1. place' \in [Notes -> Nat]
    BY PlaceType DEF Refuse
  <2> QED BY <2>1 DEF Refuse, CanWrite, remoteVars, jobVars
<1>2. /\ n \in Notes /\ sent[n] # 0 /\ req[r].old \in Nat
      /\ k \in 1..MaxAttempts /\ k <= failures[n] + 1
  BY <1>1 DEF InboxInv, TypeOK, Request, AnswersAreRecent, MemoryIsPast
<1>3. /\ inbox' = [inbox EXCEPT ![n] = inbox'[n]]
      /\ \/ k = MaxAttempts /\ inbox'[n] = "dropped"
         \/ /\ k < MaxAttempts /\ inbox'[n] \in {inbox[n], "waiting"}
            /\ inbox'[n] # "none"
            /\ inbox'[n] = "waiting" \/ inbox'[n] = inbox[n]
  <2>1. inbox' = [inbox EXCEPT ![n] =
          AfterFailure(k, IF inbox[n] = "none" THEN "waiting" ELSE inbox[n])]
    BY DEF Refuse
  <2>2. inbox \in [Notes -> RowStates]
    BY DEF InboxInv, TypeOK
  <2> HIDE DEF n, k
  <2> QED BY <1>2, <2>1, <2>2 DEF AfterFailure
<1> HIDE DEF n, k
<1>4. TypeOK'
  BY <1>1, <1>2, <1>3, IdleRequest DEF InboxInv, TypeOK, RowStates
<1>5. AnswersAreRecent'
  BY <1>1, <1>2, <1>3, IdleRequest DEF InboxInv, TypeOK, AnswersAreRecent
<1>6. MemoryIsPast'
  <2>1. \A m \in Notes :
          inbox'[m] \in {"none", "waiting"} => attempts'[m] < MaxAttempts
    BY <1>1, <1>2, <1>3 DEF InboxInv, TypeOK, MemoryIsPast
  <2>2. ASSUME NEW q \in Requests, req'[q].at = "read"
        PROVE  req'[q].old < MaxAttempts /\ req'[q].old <= failures'[req'[q].note]
    <3>1. q # r /\ req'[q] = req[q]
      BY <1>1, <2>2, IdleRequest DEF InboxInv, TypeOK
    <3>2. req[q].note \in Notes /\ req[q].old \in Nat
      BY <2>2, <3>1 DEF InboxInv, TypeOK, Request, AnswersAreRecent
    <3>3. failures'[req[q].note] >= failures[req[q].note]
      BY <1>1, <1>2, <3>2 DEF InboxInv, TypeOK
    <3> QED BY <2>2, <3>1, <3>2, <3>3, <1>1 DEF InboxInv, TypeOK, MemoryIsPast
  <2> QED BY <2>1, <2>2 DEF MemoryIsPast
<1>7. ProcessedIsApplied'
  BY <1>1, <1>2, <1>3 DEF InboxInv, TypeOK, ProcessedIsApplied
<1>8. DroppedIsEarned'
  BY <1>1, <1>2, <1>3 DEF InboxInv, TypeOK, DroppedIsEarned
<1> QED BY <1>4, <1>5, <1>6, <1>7, <1>8 DEF InboxInv

(* A request that is cut leaves the row it had not written. *)
LEMMA AbortInv ==
    ASSUME InboxInv, NEW r \in Requests, Abort(r) PROVE InboxInv'
<1>1. /\ req' = [req EXCEPT ![r] = Idle]
      /\ UNCHANGED <<version, sent, delivered, inbox, attempts, place, applied,
                     failures, job, pending, answered, jobGot>>
  BY DEF Abort, remoteVars, rowVars, jobVars
<1>2. TypeOK' /\ AnswersAreRecent' /\ MemoryIsPast'
  BY <1>1, IdleRequest DEF InboxInv, TypeOK, AnswersAreRecent, MemoryIsPast
<1> QED BY <1>1, <1>2, RowsFrame DEF InboxInv

(* Phase A and a run that is cut change nothing but the job's memory. *)
LEMMA JobMemoryInv ==
    ASSUME InboxInv, UNCHANGED <<remoteVars, rowVars, req>>,
           \/ JobRead
           \/ \E n \in Notes, got \in {0, version} : JobAsk(n, got)
           \/ JobCut
    PROVE  InboxInv'
<1>1. UNCHANGED <<version, sent, delivered, inbox, attempts, place, applied,
                  failures, req>>
  BY DEF remoteVars, rowVars
<1>2. CASE JobRead
  <2>1. TypeOK' /\ AnswersAreRecent' /\ MemoryIsPast'
    BY <1>1, <1>2 DEF JobRead, InboxInv, TypeOK, AnswersAreRecent, MemoryIsPast
  <2> QED BY <1>1, <2>1, RowsFrame DEF InboxInv
<1>3. ASSUME NEW n \in Notes, NEW got \in {0, version}, JobAsk(n, got)
      PROVE  InboxInv'
  <2>1. TypeOK' /\ AnswersAreRecent' /\ MemoryIsPast'
    BY <1>1, <1>3 DEF JobAsk, InboxInv, TypeOK, AnswersAreRecent, MemoryIsPast
  <2> QED BY <1>1, <2>1, RowsFrame DEF InboxInv
<1>4. CASE JobCut
  <2>1. TypeOK' /\ AnswersAreRecent' /\ MemoryIsPast'
    BY <1>1, <1>4 DEF JobCut, JobDone, InboxInv, TypeOK, AnswersAreRecent, MemoryIsPast
  <2> QED BY <1>1, <2>1, RowsFrame DEF InboxInv
<1> QED BY <1>2, <1>3, <1>4

(* The job settles, under the lock, rows it asked about. *)
LEMMA JobWriteInv ==
    ASSUME InboxInv, NEW good \in SUBSET Notes, NEW skipped \in SUBSET Notes,
           JobWrite(good, skipped)
    PROVE  InboxInv'
<1> USE InboxAssumption
<1> DEFINE bad == Lockable(skipped) \ good
<1>1. /\ good \subseteq answered /\ bad \subseteq answered
      /\ good \cap bad = {}
      /\ \A n \in good \cup bad : inbox[n] = "waiting"
      /\ \A n \in good : jobGot[n] # 0
  BY DEF JobWrite, Lockable
<1>2. /\ inbox' = [n \in Notes |->
            IF n \in good THEN "done"
            ELSE IF n \in bad THEN AfterFailure(attempts[n] + 1, "waiting")
            ELSE inbox[n]]
      /\ attempts' = [n \in Notes |->
            IF n \in bad THEN attempts[n] + 1 ELSE attempts[n]]
      /\ failures' = [n \in Notes |->
            IF n \in bad THEN failures[n] + 1 ELSE failures[n]]
      /\ applied' = applied \cup {jobGot[n] : n \in good}
      /\ job' = "idle" /\ pending' = {} /\ answered' = {}
      /\ jobGot' = [n \in Notes |-> 0]
      /\ UNCHANGED <<version, sent, delivered, place, req>>
  BY <1>1 DEF JobWrite, JobDone, Charged, remoteVars
<1> HIDE DEF bad
<1>3. \A n \in bad : /\ n \in Notes
                     /\ attempts[n] + 1 \in 1..MaxAttempts
                     /\ attempts[n] <= failures[n]
  BY <1>1 DEF InboxInv, TypeOK, MemoryIsPast, DroppedIsEarned
<1>4. TypeOK'
  <2>1. inbox' \in [Notes -> RowStates]
    BY <1>2 DEF InboxInv, TypeOK, RowStates, AfterFailure
  <2>2. attempts' \in [Notes -> 0..MaxAttempts]
    <3>1. \A n \in Notes : attempts[n] \in 0..MaxAttempts
      BY DEF InboxInv, TypeOK
    <3>2. \A n \in bad : attempts[n] + 1 \in 0..MaxAttempts
      BY <1>3
    <3> QED BY <1>2, <3>1, <3>2
  <2>3. failures' \in [Notes -> Nat]
    BY <1>2 DEF InboxInv, TypeOK
  <2>4. applied' \subseteq Nat
    <3>1. applied \subseteq Nat /\ \A n \in good : jobGot[n] \in Nat
      BY DEF InboxInv, TypeOK
    <3>2. applied' = applied \cup {jobGot[n] : n \in good}
      BY <1>2
    <3> QED BY <3>1, <3>2
  <2> QED BY <1>2, <2>1, <2>2, <2>3, <2>4 DEF InboxInv, TypeOK
<1>5. AnswersAreRecent'
  <2>1. \A n \in Notes : inbox'[n] # "none" => inbox[n] # "none"
    BY <1>1, <1>2
  <2> QED BY <1>2, <2>1 DEF InboxInv, TypeOK, AnswersAreRecent
<1>6. MemoryIsPast'
  <2>1. \A n \in Notes :
          inbox'[n] \in {"none", "waiting"} => attempts'[n] < MaxAttempts
    BY <1>1, <1>2, <1>3 DEF InboxInv, TypeOK, MemoryIsPast, AfterFailure
  <2>2. \A n \in Notes : failures[n] <= failures'[n] /\ failures[n] \in Nat
                          /\ failures'[n] \in Nat
    BY <1>2 DEF InboxInv, TypeOK
  <2>3. ASSUME NEW r \in Requests, req'[r].at = "read"
        PROVE  req'[r].old < MaxAttempts /\ req'[r].old <= failures'[req'[r].note]
    <3>1. /\ req[r].note \in Notes /\ req[r].old \in Nat
          /\ req[r].old < MaxAttempts /\ req[r].old <= failures[req[r].note]
      BY <1>2, <2>3 DEF InboxInv, TypeOK, Request, AnswersAreRecent, MemoryIsPast
    <3> QED BY <1>2, <2>2, <3>1
  <2> QED BY <2>1, <2>3 DEF MemoryIsPast
<1>7. ProcessedIsApplied'
  <2> SUFFICES ASSUME NEW n \in Notes, inbox'[n] = "done"
               PROVE  \E v \in applied' : v >= sent'[n]
    BY DEF ProcessedIsApplied
  <2>1. CASE n \in good
    <3>1. jobGot[n] \in applied' /\ jobGot[n] >= sent[n]
      BY <2>1, <1>1, <1>2 DEF InboxInv, AnswersAreRecent
    <3> QED BY <3>1, <1>2
  <2>2. CASE n \notin good
    <3>1. inbox[n] = "done"
      BY <2>2, <1>2 DEF AfterFailure
    <3> QED BY <3>1, <1>2 DEF InboxInv, ProcessedIsApplied
  <2> QED BY <2>1, <2>2
<1>8. DroppedIsEarned'
  BY <1>1, <1>2, <1>3 DEF InboxInv, TypeOK, DroppedIsEarned, AfterFailure
<1> QED BY <1>4, <1>5, <1>6, <1>7, <1>8 DEF InboxInv

(* The invariant is inductive. *)
LEMMA NextInboxInv == InboxInv /\ [Next]_vars => InboxInv'
<1> SUFFICES ASSUME InboxInv, [Next]_vars PROVE InboxInv'
  OBVIOUS
<1>1. CASE UNCHANGED vars
  <2>1. UNCHANGED <<version, sent, delivered, inbox, attempts, place, applied,
                    failures, req, job, pending, answered, jobGot>>
    BY <1>1 DEF vars, remoteVars, rowVars, jobVars
  <2> QED BY <2>1 DEF InboxInv, TypeOK, AnswersAreRecent, MemoryIsPast,
                      ProcessedIsApplied, DroppedIsEarned
<1>2. CASE JobRead
  BY <1>2, JobMemoryInv DEF JobRead
<1>3. CASE JobCut
  BY <1>3, JobMemoryInv DEF JobCut
<1>4. ASSUME NEW n \in Notes, NEW got \in {0, version}, JobAsk(n, got)
      PROVE  InboxInv'
  BY <1>4, JobMemoryInv DEF JobAsk
<1> QED
  BY <1>1, <1>2, <1>3, <1>4, AnnounceInv, DeliverInv, ReadInv, AcceptInv,
     RefuseInv, AbortInv, JobWriteInv
     DEF Next, RequestStep

(* A processed notification was applied and an abandoned one used up its   *)
(* attempts, for every number of notifications, requests and attempts.     *)
THEOREM InboxSafe == Spec => [](ProcessedIsApplied /\ DroppedIsEarned)
<1>1. InboxInv => ProcessedIsApplied /\ DroppedIsEarned
  BY DEF InboxInv
<1> QED BY <1>1, InitInboxInv, NextInboxInv, PTL DEF Spec
=============================================================================
