----------------------------- MODULE OutboxProofs -----------------------------
(***************************************************************************)
(* The outbox, for any number of runs, rows, attempts and moves of a visit: *)
(* its claims (Outbox), and what its batches make the client and the owner  *)
(* hear (Announcements).                                                    *)
(*                                                                          *)
(* The properties are not inductive alone.  For the claims, what a claim    *)
(* has still to be charged (ClaimsCharged), which run may hold which claim  *)
(* (ClaimsDistinct) and which mails are in flight (MailInFlight) strengthen *)
(* them.  For the announcements, NewsOnItsWay says where the last news is   *)
(* while it has not arrived; it rests on the shape of the visit             *)
(* (RowsFollow), on what the news can be (NewsFits) and on who holds what   *)
(* (RunsHold).                                                              *)
(***************************************************************************)
EXTENDS Outbox, Announcements, SequenceTheorems, FiniteSetTheorems,
        WellFoundedInduction, TLAPS

(* A row that can still be claimed or noted has attempts left; an          *)
(* abandoned one has none.                                                 *)
AttemptsLeft ==
    /\ \A x \in Expiries :
         /\ row[x] \in {"none", "queued", "claimed"} => attempts[x] < MaxAttempts
         /\ row[x] = "dropped" => attempts[x] = MaxAttempts
    /\ \A e \in Events : event[e] \in {"none", "queued"} => tries[e] < MaxAttempts

(* Every attempt was a claim, and the claim in course is not charged yet.  *)
ClaimsCharged ==
    \A x \in Expiries :
        /\ attempts[x] <= claims[x]
        /\ row[x] = "claimed" => attempts[x] < claims[x]

(* A good answer means that the preference is expired. *)
AnswersTrue ==
    \A w \in Runs, x \in Expiries : answer[w][x] = "ok" => x \in dead

(* Two runs never hold the same claim. *)
ClaimsDistinct ==
    \A x \in Expiries :
        /\ \A w \in Runs : mine[w][x] <= claims[x]
        /\ \A w, v \in Runs :
             mine[w][x] # 0 /\ mine[w][x] = mine[v][x] => w = v

(* A mail in flight was taken, by one run, and has not arrived. *)
MailInFlight ==
    \A e \in Events :
        /\ event[e] \in {"none", "queued"} => mail[e] = "none"
        /\ mail[e] # "taken" => arrived[e] = 0
        /\ \A w \in Runs :
             e \in sending[w] => /\ mail[e] = "taken"
                                 /\ arrived[e] = 0
                                 /\ sending[w] = {e}
                                 /\ \A v \in Runs : e \in sending[v] => v = w

OutboxInv ==
    /\ TypeOK
    /\ AttemptsLeft
    /\ ClaimsCharged
    /\ AnswersTrue
    /\ ClaimsDistinct
    /\ DoneIsDead
    /\ MailInFlight
    /\ MailAtMostOnce

(* The invariant holds before anything is published. *)
LEMMA InitOutboxInv == Init => OutboxInv
BY OutboxAssumption
   DEF Init, OutboxInv, TypeOK, AttemptsLeft, ClaimsCharged, AnswersTrue,
       ClaimsDistinct, DoneIsDead, MailInFlight, MailAtMostOnce, RowStates,
       EventStates

(* The rows, answers and claims: what a step of the expiries preserves.    *)
ExpireInv ==
    /\ row \in [Expiries -> RowStates]
    /\ attempts \in [Expiries -> 0..MaxAttempts]
    /\ claims \in [Expiries -> Nat]
    /\ lease \in [Expiries -> {"running", "lapsed"}]
    /\ mine \in [Runs -> [Expiries -> Nat]]
    /\ answer \in [Runs -> [Expiries -> {"none", "ok", "fail"}]]
    /\ dead \subseteq Expiries
    /\ \A x \in Expiries :
         /\ row[x] \in {"none", "queued", "claimed"} => attempts[x] < MaxAttempts
         /\ row[x] = "dropped" => attempts[x] = MaxAttempts
    /\ ClaimsCharged
    /\ AnswersTrue
    /\ ClaimsDistinct
    /\ DoneIsDead

(* The events and mails. *)
MailInv ==
    /\ event \in [Events -> EventStates]
    /\ tries \in [Events -> 0..MaxAttempts]
    /\ mail \in [Events -> {"none", "queued", "taken"}]
    /\ sending \in [Runs -> SUBSET Events]
    /\ arrived \in [Events -> Nat]
    /\ \A e \in Events : event[e] \in {"none", "queued"} => tries[e] < MaxAttempts
    /\ MailInFlight
    /\ MailAtMostOnce

(* The invariant is the half of the expiries and the half of the mails. *)
LEMMA InvSplits == OutboxInv <=> ExpireInv /\ MailInv
BY DEF OutboxInv, ExpireInv, MailInv, TypeOK, AttemptsLeft

(* The two halves do not share state. *)
LEMMA ExpireFrame == ExpireInv /\ UNCHANGED expireVars => ExpireInv'
BY DEF ExpireInv, expireVars, ClaimsCharged, AnswersTrue, ClaimsDistinct,
       DoneIsDead

(* A step that leaves the mails alone preserves their half. *)
LEMMA MailFrame == MailInv /\ UNCHANGED mailVars => MailInv'
BY DEF MailInv, mailVars, MailInFlight, MailAtMostOnce

(* Every step that touches the expiries preserves their half. *)
LEMMA ClaimExpireInv ==
    ASSUME ExpireInv, NEW w \in Runs, NEW S \in SUBSET Expiries, Claim(w, S)
    PROVE  ExpireInv'
<1> USE OutboxAssumption
<1>1. row' \in [Expiries -> RowStates]
  BY DEF Claim, ExpireInv, ClaimOutcome, RowStates
<1>2. /\ attempts' \in [Expiries -> 0..MaxAttempts]
      /\ claims' \in [Expiries -> Nat]
      /\ lease' \in [Expiries -> {"running", "lapsed"}]
      /\ mine' \in [Runs -> [Expiries -> Nat]]
      /\ answer' = answer
      /\ dead' = dead
  BY DEF Claim, ExpireInv, ClaimOutcome, RowStates, Reclaimed, Lapsed
<1>3. \A x \in Expiries :
        /\ row'[x] \in {"none", "queued", "claimed"} => attempts'[x] < MaxAttempts
        /\ row'[x] = "dropped" => attempts'[x] = MaxAttempts
  BY DEF Claim, ExpireInv, ClaimOutcome, RowStates, Reclaimed, Lapsed, Queued,
         Takeable, Failed
<1>4. ClaimsCharged'
  BY DEF Claim, ExpireInv, ClaimOutcome, RowStates, Reclaimed, Lapsed, Queued,
         Takeable, Failed, ClaimsCharged
<1>5. ClaimsDistinct'
  BY DEF Claim, ExpireInv, ClaimsDistinct
<1>6. DoneIsDead'
  BY DEF Claim, ExpireInv, ClaimOutcome, DoneIsDead
<1>7. AnswersTrue'
  BY <1>2 DEF ExpireInv, AnswersTrue
<1> QED
  BY <1>1, <1>2, <1>3, <1>4, <1>5, <1>6, <1>7 DEF ExpireInv

(* A run notes a result only on a claim that is still its own. *)
LEMMA NoteExpireInv ==
    ASSUME ExpireInv, NEW w \in Runs, Note(w)
    PROVE  ExpireInv'
<1> USE OutboxAssumption
<1>1. /\ row' \in [Expiries -> RowStates]
      /\ claims' = claims
      /\ lease' = lease
      /\ dead' = dead
      /\ mine' \in [Runs -> [Expiries -> Nat]]
      /\ answer' \in [Runs -> [Expiries -> {"none", "ok", "fail"}]]
  BY DEF Note, ExpireInv, NoteOutcome, Failed, RowStates
<1>2. attempts' \in [Expiries -> 0..MaxAttempts]
  BY DEF Note, ExpireInv, StillMine
<1>3. \A x \in Expiries : StillMine(w, x) => answer[w][x] \in {"ok", "fail"}
  BY DEF Note, ExpireInv, StillMine
<1>4. \A x \in Expiries :
        /\ row'[x] \in {"none", "queued", "claimed"} => attempts'[x] < MaxAttempts
        /\ row'[x] = "dropped" => attempts'[x] = MaxAttempts
  <2> TAKE x \in Expiries
  <2>1. CASE ~StillMine(w, x)
    BY <2>1 DEF Note, ExpireInv
  <2>2. CASE StillMine(w, x) /\ answer[w][x] = "ok"
    BY <2>2 DEF Note, ExpireInv, NoteOutcome
  <2>3. CASE StillMine(w, x) /\ answer[w][x] = "fail"
    <3>1. row'[x] = Failed(attempts[x]) /\ attempts'[x] = attempts[x] + 1
      BY <2>3 DEF Note, ExpireInv, NoteOutcome
    <3>2. attempts[x] < MaxAttempts /\ attempts[x] \in Nat
      BY <2>3 DEF ExpireInv, StillMine
    <3> QED BY <3>1, <3>2 DEF Failed
  <2> QED BY <2>1, <2>2, <2>3, <1>3
<1>5. ClaimsCharged'
  BY <1>3 DEF Note, ExpireInv, NoteOutcome, Failed, StillMine, ClaimsCharged
<1>6. ClaimsDistinct'
  BY DEF Note, ExpireInv, ClaimsDistinct
<1>7. DoneIsDead'
  BY DEF Note, ExpireInv, NoteOutcome, Failed, DoneIsDead, AnswersTrue
<1>8. AnswersTrue'
  BY DEF Note, ExpireInv, AnswersTrue
<1> QED
  BY <1>1, <1>2, <1>4, <1>5, <1>6, <1>7, <1>8 DEF ExpireInv

(* The invariant is inductive. *)
LEMMA NextOutboxInv == OutboxInv /\ [Next]_vars => OutboxInv'
<1> DEFINE Goal == ExpireInv' /\ MailInv'
<1> USE OutboxAssumption
<1> SUFFICES ASSUME ExpireInv, MailInv, [Next]_vars PROVE Goal
  BY InvSplits, PTL
<1>1. ASSUME NEW x \in Expiries, PublishExpire(x) PROVE Goal
  <2>1. ExpireInv'
    BY <1>1 DEF PublishExpire, ExpireInv, RowStates, ClaimsCharged, AnswersTrue,
                ClaimsDistinct, DoneIsDead
  <2> QED BY <2>1, <1>1, MailFrame DEF PublishExpire
<1>2. ASSUME NEW x \in Expiries, Lapse(x) PROVE Goal
  <2>1. ExpireInv'
    BY <1>2 DEF Lapse, ExpireInv, ClaimsCharged, AnswersTrue, ClaimsDistinct,
                DoneIsDead
  <2> QED BY <2>1, <1>2, MailFrame DEF Lapse
<1>3. ASSUME NEW e \in Events, PublishEvent(e) PROVE Goal
  <2>1. MailInv'
    BY <1>3 DEF PublishEvent, MailInv, MailInFlight, MailAtMostOnce, EventStates
  <2> QED BY <2>1, <1>3, ExpireFrame DEF PublishEvent
<1>4. ASSUME NEW S \in SUBSET Events, NEW bad \in SUBSET Events,
             PlanBatch(S, bad)
      PROVE Goal
  <2>1. MailInv'
    BY <1>4 DEF PlanBatch, MailInv, MailInFlight, MailAtMostOnce, EventStates,
                Failed
  <2> QED BY <2>1, <1>4, ExpireFrame DEF PlanBatch
<1>5. ASSUME NEW w \in Runs, NEW S \in SUBSET Expiries, Claim(w, S) PROVE Goal
  BY <1>5, ClaimExpireInv, MailFrame DEF Claim
<1>6. ASSUME NEW w \in Runs, NEW x \in Expiries, CallOk(w, x) PROVE Goal
  <2>1. ExpireInv'
    BY <1>6 DEF CallOk, ExpireInv, ClaimsCharged, AnswersTrue, ClaimsDistinct,
                DoneIsDead
  <2> QED BY <2>1, <1>6, MailFrame DEF CallOk
<1>7. ASSUME NEW w \in Runs, NEW x \in Expiries, NEW reached \in BOOLEAN,
             CallFails(w, x, reached)
      PROVE Goal
  <2>0. dead' \in {dead, dead \cup {x}}
    BY <1>7 DEF CallFails
  <2>1. ExpireInv'
    BY <1>7, <2>0 DEF CallFails, ExpireInv, ClaimsCharged, AnswersTrue,
                ClaimsDistinct, DoneIsDead
  <2> QED BY <2>1, <1>7, MailFrame DEF CallFails
<1>8. ASSUME NEW w \in Runs, Note(w) PROVE Goal
  BY <1>8, NoteExpireInv, MailFrame DEF Note
<1>9. ASSUME NEW w \in Runs, NEW e \in Events, TakeMail(w, e) PROVE Goal
  <2>1. MailInv'
    BY <1>9 DEF TakeMail, MailInv, MailInFlight, MailAtMostOnce
  <2> QED BY <2>1, <1>9, ExpireFrame DEF TakeMail
<1>10. ASSUME NEW w \in Runs, NEW e \in Events, SendMail(w, e) PROVE Goal
  <2>1. MailInv'
    BY <1>10 DEF SendMail, MailInv, MailInFlight, MailAtMostOnce
  <2> QED BY <2>1, <1>10, ExpireFrame DEF SendMail
<1>11. ASSUME NEW w \in Runs, LoseMail(w) PROVE Goal
  <2>1. MailInv'
    BY <1>11 DEF LoseMail, MailInv, MailInFlight, MailAtMostOnce
  <2> QED BY <2>1, <1>11, ExpireFrame DEF LoseMail
<1>12. ASSUME NEW w \in Runs, Cut(w) PROVE Goal
  <2>1. ExpireInv'
    BY <1>12 DEF Cut, ExpireInv, ClaimsCharged, AnswersTrue, ClaimsDistinct,
                 DoneIsDead
  <2> QED BY <2>1, <1>12, MailFrame DEF Cut
<1>13. CASE UNCHANGED vars
  BY <1>13, ExpireFrame, MailFrame DEF vars
<1> HIDE DEF Goal
<1> QED
  BY <1>1, <1>2, <1>3, <1>4, <1>5, <1>6, <1>7, <1>8, <1>9, <1>10, <1>11,
     <1>12, <1>13
     DEF Next, ExpireStep, MailStep

(* A row is marked as processed only when its preference is expired, and   *)
(* abandoned only after MaxAttempts claims, for every number of runs.      *)
THEOREM ExpirySafe == Spec => [](DoneIsDead /\ GivesUpLate)
<1>1. OutboxInv => DoneIsDead /\ GivesUpLate
  BY OutboxAssumption
     DEF OutboxInv, GivesUpLate, ClaimsCharged, AttemptsLeft, TypeOK
<1> QED BY <1>1, InitOutboxInv, NextOutboxInv, PTL DEF Spec

(* No mail reaches the SMTP server twice, for every number of dispatches.  *)
THEOREM MailOnce == Spec => []MailAtMostOnce
<1>1. OutboxInv => MailAtMostOnce
  BY DEF OutboxInv
<1> QED BY <1>1, InitOutboxInv, NextOutboxInv, PTL DEF Spec

(* While a claim runs nobody else settles its row. *)
THEOREM ClaimsExclusive == Spec => ClaimIsExclusive
<1> DEFINE Keeps ==
      \A w \in Runs, x \in Expiries :
         (/\ row[x] = "claimed" /\ lease[x] = "running"
          /\ mine[w][x] = claims[x] /\ row'[x] # "claimed")
         => mine'[w][x] = 0
<1>1. OutboxInv /\ [Next]_vars => [Keeps]_vars
  <2> SUFFICES ASSUME OutboxInv, Next,
                      NEW w \in Runs, NEW x \in Expiries,
                      row[x] = "claimed", lease[x] = "running",
                      mine[w][x] = claims[x], row'[x] # "claimed"
               PROVE  mine'[w][x] = 0
    BY DEF Keeps
  <2>1. ASSUME NEW v \in Runs, Note(v) PROVE mine'[w][x] = 0
    <3>1. StillMine(v, x)
      BY <2>1 DEF Note, StillMine
    <3>2. v = w
      BY <3>1 DEF StillMine, OutboxInv, ClaimsDistinct
    <3> QED BY <2>1, <3>2 DEF Note, OutboxInv, TypeOK
  <2>2. ASSUME NEW v \in Runs, NEW S \in SUBSET Expiries, Claim(v, S)
        PROVE  FALSE
    BY <2>2 DEF Claim, Takeable, Lapsed, Queued
  <2>3. ASSUME NEW y \in Expiries, PublishExpire(y) PROVE FALSE
    BY <2>3 DEF PublishExpire, OutboxInv, TypeOK
  <2>4. row' = row \/ (\E v \in Runs : Note(v))
           \/ (\E v \in Runs, S \in SUBSET Expiries : Claim(v, S))
           \/ (\E y \in Expiries : PublishExpire(y))
    BY DEF Next, ExpireStep, MailStep, Lapse, PublishEvent, PlanBatch, CallOk,
           CallFails, TakeMail, SendMail, LoseMail, Cut, expireVars
  <2> QED BY <2>1, <2>2, <2>3, <2>4
<1> QED BY <1>1, InitOutboxInv, NextOutboxInv, PTL DEF Spec, ClaimIsExclusive

-----------------------------------------------------------------------------
(* What the batches make the client and the owner hear.                    *)

(* What a sequence holds, wherever it holds it. *)
Members(s) == {s[i] : i \in DOMAIN s}

(* A set of natural numbers that is not empty has a least element. *)
LEMMA Least ==
  ASSUME NEW T \in SUBSET Nat, T # {} PROVE \E x \in T : \A y \in T : x <= y
<1> DEFINE Below == OpToRel(<, Nat)
<1>1. \A x, y \in Nat : y < x => <<y, x>> \in Below
  BY DEF OpToRel
<1>2. IsWellFoundedOn(Below, Nat)
  BY NatLessThanWellFounded
<1> HIDE DEF Below
<1>3. PICK x \in T : \A y \in T : ~ (<<y, x>> \in Below)
  BY <1>2, WFMin
<1>4. ASSUME NEW y \in T PROVE x <= y
  <2>1. ~ (<<y, x>> \in Below)
    BY <1>3
  <2>2. x \in Nat /\ y \in Nat
    OBVIOUS
  <2>3. ~ (y < x)
    BY <1>1, <2>1, <2>2
  <2>4. QED
    BY <2>2, <2>3
<1>5. QED BY <1>4

(* f joins the sequences of ps, one after another, up to n. *)
JoinsUp(f, ps, S, n) ==
    /\ f \in [0..n -> Seq(S)]
    /\ f[0] = <<>>
    /\ \A i \in 1..n : f[i] = f[i - 1] \o ps[i]

(* There is such a function: the least length without one would have it. *)
LEMMA JoinExists ==
    ASSUME NEW S, NEW n \in Nat, NEW ps \in [1..n -> Seq(S)]
    PROVE  \E f : JoinsUp(f, ps, S, n)
<1> DEFINE Joins(k) == \E f : JoinsUp(f, ps, S, k)
           D == {k \in 0..n : ~ Joins(k)}
<1> HIDE DEF Joins
<1>1. SUFFICES ASSUME D # {} PROVE FALSE
  <2>1. n \in 0..n
    OBVIOUS
  <2>2. D = {} => Joins(n)
    BY <2>1
  <2>3. QED
    BY <2>2 DEF Joins
<1>2. D \in SUBSET Nat
  OBVIOUS
<1>3. PICK k \in D : \A y \in D : k <= y
  <2> HIDE DEF D
  <2>1. QED
    BY <1>1, <1>2, Least
<1>4. k # 0
  <2>1. JoinsUp([i \in 0..0 |-> <<>>], ps, S, 0)
    BY DEF JoinsUp
  <2>2. Joins(0)
    BY <2>1 DEF Joins
  <2>3. QED
    BY <2>2
<1>5. k - 1 \in 0..n /\ k - 1 \notin D /\ k \in 1..n
  <2>1. k \in 0..n
    OBVIOUS
  <2>2. k - 1 \in 0..n /\ k \in 1..n /\ ~ (k <= k - 1)
    BY <1>4, <2>1
  <2>3. QED
    BY <1>3, <2>2
<1>6. PICK f : JoinsUp(f, ps, S, k - 1)
  BY <1>5 DEF Joins
<1> DEFINE g == [i \in 0..k |-> IF i = k THEN f[k - 1] \o ps[k] ELSE f[i]]
<1>7. f[k - 1] \o ps[k] \in Seq(S)
  BY <1>5, <1>6, ConcatProperties DEF JoinsUp
<1>8. g \in [0..k -> Seq(S)]
  BY <1>5, <1>6, <1>7 DEF JoinsUp
<1>9. g[0] = <<>>
  BY <1>4, <1>5, <1>6 DEF JoinsUp
<1>10. ASSUME NEW i \in 1..k PROVE g[i] = g[i - 1] \o ps[i]
  <2>1. i - 1 \in 0..k /\ i - 1 # k /\ i \in 0..k
    BY <1>5
  <2>2. CASE i = k
    BY <2>1, <2>2
  <2>3. CASE i # k
    <3>1. i \in 1..(k - 1)
      BY <1>5, <2>3
    <3>2. f[i] = f[i - 1] \o ps[i]
      BY <1>6, <3>1 DEF JoinsUp
    <3>3. g[i] = f[i] /\ g[i - 1] = f[i - 1]
      BY <2>1, <2>3
    <3>4. QED
      BY <3>2, <3>3
  <2>4. QED
    BY <2>2, <2>3
<1>11. JoinsUp(g, ps, S, k)
  <2> HIDE DEF g
  <2>1. QED
    BY <1>8, <1>9, <1>10 DEF JoinsUp
<1>12. QED
  BY <1>11 DEF Joins

(* Joined is what such a function ends in. *)
LEMMA JoinedEnds ==
    ASSUME NEW S, NEW ps \in Seq(Seq(S))
    PROVE  \E f : JoinsUp(f, ps, S, Len(ps)) /\ Joined(ps) = f[Len(ps)]
<1> DEFINE n == Len(ps)
           Step(g) == [i \in 0..n |-> IF i = 0 THEN <<>> ELSE g[i - 1] \o ps[i]]
           join == CHOOSE g : g = Step(g)
<1>1. n \in Nat /\ ps \in [1..n -> Seq(S)]
  OBVIOUS
<1>2. PICK f : JoinsUp(f, ps, S, n)
  BY <1>1, JoinExists
<1>3. f = Step(f)
  BY <1>1, <1>2 DEF JoinsUp
<1>4. join = Step(join)
  BY <1>3
<1> HIDE DEF join
<1>5. join[0] = <<>> /\ \A i \in 1..n : join[i] = join[i - 1] \o ps[i]
  <2>1. 0 \in 0..n /\ \A i \in 1..n : i \in 0..n /\ i # 0
    BY <1>1
  <2>2. QED
    BY <1>4, <2>1
<1> DEFINE D == {k \in 0..n : join[k] # f[k]}
<1>6. D = {}
  <2>1. SUFFICES ASSUME D # {} PROVE FALSE
    OBVIOUS
  <2>2. D \in SUBSET Nat
    OBVIOUS
  <2>3. PICK k \in D : \A y \in D : k <= y
    <3> HIDE DEF D
    <3>1. QED
      BY <2>1, <2>2, Least
  <2>4. k # 0
    BY <1>2, <1>5 DEF JoinsUp
  <2>5. k \in 1..n /\ k - 1 \in 0..n /\ k - 1 \notin D
    BY <2>3, <2>4
  <2>6. join[k - 1] = f[k - 1]
    BY <2>5
  <2>7. join[k] = f[k]
    BY <1>2, <1>5, <2>5, <2>6 DEF JoinsUp
  <2>8. QED
    BY <2>7
<1>7. Joined(ps) = join[n]
  BY DEF Joined, join
<1>8. join[n] = f[n]
  BY <1>1, <1>6
<1>9. QED
  BY <1>2, <1>7, <1>8

(* What one sequence after another holds. *)
LEMMA ConcatMembers ==
    ASSUME NEW S, NEW s \in Seq(S), NEW t \in Seq(S)
    PROVE  /\ s \o t \in Seq(S)
           /\ Members(s \o t) = Members(s) \cup Members(t)
           /\ \A k \in DOMAIN s : (s \o t)[k] = s[k]
           /\ \A k \in DOMAIN (s \o t) \ DOMAIN s : k - Len(s) \in DOMAIN t /\ (s \o t)[k] = t[k - Len(s)]
<1>1. /\ s \o t \in Seq(S) /\ Len(s \o t) = Len(s) + Len(t)
      /\ \A i \in 1..Len(s) + Len(t) : (s \o t)[i] = IF i <= Len(s) THEN s[i] ELSE t[i - Len(s)]
  BY ConcatProperties
<1>2. /\ DOMAIN s = 1..Len(s) /\ DOMAIN t = 1..Len(t) /\ DOMAIN (s \o t) = 1..(Len(s) + Len(t))
      /\ Len(s) \in Nat /\ Len(t) \in Nat
  BY <1>1
<1>3. \A k \in DOMAIN s : (s \o t)[k] = s[k]
  BY <1>1, <1>2
<1>4. \A k \in DOMAIN (s \o t) \ DOMAIN s : k - Len(s) \in DOMAIN t /\ (s \o t)[k] = t[k - Len(s)]
  BY <1>1, <1>2
<1>5. \A k \in DOMAIN t : k + Len(s) \in DOMAIN (s \o t) /\ (s \o t)[k + Len(s)] = t[k]
  BY <1>1, <1>2
<1>6. Members(s \o t) \subseteq Members(s) \cup Members(t)
  BY <1>3, <1>4 DEF Members
<1>7. DOMAIN s \subseteq DOMAIN (s \o t)
  BY <1>2
<1>8. Members(s) \cup Members(t) \subseteq Members(s \o t)
  BY <1>3, <1>5, <1>7 DEF Members
<1>9. QED
  BY <1>1, <1>3, <1>4, <1>6, <1>8

(* What the joined sequences hold, and no more. *)
LEMMA JoinedMembers ==
    ASSUME NEW S, NEW ps \in Seq(Seq(S))
    PROVE  /\ Joined(ps) \in Seq(S)
           /\ Members(Joined(ps)) = UNION {Members(ps[i]) : i \in DOMAIN ps}
<1> DEFINE n == Len(ps)
<1>1. n \in Nat /\ DOMAIN ps = 1..n /\ \A i \in 1..n : ps[i] \in Seq(S)
  OBVIOUS
<1>2. PICK f : JoinsUp(f, ps, S, n) /\ Joined(ps) = f[n]
  BY JoinedEnds
<1> DEFINE D == {k \in 0..n : Members(f[k]) # UNION {Members(ps[i]) : i \in 1..k}}
<1> HIDE DEF n
<1>3. D = {}
  <2>1. SUFFICES ASSUME D # {} PROVE FALSE
    OBVIOUS
  <2>2. D \in SUBSET Nat
    BY <1>1
  <2>3. PICK k \in D : \A y \in D : k <= y
    <3> HIDE DEF D
    <3>1. QED
      BY <2>1, <2>2, Least
  <2>4. k # 0
    BY <1>2 DEF JoinsUp, Members
  <2>5. k \in 1..n /\ k - 1 \in 0..n /\ k - 1 \notin D
    <3>1. k \in 0..n
      OBVIOUS
    <3>2. k - 1 \in 0..n /\ k \in 1..n /\ ~ (k <= k - 1)
      BY <1>1, <2>4, <3>1
    <3> HIDE DEF D
    <3>3. QED
      BY <2>3, <3>2
  <2>6. Members(f[k - 1]) = UNION {Members(ps[i]) : i \in 1..(k - 1)}
    BY <2>5
  <2>7. f[k] = f[k - 1] \o ps[k] /\ f[k - 1] \in Seq(S) /\ ps[k] \in Seq(S)
    BY <1>1, <1>2, <2>5 DEF JoinsUp
  <2>8. Members(f[k]) = Members(f[k - 1]) \cup Members(ps[k])
    BY <2>7, ConcatMembers
  <2>9. 1..k = 1..(k - 1) \cup {k}
    BY <2>5
  <2>10. Members(f[k]) = UNION {Members(ps[i]) : i \in 1..k}
    BY <2>6, <2>8, <2>9
  <2>11. QED
    BY <2>10
<1>4. n \in 0..n
  BY <1>1
<1>5. QED
  BY <1>1, <1>2, <1>3, <1>4 DEF JoinsUp

(* If one sequence, of one member, has a member in P, the joined ones have it once. *)
LEMMA JoinedOnce ==
    ASSUME NEW S, NEW ps \in Seq(Seq(S)), NEW P,
           \A i \in DOMAIN ps : Len(ps[i]) <= 1,
           \A i, j \in DOMAIN ps : Members(ps[i]) \cap P # {} /\ Members(ps[j]) \cap P # {} => i = j
    PROVE  \A k, l \in DOMAIN Joined(ps) : Joined(ps)[k] \in P /\ Joined(ps)[l] \in P => k = l
<1> DEFINE n == Len(ps)
           Once(s) == \A k, l \in DOMAIN s : s[k] \in P /\ s[l] \in P => k = l
           None(k) == \A i \in 1..k : Members(ps[i]) \cap P = {}
<1>1. n \in Nat /\ DOMAIN ps = 1..n /\ \A i \in 1..n : ps[i] \in Seq(S)
  OBVIOUS
<1>2. PICK f : JoinsUp(f, ps, S, n) /\ Joined(ps) = f[n]
  BY JoinedEnds
<1> DEFINE D == {k \in 0..n : ~ (Once(f[k]) /\ (None(k) => Members(f[k]) \cap P = {}))}
<1> HIDE DEF n
<1>3. D = {}
  <2>1. SUFFICES ASSUME D # {} PROVE FALSE
    OBVIOUS
  <2>2. D \in SUBSET Nat
    BY <1>1
  <2>3. PICK k \in D : \A y \in D : k <= y
    <3> HIDE DEF D
    <3>1. QED
      BY <2>1, <2>2, Least
  <2>4. k # 0
    BY <1>2 DEF JoinsUp, Members
  <2>5. k \in 1..n /\ k - 1 \in 0..n /\ k - 1 \notin D
    <3>1. k \in 0..n
      OBVIOUS
    <3>2. k - 1 \in 0..n /\ k \in 1..n /\ ~ (k <= k - 1)
      BY <1>1, <2>4, <3>1
    <3> HIDE DEF D
    <3>3. QED
      BY <2>3, <3>2
  <2>6. Once(f[k - 1]) /\ (None(k - 1) => Members(f[k - 1]) \cap P = {})
    BY <2>5
  <2> DEFINE s == f[k - 1]
             t == ps[k]
  <2>7. f[k] = s \o t /\ s \in Seq(S) /\ t \in Seq(S)
    BY <1>1, <1>2, <2>5 DEF JoinsUp
  <2> HIDE DEF s
  <2> HIDE DEF t
  <2>8. /\ Members(f[k]) = Members(s) \cup Members(t)
        /\ \A a \in DOMAIN s : f[k][a] = s[a]
        /\ \A a \in DOMAIN f[k] \ DOMAIN s : a - Len(s) \in DOMAIN t /\ f[k][a] = t[a - Len(s)]
    <3>1. /\ Members(s \o t) = Members(s) \cup Members(t)
          /\ \A a \in DOMAIN s : (s \o t)[a] = s[a]
          /\ \A a \in DOMAIN (s \o t) \ DOMAIN s :
                a - Len(s) \in DOMAIN t /\ (s \o t)[a] = t[a - Len(s)]
      BY <2>7, ConcatMembers
    <3>2. QED
      BY <2>7, <3>1
  <2>9. 1..k = 1..(k - 1) \cup {k} /\ k \notin 1..(k - 1)
    BY <2>5
  <2>10. None(k) => Members(f[k]) \cap P = {}
    BY <2>6, <2>8, <2>9 DEF s, t
  <2>11. Once(f[k])
    <3>1. SUFFICES ASSUME NEW a \in DOMAIN f[k], NEW b \in DOMAIN f[k], f[k][a] \in P, f[k][b] \in P
                   PROVE  a = b
      OBVIOUS
    <3>2. CASE a \in DOMAIN s /\ b \in DOMAIN s
      BY <2>6, <2>8, <3>1, <3>2 DEF s
    <3>3. CASE a \notin DOMAIN s /\ b \notin DOMAIN s
      <4>1. a - Len(s) \in DOMAIN t /\ b - Len(s) \in DOMAIN t
        BY <2>8, <3>3
      <4>2. DOMAIN t = 1..Len(t) /\ Len(t) <= 1 /\ Len(t) \in Nat /\ Len(s) \in Nat
        BY <1>1, <2>5, <2>7 DEF t
      <4>3. DOMAIN f[k] = 1..Len(f[k]) /\ Len(f[k]) \in Nat
        BY <2>7, ConcatMembers
      <4>4. QED
        BY <4>1, <4>2, <4>3
    <3>4. CASE \/ a \in DOMAIN s /\ b \notin DOMAIN s
               \/ b \in DOMAIN s /\ a \notin DOMAIN s
      <4>1. Members(t) \cap P # {} /\ Members(s) \cap P # {}
        BY <2>8, <3>1, <3>4 DEF Members
      <4>2. ~ None(k - 1)
        BY <2>6, <4>1 DEF s
      <4>3. PICK i \in 1..(k - 1) : Members(ps[i]) \cap P # {}
        BY <4>2
      <4>4. i \in 1..n /\ i # k
        BY <1>1, <2>5
      <4>5. QED
        BY <1>1, <2>5, <4>1, <4>3, <4>4 DEF t
    <3>5. QED
      BY <3>2, <3>3, <3>4
  <2>12. QED
    BY <2>10, <2>11
<1>4. n \in 0..n
  BY <1>1
<1>5. QED
  BY <1>2, <1>3, <1>4

(* What an event of the outbox says of the visit, while it is pending. *)
Known(e) ==
    IF e.row = 0 THEN e.kind \notin ClientEvents
    ELSE /\ turn[e.row] # "none"
         /\ e.kind = "cancelled_by_block" =>
              /\ turn[e.row] = "cancelled"
              /\ \A q \in TurnRows : e.row < q => turn[q] = "none"

(* A row follows another that was moved. *)
Chained == \A q, r \in TurnRows : q < r /\ turn[r] # "none" => turn[q] = "cancelled"
RowsFollow == Chained /\ \A i \in DOMAIN events : Known(events[i])

(* The news is about the last row of the visit, and fits its state. *)
NewsFits ==
    news # NoNews =>
        /\ \A q \in TurnRows : news.row < q => turn[q] = "none"
        /\ news.mail # "rebook"
        /\ IF news.mail = "cancellation" THEN turn[news.row] = "cancelled"
           ELSE turn[news.row] \in OpenTurn

(* Only a run that plans has events locked, only one that mails has a letter. *)
RunsHold ==
    /\ \A i \in DOMAIN events : events[i].by # "none" => batch[events[i].by].at = "planning"
    /\ \A d \in Dispatchers : batch[d].at # "mailing" => batch[d].letter = NoNews
    /\ ~ crossed => \A d \in Dispatchers : Busy(d) => ~ Busy(Other(d))

(* An event that would make a mail now, and a mail that says what is so. *)
Carries(e) == PlannedMails(BatchContext, e) # {}
IsNews(m) == Belief(m) = Belief(news)
InHand == {d \in Dispatchers : batch[d].letter # NoNews}
LastIsNews ==
    IF letters # <<>> THEN IsNews(letters[Len(letters)])
    ELSE IF InHand # {} THEN \E d \in InHand : IsNews(batch[d].letter)
    ELSE IsNews(heard)

(* When the client is to know the news; where it is until then: in an event nobody took, or,
   since every plan in course sees the visit as it is, in any event, in the last letter or in
   the last mail. *)
Expected == mailbox /\ ~ missed /\ ~ crossed /\ news # NoNews
PlansSeeNow == \A d \in Dispatchers : batch[d].at = "planning" => batch[d].seen = turn
NewsOnItsWay ==
    Expected =>
        \/ \E i \in DOMAIN events : events[i].by = "none" /\ Carries(events[i])
        \/ /\ PlansSeeNow
           /\ (\E i \in DOMAIN events : Carries(events[i])) \/ LastIsNews

(* The owner's event is pending once, untold; or he was told, or it was lost. *)
OwnerHolds ==
    /\ \A i, j \in DOMAIN events : events[i].row = 0 /\ events[j].row = 0 => i = j
    /\ \A i \in DOMAIN events : events[i].row = 0 =>
          /\ bell.of # NoOwnerEvent /\ bell.times = 0
          /\ events[i].kind = bell.of.kind /\ events[i].detail = bell.of.detail
    /\ OwnerIsTold

(* The inductive invariant. *)
AnnouncementsInv ==
    AnnouncementsTypeOK /\ RowsFollow /\ NewsFits /\ RunsHold /\ NewsOnItsWay /\ OwnerHolds

-----------------------------------------------------------------------------
(* The rows are numbers, and there is one. *)
LEMMA RowsAre == TurnRows \subseteq Nat /\ 1 \in TurnRows
BY AnnouncementBounds DEF TurnRows

(* What an event makes is about its row, and is a mail. *)
LEMMA PlansAre ==
    ASSUME NEW e \in EventRows, NEW b, b.seen \in [TurnRows -> TurnStates],
           e.row = 0 => e.kind \notin ClientEvents
    PROVE  /\ PlannedMails(b, e) \subseteq Letters
           /\ \A m \in PlannedMails(b, e) : 
                /\ e.row \in TurnRows /\ m.row = e.row
                /\ m.mail = "cancellation" <=> e.kind = "cancelled_by_block"
                /\ e.kind # "cancelled_by_block" => b.seen[e.row] \in OpenTurn \cup {"completed"}
                /\ e.kind \notin {"cancelled_by_block", "completed"} => b.seen[e.row] \in OpenTurn
           /\ \A m, n \in PlannedMails(b, e) : m = n
           /\ e.kind = "completed" /\ b.seen[e.row] # "completed" => PlannedMails(b, e) = {}
<1>1. e.row \in 0..MaxMoves /\ (e.row # 0 => e.row \in TurnRows)
  BY AnnouncementBounds DEF EventRows, TurnRows
<1>2. CASE e.kind = "cancelled_by_block"
  <2>1. PlannedMails(b, e) = {[mail |-> "cancellation", row |-> e.row]}
    BY <1>2 DEF PlannedMails, ClientDetails
  <2>2. e.row \in TurnRows
    BY <1>1, <1>2 DEF ClientEvents
  <2>3. QED
    BY <1>2, <2>1, <2>2 DEF Letters
<1>3. CASE e.kind \in ClientEvents \ {"cancelled_by_block"}
  <2>1. PlannedMails(b, e) = PanelClientMail(b, e)
    BY <1>3 DEF PlannedMails, ClientEvents
  <2>2. e.row \in TurnRows
    BY <1>1, <1>3
  <2>3. e.kind \in {"booked_by_panel", "confirmed", "completed", "rescheduled"}
    BY <1>3 DEF ClientEvents
  <2>4. /\ PanelMail(e.kind).mail \in {"confirmation", "rebook", "reschedule"}
        /\ e.kind = "completed" => PanelMail(e.kind).while = {"completed"}
        /\ e.kind # "completed" => PanelMail(e.kind).while \subseteq OpenTurn
    BY <2>3 DEF PanelMail, OpenTurn
  <2>5. PanelClientMail(b, e) \subseteq {[mail |-> PanelMail(e.kind).mail, row |-> e.row]}
    BY DEF PanelClientMail, ClientDetails
  <2>6. PanelClientMail(b, e) # {} => b.seen[e.row] \in PanelMail(e.kind).while
    BY DEF PanelClientMail
  <2>7. \A m \in PanelClientMail(b, e) : m = [mail |-> PanelMail(e.kind).mail, row |-> e.row]
    BY <2>5
  <2>8. [mail |-> PanelMail(e.kind).mail, row |-> e.row] \in Letters
    BY <2>2, <2>4 DEF Letters
  <2>9. PanelMail(e.kind).mail # "cancellation"
    BY <2>4
  <2>10. QED
    BY <1>3, <2>1, <2>2, <2>4, <2>6, <2>7, <2>8, <2>9
<1>4. CASE e.kind = "payment.approved"
  <2>1. PlannedMails(b, e) = ClientConfirmation(b, e)
    BY <1>4 DEF PlannedMails, ClientEvents
  <2>2. \A m \in ClientConfirmation(b, e) :
          m = [mail |-> "confirmation", row |-> e.row] /\ e.row # 0 /\ b.seen[e.row] = "confirmed"
    BY DEF ClientConfirmation, ClientDetails
  <2>3. QED
    BY <1>1, <1>4, <2>1, <2>2 DEF Letters, OpenTurn
<1>5. CASE e.kind \notin ClientEvents \cup {"payment.approved"}
  <2>1. PlannedMails(b, e) = {}
    BY <1>5 DEF PlannedMails, ClientEvents
  <2>2. QED
    BY <2>1
<1>6. QED
  BY <1>2, <1>3, <1>4, <1>5

(* What is planned with the visit as it stands says what the client should know. *)
LEMMA NowIsNews ==
    ASSUME AnnouncementsTypeOK, Chained, NewsFits, news # NoNews,
           NEW e \in EventRows, Known(e),
           NEW b, b.seen = turn
    PROVE  \A m \in PlannedMails(b, e) : IsNews(m)
<1>1. news \in Letters /\ turn \in [TurnRows -> TurnStates] /\ news.row \in TurnRows
  BY DEF AnnouncementsTypeOK, Letters
<1> SUFFICES ASSUME NEW m \in PlannedMails(b, e) PROVE IsNews(m)
  OBVIOUS
<1>2. /\ e.row \in TurnRows /\ m.row = e.row
      /\ m.mail = "cancellation" <=> e.kind = "cancelled_by_block"
      /\ e.kind # "cancelled_by_block" => turn[e.row] \in OpenTurn \cup {"completed"}
  BY <1>1, PlansAre DEF Known
<1>3. e.row # 0 /\ turn[e.row] # "none" /\ TurnRows \subseteq Nat
  BY <1>2, RowsAre DEF TurnRows, Known
<1>4. ~ (news.row < e.row)
  BY <1>1, <1>2, <1>3 DEF NewsFits
<1>5. turn[news.row] # "none" /\ turn[news.row] # "completed"
  BY DEF NewsFits, OpenTurn
<1>6. ~ (e.row < news.row)
  <2>1. CASE e.kind = "cancelled_by_block"
    BY <1>1, <1>3, <1>5, <2>1 DEF Known
  <2>2. CASE e.kind # "cancelled_by_block"
    BY <1>1, <1>2, <1>5, <2>2 DEF Chained, OpenTurn
  <2>3. QED
    BY <2>1, <2>2
<1>7. e.row = news.row
  <2>1. e.row \in Nat /\ news.row \in Nat
    BY <1>1, <1>2, <1>3
  <2>2. \A x, y \in Nat : ~ (x < y) /\ ~ (y < x) => x = y
    OBVIOUS
  <2>3. QED
    BY <1>4, <1>6, <2>1, <2>2
<1>8. e.kind = "cancelled_by_block" <=> news.mail = "cancellation"
  <2>1. e.kind = "cancelled_by_block" => turn[e.row] = "cancelled"
    BY <1>3 DEF Known
  <2>2. QED
    BY <1>2, <1>7, <2>1 DEF NewsFits, OpenTurn
<1>9. QED
  BY <1>2, <1>7, <1>8 DEF IsNews, Belief

(* While there is news, an opt-out withholds nothing. *)
LEMMA OptOutIsSilent ==
    ASSUME AnnouncementsTypeOK, Chained, NewsFits, news # NoNews,
           NEW e \in EventRows, Known(e),
           NEW b, b.seen = turn, NEW c, c.seen = turn
    PROVE  PlannedMails(b, e) = PlannedMails(c, e)
<1>1. news \in Letters /\ turn \in [TurnRows -> TurnStates] /\ news.row \in TurnRows
  BY DEF AnnouncementsTypeOK, Letters
<1>2. CASE e.kind = "completed"
  <2>1. e.row \in TurnRows /\ e.row \in Nat
    BY <1>2, AnnouncementBounds DEF Known, ClientEvents, EventRows, TurnRows
  <2>2. turn[e.row] # "completed"
    <3>1. SUFFICES ASSUME turn[e.row] = "completed" PROVE FALSE
      OBVIOUS
    <3>2. turn[news.row] # "none" /\ turn[news.row] # "completed"
      BY DEF NewsFits, OpenTurn
    <3>3. ~ (e.row < news.row)
      BY <1>1, <2>1, <3>1, <3>2 DEF Chained
    <3>4. ~ (news.row < e.row)
      BY <1>1, <2>1, <3>1 DEF NewsFits
    <3>5. news.row = e.row
      <4>1. news.row \in Nat
        BY <1>1, RowsAre
      <4>2. \A x, y \in Nat : ~ (x < y) /\ ~ (y < x) => x = y
        OBVIOUS
      <4>3. QED
        BY <2>1, <3>3, <3>4, <4>1, <4>2
    <3>6. QED
      BY <3>1, <3>2, <3>5
  <2>3. PlannedMails(b, e) = {} /\ PlannedMails(c, e) = {}
    <3>1. e.row = 0 => e.kind \notin ClientEvents
      BY DEF Known
    <3>2. QED
      BY <1>1, <1>2, <2>2, <3>1, PlansAre
  <2>4. QED
    BY <2>3
<1>3. CASE e.kind # "completed"
  <2>1. ClientConfirmation(b, e) = ClientConfirmation(c, e)
    BY DEF ClientConfirmation
  <2>2. e.kind \in ClientEvents \ {"cancelled_by_block"} => PanelClientMail(b, e) = PanelClientMail(c, e)
    <3>1. SUFFICES ASSUME e.kind \in {"booked_by_panel", "confirmed", "rescheduled"}
                   PROVE  PanelClientMail(b, e) = PanelClientMail(c, e)
      BY <1>3 DEF ClientEvents
    <3>2. PanelMail(e.kind).mail # "rebook"
      BY <3>1 DEF PanelMail
    <3>3. QED
      BY <3>2 DEF PanelClientMail
  <2>3. QED
    BY <2>1, <2>2 DEF PlannedMails
<1>4. QED
  BY <1>2, <1>3

(* The owner's event is a row of the outbox. *)
LEMMA OwnerEventsAreRows ==
    \A e \in OwnerEvents : FromOwner(e) \in EventRows /\ FromOwner(e).kind \notin ClientEvents
<1> SUFFICES ASSUME NEW e \in OwnerEvents
             PROVE  FromOwner(e) \in EventRows /\ FromOwner(e).kind \notin ClientEvents
  OBVIOUS
<1>1. e \in OwnerEventKinds
  BY OwnerEventsAssumption
<1>2. e.kind \in {x.kind : x \in OwnerEventKinds} /\ e.detail \in {x.detail : x \in OwnerEventKinds}
  BY <1>1
<1>3. 0 \in 0..(MaxPlanTries - 1) /\ 0 \in 0..MaxMoves
  BY AnnouncementBounds
<1>4. e.kind \notin ClientEvents
  BY <1>1 DEF OwnerEventKinds, ClientEvents
<1>5. QED
  BY <1>2, <1>3, <1>4 DEF FromOwner, EventRows

(* So is an event about the visit. *)
LEMMA EventIsRow ==
    ASSUME NEW r \in TurnRows,
           NEW kind \in ClientEvents \cup {"appointment.released", "payment.approved"}
    PROVE  /\ Event(kind, r) \in EventRows
           /\ Event(kind, r).row = r /\ Event(kind, r).kind = kind /\ Event(kind, r).by = "none"
           /\ r # 0
<1>1. r \in 0..MaxMoves /\ r # 0
  BY AnnouncementBounds DEF TurnRows
<1>2. 0 \in 0..(MaxPlanTries - 1)
  BY AnnouncementBounds
<1>3. /\ [kind |-> "payment.approved", detail |-> "none"] \in OwnerEventKinds
      /\ [kind |-> "payment.approved", detail |-> "none"].kind = "payment.approved"
      /\ [kind |-> "payment.approved", detail |-> "none"].detail = "none"
  BY DEF OwnerEventKinds
<1>4. "payment.approved" \in {x.kind : x \in OwnerEventKinds} /\ "none" \in {x.detail : x \in OwnerEventKinds}
  BY <1>3
<1>5. QED
  BY <1>1, <1>2, <1>4 DEF Event, EventRows

(* Publishing leaves the runs and the letters alone. *)
LEMMA PublishStep ==
    ASSUME AnnouncementsInv,
           NEW es \in Seq(EventRows), NEW told \in Letters \cup {NoNews},
           Publish(es, told),
           turn' \in [TurnRows -> TurnStates], begun' \subseteq TurnRows,
           RowsFollow', NewsFits',
           \A i \in DOMAIN es : es[i].row # 0 /\ es[i].by = "none",
           told # NoNews => \E i \in DOMAIN es : Carries(es[i])'
    PROVE  AnnouncementsInv'
<1>1. /\ events \in Seq(EventRows) /\ es \in Seq(EventRows)
      /\ events' = events \o es
  BY DEF AnnouncementsInv, AnnouncementsTypeOK, Publish
<1>2. /\ events' \in Seq(EventRows) /\ Len(events') = Len(events) + Len(es)
      /\ DOMAIN events' = 1..Len(events') /\ DOMAIN events = 1..Len(events)
      /\ DOMAIN es = 1..Len(es)
      /\ Len(events) \in Nat /\ Len(es) \in Nat
      /\ \A i \in DOMAIN events : i \in DOMAIN events' /\ events'[i] = events[i]
      /\ \A i \in DOMAIN es : i + Len(events) \in DOMAIN events' /\ events'[i + Len(events)] = es[i]
      /\ \A i \in DOMAIN events' \ DOMAIN events : i - Len(events) \in DOMAIN es /\ events'[i] = es[i - Len(events)]
  BY <1>1, ConcatProperties
<1>3. /\ news' = told
      /\ UNCHANGED <<letters, batch, heard, missed, crossed, optedOut, autoMails, mpBroken,
                     mailbox, faults, bell>>
  BY DEF Publish, visitVars
<1>4. AnnouncementsTypeOK'
  BY <1>2, <1>3 DEF AnnouncementsInv, AnnouncementsTypeOK
<1>5. RunsHold'
  <2>1. \A i \in DOMAIN events' : events'[i].by # "none" => batch'[events'[i].by].at = "planning"
    BY <1>2, <1>3 DEF AnnouncementsInv, RunsHold
  <2>2. \A d \in Dispatchers : batch'[d].at # "mailing" => batch'[d].letter = NoNews
    BY <1>3 DEF AnnouncementsInv, RunsHold
  <2>3. ~ crossed' => \A d \in Dispatchers : Busy(d)' => ~ Busy(Other(d))'
    BY <1>3 DEF AnnouncementsInv, RunsHold, Busy
  <2>4. QED
    BY <2>1, <2>2, <2>3 DEF RunsHold, Other
<1>6. NewsOnItsWay'
  <2>1. SUFFICES ASSUME Expected'
                 PROVE  (\E i \in DOMAIN events : events[i].by = "none" /\ Carries(events[i]))'
    BY DEF NewsOnItsWay
  <2>2. PICK i \in DOMAIN es : Carries(es[i])'
    BY <1>3, <2>1 DEF Expected
  <2>3. i + Len(events) \in DOMAIN events' /\ events'[i + Len(events)] = es[i] /\ es[i].by = "none"
    BY <1>2
  <2>4. Carries(es[i])' = (PlannedMails(BatchContext, es[i])' # {})
    BY DEF Carries
  <2>5. QED
    BY <2>2, <2>3 DEF Carries
<1>7. OwnerHolds'
  <2>1. \A i \in DOMAIN events' : events'[i].row = 0 => i \in DOMAIN events /\ events'[i] = events[i]
    BY <1>2
  <2>2. \A i, j \in DOMAIN events' : events'[i].row = 0 /\ events'[j].row = 0 => i = j
    BY <2>1 DEF AnnouncementsInv, OwnerHolds
  <2>3. \A i \in DOMAIN events' : events'[i].row = 0 =>
          /\ bell'.of # NoOwnerEvent /\ bell'.times = 0
          /\ events'[i].kind = bell'.of.kind /\ events'[i].detail = bell'.of.detail
    BY <1>3, <2>1 DEF AnnouncementsInv, OwnerHolds
  <2>4. OwnerIsTold'
    BY <1>2, <1>3 DEF AnnouncementsInv, OwnerHolds, OwnerIsTold
  <2>5. QED
    BY <2>2, <2>3, <2>4 DEF OwnerHolds
<1>8. QED
  BY <1>4, <1>5, <1>6, <1>7 DEF AnnouncementsInv

(* A step changes the last row of the visit, or writes its first. *)
Last(r) ==
    /\ \A q \in TurnRows : r < q => turn[q] = "none"
    /\ \A q \in TurnRows : q < r => turn[q] = "cancelled"

(* The current row, while it is open, and the first one, are the last. *)
LEMMA CurrentIsLast ==
    ASSUME AnnouncementsTypeOK, Chained, NEW r \in TurnRows, Current(r), turn[r] \in OpenTurn
    PROVE  Last(r)
<1>1. turn[r] # "none" /\ turn[r] # "cancelled" /\ r \in Nat
  BY RowsAre DEF OpenTurn
<1>2. \A q \in TurnRows : q \in Nat
  BY RowsAre
<1>3. QED
  BY <1>1, <1>2 DEF Last, Chained

LEMMA FirstIsLast ==
    ASSUME AnnouncementsTypeOK, Chained, turn[1] = "none"
    PROVE  Last(1)
<1>1. \A q \in TurnRows : q \in Nat /\ ~ (q < 1)
  BY DEF TurnRows
<1>2. QED
  BY <1>1, RowsAre DEF Last, Chained

(* No event that is pending says that a cancelled visit stays cancelled: it does not. *)
LEMMA TurnStep ==
    ASSUME AnnouncementsTypeOK, RowsFollow, NEW r \in TurnRows, Last(r),
           turn[r] \in OpenTurn \/ (r = 1 /\ turn[1] = "none"),
           turn' \in [TurnRows -> TurnStates],
           turn'[r] # "none",
           \A q \in TurnRows : q < r => turn'[q] = turn[q],
           \A q \in TurnRows : r < q /\ turn'[q] # "none" => q = r + 1 /\ turn'[r] = "cancelled"
    PROVE  /\ Chained'
           /\ \A e \in Members(events) : Known(e)'
           /\ \A i \in DOMAIN events : events[i].row # 0 => events[i].kind # "cancelled_by_block"
<1>1. r \in Nat /\ (\A q \in TurnRows : q \in Nat) /\ \A i \in DOMAIN events : events[i] \in EventRows
  BY RowsAre DEF AnnouncementsTypeOK
<1>2. Chained'
  <2>1. SUFFICES ASSUME NEW q \in TurnRows, NEW p \in TurnRows, q < p, turn'[p] # "none"
                 PROVE  turn'[q] = "cancelled"
    BY DEF Chained
  <2>2. CASE q < r
    BY <2>2 DEF Last
  <2>3. CASE q = r
    BY <2>1, <2>3
  <2>4. CASE r < q
    <3>1. r < p
      BY <1>1, <2>1, <2>4
    <3>2. p = r + 1
      BY <2>1, <3>1
    <3>3. QED
      BY <1>1, <2>1, <2>4, <3>2
  <2>5. QED
    BY <1>1, <2>2, <2>3, <2>4
<1>3. ASSUME NEW i \in DOMAIN events, events[i].row # 0
      PROVE  turn[events[i].row] # "none" /\ events[i].row \in TurnRows /\ events[i].kind # "cancelled_by_block"
             /\ turn'[events[i].row] # "none"
  <2> DEFINE p == events[i].row
  <2>1. Known(events[i]) /\ events[i] \in EventRows
    BY <1>1 DEF RowsFollow
  <2>2. p \in TurnRows
    BY <1>3, <2>1, AnnouncementBounds DEF EventRows, TurnRows
  <2>3. turn[p] # "none"
    BY <1>3, <2>1 DEF Known
  <2>4. ~ (r < p)
    BY <2>2, <2>3 DEF Last
  <2>5. turn[r] \in OpenTurn
    <3>1. SUFFICES ASSUME r = 1, turn[1] = "none" PROVE FALSE
      OBVIOUS
    <3>2. \A q \in TurnRows : q = 1 \/ 1 < q
      BY DEF TurnRows
    <3>3. QED
      BY <2>2, <2>3, <2>4, <3>1, <3>2
  <2>6. events[i].kind # "cancelled_by_block"
    <3>1. SUFFICES ASSUME events[i].kind = "cancelled_by_block" PROVE FALSE
      OBVIOUS
    <3>2. turn[p] = "cancelled" /\ \A q \in TurnRows : p < q => turn[q] = "none"
      BY <1>3, <2>1, <3>1 DEF Known
    <3>3. ~ (p < r)
      BY <2>5, <3>2 DEF OpenTurn
    <3>4. p = r
      <4>1. p \in Nat
        BY <1>1, <2>2
      <4>2. \A x, y \in Nat : ~ (x < y) /\ ~ (y < x) => x = y
        OBVIOUS
      <4>3. QED
        BY <1>1, <2>4, <3>3, <4>1, <4>2
    <3>5. QED
      BY <2>5, <3>2, <3>4 DEF OpenTurn
  <2>7. turn'[p] # "none"
    <3>1. CASE p < r
      BY <2>2, <2>3, <3>1
    <3>2. CASE p = r
      BY <3>2
    <3>3. p < r \/ p = r
      <4>1. p \in Nat
        BY <1>1, <2>2
      <4>2. \A x, y \in Nat : ~ (x < y) => y < x \/ y = x
        OBVIOUS
      <4>3. QED
        BY <1>1, <2>4, <4>1, <4>2
    <3>4. QED
      BY <3>1, <3>2, <3>3
  <2>8. QED
    BY <2>2, <2>3, <2>6, <2>7
<1>4. ASSUME NEW e \in Members(events) PROVE Known(e)'
  <2>1. PICK i \in DOMAIN events : events[i] = e
    BY DEF Members
  <2>2. Known(e)
    BY <2>1 DEF RowsFollow
  <2>3. e.row # 0 => turn'[e.row] # "none" /\ e.kind # "cancelled_by_block"
    BY <1>3, <2>1
  <2>4. QED
    BY <2>2, <2>3 DEF Known
<1>5. QED
  BY <1>2, <1>3, <1>4

(* The new event makes its mail as soon as it is published. *)
LEMMA NewEventCarries ==
    ASSUME NEW p \in TurnRows, NEW kind,
           \/ kind \in {"booked_by_panel", "rescheduled"} /\ turn'[p] \in OpenTurn
           \/ kind \in {"confirmed", "payment.approved"} /\ turn'[p] = "confirmed"
           \/ kind = "cancelled_by_block"
    PROVE  Carries(Event(kind, p))'
<1> DEFINE e == Event(kind, p)
<1>1. e.kind = kind /\ e.row = p /\ BatchContext'.seen = turn' /\ p # 0
  BY RowsAre DEF Event, BatchContext, TurnRows
<1> HIDE DEF e
<1>2. CASE kind \in {"booked_by_panel", "rescheduled", "confirmed"}
  <2>1. PlannedMails(BatchContext, e)' = PanelClientMail(BatchContext, e)'
    BY <1>1, <1>2 DEF PlannedMails, ClientEvents
  <2>2. turn'[p] \in PanelMail(kind).while /\ PanelMail(kind).mail # "rebook"
    BY <1>2 DEF PanelMail, OpenTurn
  <2>3. PanelClientMail(BatchContext, e)' # {}
    BY <1>1, <2>2 DEF PanelClientMail
  <2>4. QED
    BY <2>1, <2>3 DEF Carries, e
<1>3. CASE kind = "payment.approved"
  <2>1. PlannedMails(BatchContext, e)' = ClientConfirmation(BatchContext, e)'
    BY <1>1, <1>3 DEF PlannedMails, ClientEvents
  <2>2. ClientConfirmation(BatchContext, e)' # {}
    BY <1>1, <1>3 DEF ClientConfirmation
  <2>3. QED
    BY <2>1, <2>2 DEF Carries, e
<1>4. CASE kind = "cancelled_by_block"
  <2>1. PlannedMails(BatchContext, e)' # {}
    BY <1>1, <1>4 DEF PlannedMails
  <2>2. QED
    BY <2>1 DEF Carries, e
<1>5. QED
  BY <1>2, <1>3, <1>4

(* A change of the last row of the visit that publishes nothing. *)
LEMMA TurnSilent ==
    ASSUME AnnouncementsInv, NEW r \in TurnRows, Last(r),
           turn[r] \in OpenTurn \/ (r = 1 /\ turn[1] = "none"),
           turn' \in [TurnRows -> TurnStates], begun' \subseteq TurnRows,
           turn'[r] # "none",
           \A q \in TurnRows : q < r => turn'[q] = turn[q],
           \A q \in TurnRows : r < q /\ turn'[q] # "none" => q = r + 1 /\ turn'[r] = "cancelled",
           Publish(<<>>, NoNews)
    PROVE  AnnouncementsInv'
<1>1. AnnouncementsTypeOK /\ RowsFollow
  BY DEF AnnouncementsInv
<1>2. Chained' /\ \A e \in Members(events) : Known(e)'
  BY <1>1, TurnStep
<1>3. events' = events /\ news' = NoNews
  BY <1>1 DEF AnnouncementsTypeOK, Publish
<1>4. RowsFollow'
  BY <1>2, <1>3 DEF RowsFollow, Members
<1>5. NewsFits'
  BY <1>3 DEF NewsFits
<1>6. <<>> \in Seq(EventRows) /\ DOMAIN <<>> = {}
  OBVIOUS
<1>7. QED
  BY <1>4, <1>5, <1>6, PublishStep

(* One that publishes an event, about the last row there is then. *)
LEMMA TurnTold ==
    ASSUME AnnouncementsInv, NEW r \in TurnRows, Last(r),
           turn[r] \in OpenTurn \/ (r = 1 /\ turn[1] = "none"),
           turn' \in [TurnRows -> TurnStates], begun' \subseteq TurnRows,
           turn'[r] # "none",
           \A q \in TurnRows : q < r => turn'[q] = turn[q],
           \A q \in TurnRows : r < q /\ turn'[q] # "none" => q = r + 1 /\ turn'[r] = "cancelled",
           NEW p \in TurnRows, turn'[p] # "none",
           \A q \in TurnRows : p < q => turn'[q] = "none",
           NEW kind \in ClientEvents \cup {"appointment.released", "payment.approved"},
           kind = "cancelled_by_block" => turn'[p] = "cancelled",
           NEW told,
           \/ told = NoNews
           \/ /\ told \in Letters /\ told.row = p /\ Carries(Event(kind, p))'
              /\ \/ told.mail = "cancellation" /\ turn'[p] = "cancelled"
                 \/ told.mail \in {"confirmation", "reschedule"} /\ turn'[p] \in OpenTurn,
           Publish(<<Event(kind, p)>>, told)
    PROVE  AnnouncementsInv'
<1> DEFINE ev == Event(kind, p)
<1>1. AnnouncementsTypeOK /\ RowsFollow /\ events \in Seq(EventRows)
  BY DEF AnnouncementsInv, AnnouncementsTypeOK
<1>2. Chained' /\ \A e \in Members(events) : Known(e)'
  BY <1>1, TurnStep
<1>3. ev \in EventRows /\ ev.row = p /\ ev.kind = kind /\ ev.by = "none" /\ p # 0
  BY EventIsRow
<1>4. events' = events \o <<ev>> /\ news' = told
  BY DEF Publish
<1> HIDE DEF ev
<1>5. Known(ev)'
  BY <1>3 DEF Known
<1>6. <<ev>> \in Seq(EventRows) /\ DOMAIN <<ev>> = {1} /\ <<ev>>[1] = ev
  BY <1>3
<1>7. RowsFollow'
  <2>1. Members(events') = Members(events) \cup Members(<<ev>>) /\ Members(<<ev>>) = {ev}
    <3>1. Members(<<ev>>) = {ev}
      BY <1>6 DEF Members
    <3>2. Members(events \o <<ev>>) = Members(events) \cup Members(<<ev>>)
      <4> DEFINE t == <<ev>>
      <4>1. t \in Seq(EventRows)
        BY <1>6
      <4> HIDE DEF t
      <4>2. Members(events \o t) = Members(events) \cup Members(t)
        BY <1>1, <4>1, ConcatMembers
      <4>3. QED
        BY <4>2 DEF t
    <3>3. QED
      BY <1>4, <3>1, <3>2
  <2>2. \A e \in Members(events') : Known(e)'
    BY <1>2, <1>5, <2>1
  <2>3. \A i \in DOMAIN events' : events'[i] \in Members(events')
    BY DEF Members
  <2>4. QED
    BY <1>2, <2>2, <2>3 DEF RowsFollow
<1>8. NewsFits'
  BY <1>4, RowsAre DEF NewsFits
<1>9. Publish(<<ev>>, told) /\ (told # NoNews => Carries(ev)') /\ told \in Letters \cup {NoNews}
  BY DEF ev
<1>10. told # NoNews => \E i \in DOMAIN <<ev>> : Carries(<<ev>>[i])'
  BY <1>6, <1>9
<1>11. QED
  BY <1>3, <1>6, <1>7, <1>8, <1>9, <1>10, PublishStep, ZenonT(60)

(* An open row has been written and not cancelled. *)
LEMMA StatusesAre == OpenTurn \subseteq TurnStates /\ "none" \notin OpenTurn /\ "cancelled" \notin OpenTurn
BY DEF TurnStates, OpenTurn

(* One row of the visit changes: the conditions of the lemmas above. *)
LEMMA RowChange ==
    ASSUME AnnouncementsInv, NEW r \in TurnRows, NEW s \in TurnStates \ {"none"},
           turn' = [turn EXCEPT ![r] = s],
           (Current(r) /\ turn[r] \in OpenTurn) \/ (r = 1 /\ turn[1] = "none")
    PROVE  /\ Last(r) /\ turn' \in [TurnRows -> TurnStates] /\ turn'[r] = s /\ turn'[r] # "none"
           /\ turn[r] \in OpenTurn \/ (r = 1 /\ turn[1] = "none")
           /\ \A q \in TurnRows : q < r => turn'[q] = turn[q]
           /\ \A q \in TurnRows : r < q /\ turn'[q] # "none" => q = r + 1 /\ turn'[r] = "cancelled"
           /\ \A q \in TurnRows : r < q => turn'[q] = "none"
<1>1. AnnouncementsTypeOK /\ Chained /\ turn \in [TurnRows -> TurnStates]
  BY DEF AnnouncementsInv, RowsFollow, AnnouncementsTypeOK
<1>2. Last(r)
  BY <1>1, CurrentIsLast, FirstIsLast
<1>3. turn' \in [TurnRows -> TurnStates] /\ turn'[r] = s /\ \A q \in TurnRows : q # r => turn'[q] = turn[q]
  BY <1>1
<1>4. \A q \in TurnRows : (q < r => q # r) /\ (r < q => q # r)
  BY RowsAre
<1>5. QED
  BY <1>2, <1>3, <1>4 DEF Last

(* The mails the panel announces. *)
LEMMA MailsAre ==
    \A r \in TurnRows :
        /\ [mail |-> "confirmation", row |-> r] \in Letters
        /\ [mail |-> "cancellation", row |-> r] \in Letters
        /\ [mail |-> "reschedule", row |-> r] \in Letters
BY DEF Letters

(* Only rows have begun. *)
LEMMA BegunIs == AnnouncementsInv => begun \subseteq TurnRows
BY DEF AnnouncementsInv, AnnouncementsTypeOK

(* The visit is booked, by the client or by the panel. *)
LEMMA BookStep ==
    ASSUME AnnouncementsInv, BookOwn \/ \E past \in BOOLEAN : BookForClient(past)
    PROVE  AnnouncementsInv'
<1>1. "pending" \in TurnStates \ {"none"} /\ "confirmed" \in TurnStates \ {"none"} /\ 1 \in TurnRows
      /\ "pending" \in OpenTurn /\ "confirmed" \in OpenTurn
      /\ "booked_by_panel" \in ClientEvents
  BY RowsAre DEF TurnStates, OpenTurn, ClientEvents
<1> DEFINE m == [mail |-> "confirmation", row |-> 1]
<1>2. m \in Letters /\ m.row = 1 /\ m.mail = "confirmation"
  BY <1>1, MailsAre
<1> HIDE DEF m
<1>3. CASE BookOwn
  <2>1. turn[1] = "none" /\ turn' = [turn EXCEPT ![1] = "pending"] /\ begun' \subseteq TurnRows
        /\ Publish(<<Event("booked_by_panel", 1)>>, m)
    BY <1>3, BegunIs DEF BookOwn, m
  <2>2. turn'[1] = "pending"
    BY <1>1, <2>1, RowChange
  <2>3. Carries(Event("booked_by_panel", 1))'
    BY <1>1, <2>2, NewEventCarries
  <2>4. QED
    BY <1>1, <1>2, <2>1, <2>2, <2>3, RowChange, TurnTold
<1>4. ASSUME NEW past \in BOOLEAN, BookForClient(past) PROVE AnnouncementsInv'
  <2>1. /\ turn[1] = "none" /\ turn' = [turn EXCEPT ![1] = "confirmed"] /\ begun' \subseteq TurnRows
        /\ \/ Publish(<<Event("booked_by_panel", 1)>>, m)
           \/ Publish(<<>>, NoNews)
    BY <1>1, <1>4 DEF BookForClient, m
  <2>2. turn'[1] = "confirmed"
    BY <1>1, <2>1, RowChange
  <2>3. Carries(Event("booked_by_panel", 1))'
    BY <1>1, <2>2, NewEventCarries
  <2>4. CASE Publish(<<>>, NoNews)
    BY <1>1, <2>1, <2>4, RowChange, TurnSilent
  <2>5. CASE Publish(<<Event("booked_by_panel", 1)>>, m)
    BY <1>1, <1>2, <2>1, <2>2, <2>3, <2>5, RowChange, TurnTold
  <2>6. QED
    BY <2>1, <2>4, <2>5
<1>5. QED
  BY <1>3, <1>4

(* The deposit or the panel confirms the visit. *)
LEMMA ConfirmStep ==
    ASSUME AnnouncementsInv, NEW r \in TurnRows,
           ConfirmTurn(r) \/ DepositConfirms(r) \/ DepositApproved(r)
    PROVE  AnnouncementsInv'
<1> DEFINE m == [mail |-> "confirmation", row |-> r]
<1>1. m \in Letters /\ m.row = r /\ m.mail = "confirmation"
  BY MailsAre
<1>2. "confirmed" \in TurnStates \ {"none"} /\ "confirmed" \in OpenTurn /\ "confirmed" \in ClientEvents
  BY DEF TurnStates, OpenTurn, ClientEvents
<1> HIDE DEF m
<1>3. /\ Current(r) /\ turn[r] \in OpenTurn /\ turn' = [turn EXCEPT ![r] = "confirmed"] /\ begun' = begun
      /\ \/ Publish(<<>>, NoNews)
         \/ \E kind \in {"confirmed", "payment.approved"} : Publish(<<Event(kind, r)>>, m)
  BY DEF ConfirmTurn, DepositConfirms, DepositApproved, OpenTurn, m
<1>4. begun' \subseteq TurnRows
  BY <1>3, BegunIs
<1>5. turn'[r] = "confirmed"
  BY <1>2, <1>3, RowChange
<1>6. CASE Publish(<<>>, NoNews)
  BY <1>2, <1>3, <1>4, <1>6, RowChange, TurnSilent
<1>7. ASSUME NEW kind \in {"confirmed", "payment.approved"}, Publish(<<Event(kind, r)>>, m)
      PROVE  AnnouncementsInv'
  <2>1. Carries(Event(kind, r))'
    BY <1>5, NewEventCarries
  <2>2. kind \in ClientEvents \cup {"appointment.released", "payment.approved"} /\ kind # "cancelled_by_block"
    BY <1>2
  <2>3. QED
    BY <1>1, <1>2, <1>3, <1>4, <1>5, <1>7, <2>1, <2>2, RowChange, TurnTold
<1>8. QED
  BY <1>3, <1>6, <1>7

(* The visit ends: nothing the client is to be told, or that the store cancelled it. *)
LEMMA EndStep ==
    ASSUME AnnouncementsInv, NEW r \in TurnRows,
           CompleteTurn(r) \/ MarkAbsent(r) \/ ReleaseTurn(r) \/ CancelTurn(r) \/ BulkCancelTurn(r)
    PROVE  AnnouncementsInv'
<1> DEFINE m == [mail |-> "cancellation", row |-> r]
           States == {"completed", "absent", "expired", "cancelled"}
<1>1. m \in Letters /\ m.row = r /\ m.mail = "cancellation"
  BY MailsAre
<1>2. States \subseteq TurnStates \ {"none"}
  BY DEF TurnStates
<1> HIDE DEF m
<1>3. PICK s \in States :
        /\ Current(r) /\ turn[r] \in OpenTurn /\ turn' = [turn EXCEPT ![r] = s] /\ begun' = begun
        /\ \/ Publish(<<>>, NoNews)
           \/ \E kind \in {"completed", "appointment.released"} : Publish(<<Event(kind, r)>>, NoNews)
           \/ s = "cancelled" /\ Publish(<<Event("cancelled_by_block", r)>>, m)
  <2>1. CASE CompleteTurn(r)
    BY <2>1 DEF CompleteTurn, OpenTurn
  <2>2. CASE MarkAbsent(r)
    BY <2>2 DEF MarkAbsent, OpenTurn
  <2>3. CASE ReleaseTurn(r)
    BY <2>3 DEF ReleaseTurn, OpenTurn
  <2>4. CASE CancelTurn(r)
    BY <2>4 DEF CancelTurn
  <2>5. CASE BulkCancelTurn(r)
    BY <2>5 DEF BulkCancelTurn, m
  <2>6. QED
    BY <2>1, <2>2, <2>3, <2>4, <2>5
<1>4. begun' \subseteq TurnRows /\ s \in TurnStates \ {"none"}
  BY <1>2, <1>3, BegunIs
<1>5. turn'[r] = s
  BY <1>3, <1>4, RowChange
<1>6. CASE Publish(<<>>, NoNews)
  BY <1>3, <1>4, <1>6, RowChange, TurnSilent
<1>7. ASSUME NEW kind \in {"completed", "appointment.released"}, Publish(<<Event(kind, r)>>, NoNews)
      PROVE  AnnouncementsInv'
  <2>1. kind \in ClientEvents \cup {"appointment.released", "payment.approved"} /\ kind # "cancelled_by_block"
    BY DEF ClientEvents
  <2>2. QED
    BY <1>3, <1>4, <1>7, <2>1, RowChange, TurnTold
<1>8. CASE s = "cancelled" /\ Publish(<<Event("cancelled_by_block", r)>>, m)
  <2>1. Carries(Event("cancelled_by_block", r))' /\ "cancelled_by_block" \in ClientEvents
    BY NewEventCarries DEF ClientEvents
  <2>2. QED
    BY <1>1, <1>3, <1>4, <1>5, <1>8, <2>1, RowChange, TurnTold
<1>9. QED
  BY <1>3, <1>6, <1>7, <1>8

(* The visit moves: the news is about its new row. *)
LEMMA RescheduleStep ==
    ASSUME AnnouncementsInv, NEW r \in TurnRows, NEW past \in BOOLEAN, RescheduleTurn(r, past)
    PROVE  AnnouncementsInv'
<1> DEFINE p == r + 1
           m == [mail |-> "reschedule", row |-> p]
<1>1. r \in Nat /\ p \in TurnRows /\ r < p /\ p # r
  BY AnnouncementBounds DEF RescheduleTurn, TurnRows
<1>2. m \in Letters /\ m.row = p /\ m.mail = "reschedule"
  BY <1>1, MailsAre
<1>3. /\ Current(r) /\ turn[r] \in OpenTurn /\ turn' = [turn EXCEPT ![r] = "cancelled", ![p] = turn[r]]
      /\ begun' = begun \/ begun' = begun \cup {p}
      /\ \/ Publish(<<>>, NoNews)
         \/ Publish(<<Event("rescheduled", p)>>, m)
  BY DEF RescheduleTurn
<1> HIDE DEF p
<1> HIDE DEF m
<1>4. AnnouncementsTypeOK /\ Chained /\ turn \in [TurnRows -> TurnStates]
  BY DEF AnnouncementsInv, RowsFollow, AnnouncementsTypeOK
<1>5. Last(r)
  BY <1>3, <1>4, CurrentIsLast
<1>6. /\ turn' \in [TurnRows -> TurnStates] /\ turn'[r] = "cancelled" /\ turn'[p] = turn[r]
      /\ \A q \in TurnRows : q # r /\ q # p => turn'[q] = turn[q]
  <2>1. "cancelled" \in TurnStates
    BY DEF TurnStates
  <2>2. QED
    BY <1>1, <1>3, <1>4, <2>1
<1>7. \A q \in TurnRows : q < r => turn'[q] = turn[q]
  <2>1. \A q \in TurnRows : q < r => q # r /\ q # p
    BY <1>1, RowsAre
  <2>2. QED
    BY <1>6, <2>1
<1>8. \A q \in TurnRows : r < q /\ turn'[q] # "none" => q = r + 1 /\ turn'[r] = "cancelled"
  <2>1. ASSUME NEW q \in TurnRows, r < q, q # p PROVE turn'[q] = "none"
    BY <1>1, <1>5, <1>6, <2>1, RowsAre DEF Last
  <2>2. QED
    BY <1>6, <2>1 DEF p
<1>9. \A q \in TurnRows : p < q => turn'[q] = "none"
  <2>1. \A q \in TurnRows : p < q => r < q /\ q # r + 1
    BY <1>1, RowsAre DEF p
  <2>2. QED
    BY <1>8, <2>1
<1>10. begun' \subseteq TurnRows /\ turn'[r] # "none" /\ turn'[p] # "none" /\ turn'[p] \in OpenTurn
  BY <1>1, <1>3, <1>6, BegunIs, StatusesAre
<1>11. CASE Publish(<<>>, NoNews)
  BY <1>3, <1>5, <1>6, <1>7, <1>8, <1>10, <1>11, TurnSilent
<1>12. CASE Publish(<<Event("rescheduled", p)>>, m)
  <2>1. Carries(Event("rescheduled", p))'
    BY <1>1, <1>10, NewEventCarries
  <2>2. "rescheduled" \in ClientEvents
    BY DEF ClientEvents
  <2>3. QED
    BY <1>1, <1>2, <1>3, <1>5, <1>6, <1>7, <1>8, <1>9, <1>10, <1>12, <2>1, <2>2, TurnTold
<1>13. QED
  BY <1>3, <1>11, <1>12

(* There are two dispatchers. *)
LEMMA OtherIs ==
    \A d \in Dispatchers : /\ Other(d) \in Dispatchers /\ Other(d) # d
                           /\ \A c \in Dispatchers : c = d \/ c = Other(d)
                           /\ Other(Other(d)) = d
BY DEF Dispatchers, Other

(* A row of the outbox is locked by a dispatcher, or by nobody. *)
LEMMA EventsHeld ==
    ASSUME AnnouncementsTypeOK
    PROVE  \A i \in DOMAIN events : events[i] \in EventRows /\ events[i].by \in Dispatchers \cup {"none"}
<1>1. \A i \in DOMAIN events : events[i] \in EventRows
  BY DEF AnnouncementsTypeOK
<1>2. QED
  BY <1>1 DEF EventRows

(* A run that ended holds nothing. *)
LEMMA BatchesAre ==
    ASSUME AnnouncementsTypeOK
    PROVE  /\ IdleBatch \in Batches /\ IdleBatch.at = "idle" /\ IdleBatch.letter = NoNews
           /\ \A d \in Dispatchers : batch[d] \in Batches
           /\ DOMAIN batch = Dispatchers
           /\ batch \in [Dispatchers -> Batches]
<1>1. IdleBatch \in Batches
  BY DEF IdleBatch, Batches, TurnStates
<1>2. QED
  BY <1>1 DEF IdleBatch, AnnouncementsTypeOK

(* The pending events change hands between the runs, and nothing else of them. *)
LEMMA SameEvents ==
    ASSUME AnnouncementsTypeOK,
           events' \in Seq(EventRows), DOMAIN events' = DOMAIN events,
           \A i \in DOMAIN events :
              /\ events'[i].kind = events[i].kind /\ events'[i].row = events[i].row
              /\ events'[i].detail = events[i].detail,
           UNCHANGED <<turn, optedOut, autoMails, bell, mpBroken>>, missed => missed'
    PROVE  /\ RowsFollow => RowsFollow'
           /\ \A i \in DOMAIN events : Carries(events[i]) => (\E j \in {i} : Carries(events[j]))'
           /\ OwnerHolds => OwnerHolds'
<1>1. RowsFollow => RowsFollow'
  BY DEF RowsFollow, Chained, Known
<1>2. \A i \in DOMAIN events : PlannedMails(BatchContext, events[i]) = PlannedMails(BatchContext, events[i])'
  BY DEF PlannedMails, PanelClientMail, ClientConfirmation, BatchContext, MayInvite
<1>3. \A i \in DOMAIN events : Carries(events[i]) => (\E j \in {i} : Carries(events[j]))'
  BY <1>2 DEF Carries
<1>4. OwnerHolds => OwnerHolds'
  BY DEF OwnerHolds, OwnerIsTold
<1>5. QED
  BY <1>1, <1>3, <1>4

(* A batch reads the visit as it is, so what it plans is no older than its read. *)
LEMMA ReadsStep ==
    ASSUME AnnouncementsInv, NEW d \in Dispatchers, BatchReads(d) PROVE AnnouncementsInv'
<1> USE DEF AnnouncementsInv
<1> DEFINE b == [at |-> "planning", letter |-> NoNews, seen |-> turn, optedOut |-> optedOut]
<1>1. /\ batch[d].at = "idle" /\ batch' = [batch EXCEPT ![d] = b]
      /\ events' = [i \in DOMAIN events |->
           IF events[i].by = "none" THEN [events[i] EXCEPT !.by = d] ELSE events[i]]
      /\ crossed' = (crossed \/ Busy(Other(d)))
      /\ UNCHANGED <<turn, letters, heard, news, missed, optedOut, autoMails, mpBroken, mailbox,
                     begun, faults, bell>>
  BY DEF BatchReads, BatchContext, Busy, visitVars
<1>2. b \in Batches /\ b.at = "planning" /\ b.letter = NoNews /\ b.seen = turn
  BY DEF AnnouncementsTypeOK, Batches
<1> HIDE DEF b
<1>3. batch' \in [Dispatchers -> Batches] /\ batch'[d] = b /\ \A c \in Dispatchers : c # d => batch'[c] = batch[c]
  BY <1>1, <1>2 DEF AnnouncementsTypeOK
<1>4. /\ events' \in Seq(EventRows) /\ DOMAIN events' = DOMAIN events
      /\ \A i \in DOMAIN events :
            /\ events'[i].kind = events[i].kind /\ events'[i].row = events[i].row
            /\ events'[i].detail = events[i].detail
            /\ events'[i].by = IF events[i].by = "none" THEN d ELSE events[i].by
  <2>1. events \in [1..Len(events) -> EventRows] /\ DOMAIN events = 1..Len(events) /\ Len(events) \in Nat
    BY DEF AnnouncementsTypeOK
  <2>2. ASSUME NEW i \in DOMAIN events
        PROVE  /\ events'[i] \in EventRows
               /\ events'[i].kind = events[i].kind /\ events'[i].row = events[i].row
               /\ events'[i].detail = events[i].detail
               /\ events'[i].by = IF events[i].by = "none" THEN d ELSE events[i].by
    <3>1. events[i] \in EventRows
      BY <2>1
    <3>2. [events[i] EXCEPT !.by = d] \in EventRows
      BY <3>1 DEF EventRows
    <3>3. QED
      BY <1>1, <3>1, <3>2 DEF EventRows
  <2>3. DOMAIN events' = DOMAIN events /\ events' \in [1..Len(events) -> EventRows]
    BY <1>1, <2>1, <2>2
  <2>4. QED
    BY <2>1, <2>2, <2>3
<1>5. AnnouncementsTypeOK'
  BY <1>1, <1>3, <1>4 DEF AnnouncementsTypeOK
<1>6. RowsFollow' /\ OwnerHolds' /\ \A i \in DOMAIN events : Carries(events[i]) => Carries(events[i])'
  BY <1>1, <1>4, SameEvents
<1>7. NewsFits'
  BY <1>1 DEF NewsFits
<1>8. batch[d].letter = NoNews
  BY <1>1 DEF RunsHold
<1>9. RunsHold'
  <2>1. \A i \in DOMAIN events' : events'[i].by # "none" => batch'[events'[i].by].at = "planning"
    <3>1. SUFFICES ASSUME NEW i \in DOMAIN events', events'[i].by # "none"
                   PROVE  batch'[events'[i].by].at = "planning"
      OBVIOUS
    <3>2. CASE events'[i].by = d
      BY <1>2, <1>3, <3>2
    <3>3. CASE events'[i].by # d
      <4>1. events'[i].by = events[i].by /\ i \in DOMAIN events
        BY <1>4, <3>3
      <4>2. events[i].by \in Dispatchers
        <5>1. events[i] \in EventRows
          BY <4>1 DEF AnnouncementsTypeOK
        <5>2. QED
          BY <3>1, <4>1, <5>1 DEF EventRows
      <4>3. QED
        BY <1>3, <3>1, <3>3, <4>1, <4>2 DEF RunsHold
    <3>4. QED
      BY <3>2, <3>3
  <2>2. \A c \in Dispatchers : batch'[c].at # "mailing" => batch'[c].letter = NoNews
    BY <1>2, <1>3 DEF RunsHold
  <2>3. ~ crossed' => \A c \in Dispatchers : Busy(c)' => ~ Busy(Other(c))'
    <3>1. ~ crossed' => ~ Busy(Other(d))'
      BY <1>1, <1>3, OtherIs DEF Busy
    <3>2. QED
      BY <3>1, OtherIs
  <2>4. QED
    BY <2>1, <2>2, <2>3 DEF RunsHold, Other
<1>10. NewsOnItsWay'
  <2>1. SUFFICES ASSUME Expected'
                 PROVE  /\ PlansSeeNow'
                        /\ (\E i \in DOMAIN events : Carries(events[i]))' \/ LastIsNews'
    BY DEF NewsOnItsWay
  <2>2. Expected /\ ~ Busy(Other(d))
    BY <1>1, <2>1 DEF Expected
  <2>3. PlansSeeNow'
    BY <1>1, <1>2, <1>3, <2>2, OtherIs DEF PlansSeeNow, Busy
  <2>4. (\E i \in DOMAIN events : Carries(events[i])) \/ LastIsNews
    BY <2>2 DEF NewsOnItsWay
  <2>5. CASE \E i \in DOMAIN events : Carries(events[i])
    BY <1>4, <1>6, <2>3, <2>5
  <2>6. CASE LastIsNews
    <3>1. \A c \in Dispatchers : batch'[c].letter = batch[c].letter
      BY <1>2, <1>3, <1>8
    <3>2. LastIsNews'
      BY <1>1, <2>6, <3>1 DEF LastIsNews, InHand, IsNews, Belief
    <3>3. QED
      BY <2>3, <3>2
  <2>7. QED
    BY <2>4, <2>5, <2>6
<1>11. QED
  BY <1>5, <1>6, <1>7, <1>9, <1>10

(* Only the run that holds it has the letters it takes and leaves. *)
LEMMA LastLetter ==
    ASSUME AnnouncementsTypeOK, letters # <<>>
    PROVE  /\ Head(letters) \in Letters /\ Head(letters) = letters[1] /\ Tail(letters) \in Seq(Letters)
           /\ Len(letters) \in Nat /\ Len(letters) >= 1 /\ Len(Tail(letters)) = Len(letters) - 1
           /\ Tail(letters) # <<>> => Tail(letters)[Len(Tail(letters))] = letters[Len(letters)]
           /\ Tail(letters) = <<>> => Len(letters) = 1
<1>1. letters \in Seq(Letters)
  BY DEF AnnouncementsTypeOK
<1>2. Len(letters) \in Nat /\ Len(letters) >= 1
  BY <1>1
<1>3. /\ Head(letters) \in Letters /\ Head(letters) = letters[1] /\ Tail(letters) \in Seq(Letters)
      /\ Len(Tail(letters)) = Len(letters) - 1
      /\ \A i \in 1..Len(Tail(letters)) : Tail(letters)[i] = letters[i + 1]
  BY <1>1, <1>2, HeadTailProperties
<1>4. Tail(letters) # <<>> => Len(Tail(letters)) \in 1..Len(Tail(letters))
  BY <1>2, <1>3
<1>5. Tail(letters) = <<>> => Len(letters) = 1
  <2> DEFINE t == Tail(letters)
  <2>1. Len(t) = Len(letters) - 1
    BY <1>3
  <2> HIDE DEF t
  <2>2. t = <<>> => Len(t) = 0
    OBVIOUS
  <2>3. t = <<>> => Len(letters) = 1
    BY <1>2, <2>1, <2>2
  <2>4. QED
    BY <2>3 DEF t
<1>6. QED
  BY <1>2, <1>3, <1>4, <1>5

(* The first letter leaves the queue; if it was the last, its run holds the news. *)
LEMMA ClaimStep ==
    ASSUME AnnouncementsInv, NEW d \in Dispatchers, ClaimNextEmail(d) PROVE AnnouncementsInv'
<1> USE DEF AnnouncementsInv
<1>1. /\ batch[d].at = "mailing" /\ batch[d].letter = NoNews /\ letters # <<>>
      /\ batch' = [batch EXCEPT ![d].letter = Head(letters)] /\ letters' = Tail(letters)
      /\ UNCHANGED <<turn, events, heard, news, missed, crossed, optedOut, autoMails,
                     mpBroken, mailbox,
                     begun, faults, bell>>
  BY DEF ClaimNextEmail, visitVars
<1>2. /\ batch' \in [Dispatchers -> Batches] /\ batch'[d].letter = Head(letters)
      /\ \A c \in Dispatchers : batch'[c].at = batch[c].at /\ batch'[c].seen = batch[c].seen
      /\ \A c \in Dispatchers : c # d => batch'[c] = batch[c]
  BY <1>1, LastLetter, ZenonT(60) DEF AnnouncementsTypeOK, Batches
<1>3. AnnouncementsTypeOK'
  BY <1>1, <1>2, LastLetter DEF AnnouncementsTypeOK
<1>4. RowsFollow' /\ OwnerHolds' /\ \A i \in DOMAIN events : Carries(events[i]) => Carries(events[i])'
  BY <1>1, SameEvents DEF AnnouncementsTypeOK
<1>5. NewsFits'
  BY <1>1 DEF NewsFits
<1>6. RunsHold'
  <2>1. \A i \in DOMAIN events' : events'[i].by # "none" => batch'[events'[i].by].at = "planning"
    <3>1. \A i \in DOMAIN events : events[i].by \in Dispatchers \cup {"none"}
      BY EventsHeld
    <3>2. QED
      BY <1>1, <1>2, <3>1 DEF RunsHold
  <2>2. \A c \in Dispatchers : batch'[c].at # "mailing" => batch'[c].letter = NoNews
    BY <1>1, <1>2 DEF RunsHold
  <2>3. ~ crossed' => \A c \in Dispatchers : Busy(c)' => ~ Busy(Other(c))'
    BY <1>1, <1>2, OtherIs DEF RunsHold, Busy
  <2>4. QED
    BY <2>1, <2>2, <2>3 DEF RunsHold, Other
<1>7. NewsOnItsWay'
  <2>1. SUFFICES ASSUME Expected'
                 PROVE  \/ (\E i \in DOMAIN events : events[i].by = "none" /\ Carries(events[i]))'
                        \/ /\ PlansSeeNow'
                           /\ (\E i \in DOMAIN events : Carries(events[i]))' \/ LastIsNews'
    BY DEF NewsOnItsWay
  <2>2. Expected
    BY <1>1, <2>1 DEF Expected
  <2>3. CASE \E i \in DOMAIN events : events[i].by = "none" /\ Carries(events[i])
    BY <1>1, <1>4, <2>3
  <2>4. PlansSeeNow => PlansSeeNow'
    BY <1>1, <1>2 DEF PlansSeeNow
  <2>5. CASE PlansSeeNow /\ \E i \in DOMAIN events : Carries(events[i])
    BY <1>1, <1>4, <2>4, <2>5
  <2>6. CASE PlansSeeNow /\ LastIsNews
    <3>1. IsNews(letters[Len(letters)])
      BY <1>1, <2>6 DEF LastIsNews
    <3>2. CASE letters' # <<>>
      <4>1. letters'[Len(letters')] = letters[Len(letters)]
        BY <1>1, <3>2, LastLetter
      <4>2. LastIsNews'
        BY <1>1, <3>1, <3>2, <4>1 DEF LastIsNews, IsNews
      <4>3. QED
        BY <2>4, <2>6, <4>2
    <3>3. CASE letters' = <<>>
      <4>1. Len(letters) = 1 /\ batch'[d].letter = letters[Len(letters)]
        BY <1>1, <1>2, <3>3, LastLetter
      <4>2. batch'[d].letter # NoNews
        <5>1. letters[1] \in Letters
          BY <1>1, LastLetter
        <5>2. QED
          BY <4>1, <5>1 DEF Letters, NoNews
      <4>3. d \in InHand' /\ IsNews(batch[d].letter)'
        BY <1>1, <3>1, <4>1, <4>2 DEF InHand, IsNews
      <4>4. LastIsNews'
        BY <3>3, <4>3 DEF LastIsNews
      <4>5. QED
        BY <2>4, <2>6, <4>4
    <3>4. QED
      BY <3>2, <3>3
  <2>7. QED
    BY <2>2, <2>3, <2>5, <2>6 DEF NewsOnItsWay
<1>8. QED
  BY <1>3, <1>4, <1>5, <1>6, <1>7

(* A mail was refused, or it is what the client heard last. *)
LEMMA SendStep ==
    ASSUME AnnouncementsInv, NEW d \in Dispatchers, NEW ok \in BOOLEAN, SendLetter(d, ok)
    PROVE  AnnouncementsInv'
<1> USE DEF AnnouncementsInv
<1>1. /\ batch[d].letter # NoNews
      /\ heard' = IF SendOutcome(ok) = "sent" THEN batch[d].letter ELSE heard
      /\ missed' = (missed \/ SendOutcome(ok) = "failed")
      /\ faults' = IF ok THEN faults ELSE faults + 1
      /\ faults' <= MaxFaults
      /\ batch' = [batch EXCEPT ![d].letter = NoNews]
      /\ UNCHANGED <<turn, events, letters, news, crossed, optedOut, autoMails, mpBroken,
                     mailbox, begun, bell>>
  BY DEF SendLetter, visitVars
<1>2. batch[d] \in Batches /\ batch[d].letter \in Letters
  BY <1>1, BatchesAre DEF Batches
<1>3. /\ batch' \in [Dispatchers -> Batches] /\ batch'[d].letter = NoNews
      /\ \A c \in Dispatchers : batch'[c].at = batch[c].at /\ batch'[c].seen = batch[c].seen
      /\ \A c \in Dispatchers : c # d => batch'[c] = batch[c]
  BY <1>1, <1>2 DEF AnnouncementsTypeOK, Batches
<1>4. AnnouncementsTypeOK'
  <2>1. faults' \in 0..MaxFaults
    BY <1>1, AnnouncementBounds DEF AnnouncementsTypeOK
  <2>2. {heard', news'} \subseteq Letters \cup {NoNews} /\ missed' \in BOOLEAN
    BY <1>1, <1>2 DEF AnnouncementsTypeOK
  <2>3. QED
    BY <1>1, <1>3, <2>1, <2>2 DEF AnnouncementsTypeOK
<1>5. RowsFollow' /\ OwnerHolds' /\ \A i \in DOMAIN events : Carries(events[i]) => Carries(events[i])'
  BY <1>1, SameEvents DEF AnnouncementsTypeOK
<1>6. NewsFits'
  BY <1>1 DEF NewsFits
<1>7. RunsHold'
  <2>1. \A i \in DOMAIN events' : events'[i].by # "none" => batch'[events'[i].by].at = "planning"
    <3>1. \A i \in DOMAIN events : events[i].by \in Dispatchers \cup {"none"}
      BY EventsHeld
    <3>2. QED
      BY <1>1, <1>3, <3>1 DEF RunsHold
  <2>2. \A c \in Dispatchers : batch'[c].at # "mailing" => batch'[c].letter = NoNews
    BY <1>1, <1>3 DEF RunsHold
  <2>3. ~ crossed' => \A c \in Dispatchers : Busy(c)' => ~ Busy(Other(c))'
    BY <1>1, <1>3, OtherIs DEF RunsHold, Busy
  <2>4. QED
    BY <2>1, <2>2, <2>3 DEF RunsHold, Other
<1>8. NewsOnItsWay'
  <2>1. SUFFICES ASSUME Expected'
                 PROVE  \/ (\E i \in DOMAIN events : events[i].by = "none" /\ Carries(events[i]))'
                        \/ /\ PlansSeeNow'
                           /\ (\E i \in DOMAIN events : Carries(events[i]))' \/ LastIsNews'
    BY DEF NewsOnItsWay
  <2>2. Expected /\ heard' = batch[d].letter
    BY <1>1, <2>1 DEF Expected, SendOutcome
  <2>3. CASE \E i \in DOMAIN events : events[i].by = "none" /\ Carries(events[i])
    BY <1>1, <1>5, <2>3
  <2>4. PlansSeeNow => PlansSeeNow'
    BY <1>1, <1>3 DEF PlansSeeNow
  <2>5. CASE PlansSeeNow /\ \E i \in DOMAIN events : Carries(events[i])
    BY <1>1, <1>5, <2>4, <2>5
  <2>6. CASE PlansSeeNow /\ LastIsNews
    <3>1. CASE letters # <<>>
      BY <1>1, <2>4, <2>6, <3>1 DEF LastIsNews, IsNews
    <3>2. CASE letters = <<>>
      <4>1. \A c \in Dispatchers : c # d => batch[c].letter = NoNews
        <5>1. Busy(d)
          BY <1>1 DEF RunsHold, Busy
        <5>2. ~ Busy(Other(d))
          BY <2>2, <5>1 DEF RunsHold, Expected
        <5>3. QED
          BY <5>2, OtherIs DEF RunsHold, Busy
      <4>2. InHand = {d} /\ InHand' = {}
        BY <1>1, <1>3, <4>1 DEF InHand
      <4>3. IsNews(batch[d].letter)
        BY <2>6, <3>2, <4>2 DEF LastIsNews
      <4>4. LastIsNews'
        BY <1>1, <2>2, <3>2, <4>2, <4>3 DEF LastIsNews, IsNews
      <4>5. QED
        BY <2>4, <2>6, <4>4
    <3>3. QED
      BY <3>1, <3>2
  <2>7. QED
    BY <2>2, <2>3, <2>5, <2>6 DEF NewsOnItsWay
<1>9. QED
  BY <1>4, <1>5, <1>6, <1>7, <1>8

(* A run ends, or dies: what it had locked is free again. *)
LEMMA EndsStep ==
    ASSUME AnnouncementsInv, NEW d \in Dispatchers, DispatchEnds(d) \/ BatchDies(d)
    PROVE  AnnouncementsInv'
<1> USE DEF AnnouncementsInv
<1>1. /\ Busy(d) /\ batch' = [batch EXCEPT ![d] = IdleBatch]
      /\ missed' = (missed \/ batch[d].letter # NoNews)
      /\ UNCHANGED <<turn, letters, heard, news, crossed, optedOut, autoMails, mpBroken,
                     mailbox, begun, bell>>
  BY DEF DispatchEnds, BatchDies, visitVars, Busy, AnnouncementsTypeOK
<1>2. faults' \in 0..MaxFaults
  BY AnnouncementBounds DEF DispatchEnds, BatchDies, AnnouncementsTypeOK
<1>3. /\ events' \in Seq(EventRows) /\ DOMAIN events' = DOMAIN events
      /\ \A i \in DOMAIN events :
            /\ events'[i].kind = events[i].kind /\ events'[i].row = events[i].row
            /\ events'[i].detail = events[i].detail
            /\ events'[i].by = IF events[i].by = d THEN "none" ELSE events[i].by
  <2>1. events \in [1..Len(events) -> EventRows] /\ DOMAIN events = 1..Len(events) /\ Len(events) \in Nat
    BY DEF AnnouncementsTypeOK
  <2>2. CASE DispatchEnds(d)
    <3>1. batch[d].at = "mailing" /\ events' = events
      BY <2>2 DEF DispatchEnds
    <3>2. \A i \in DOMAIN events : events[i].by # d
      BY <3>1 DEF RunsHold, Dispatchers
    <3>3. QED
      BY <3>1, <3>2 DEF AnnouncementsTypeOK
  <2>3. CASE BatchDies(d)
    <3>1. events' = [i \in DOMAIN events |->
              IF events[i].by = d THEN [events[i] EXCEPT !.by = "none"] ELSE events[i]]
      BY <2>3 DEF BatchDies, Taken
    <3>2. ASSUME NEW i \in DOMAIN events
          PROVE  /\ events'[i] \in EventRows
                 /\ events'[i].kind = events[i].kind /\ events'[i].row = events[i].row
                 /\ events'[i].detail = events[i].detail
                 /\ events'[i].by = IF events[i].by = d THEN "none" ELSE events[i].by
      <4>1. events[i] \in EventRows
        BY <2>1
      <4>2. [events[i] EXCEPT !.by = "none"] \in EventRows
        BY <4>1 DEF EventRows
      <4>3. QED
        BY <3>1, <4>1, <4>2 DEF EventRows
    <3>3. DOMAIN events' = DOMAIN events /\ events' \in [1..Len(events) -> EventRows]
      BY <2>1, <3>1, <3>2
    <3>4. QED
      BY <2>1, <3>2, <3>3
  <2>4. QED
    BY <2>2, <2>3
<1>4. /\ batch' \in [Dispatchers -> Batches] /\ batch'[d] = IdleBatch
      /\ \A c \in Dispatchers : c # d => batch'[c] = batch[c]
  BY <1>1, BatchesAre
<1>5. IdleBatch.at = "idle" /\ IdleBatch.letter = NoNews
  BY BatchesAre
<1>6. AnnouncementsTypeOK'
  BY <1>1, <1>2, <1>3, <1>4 DEF AnnouncementsTypeOK
<1>7. RowsFollow' /\ OwnerHolds' /\ \A i \in DOMAIN events : Carries(events[i]) => Carries(events[i])'
  <2>1. missed => missed'
    BY <1>1
  <2>2. QED
    BY <1>1, <1>3, <2>1, SameEvents
<1>8. NewsFits'
  BY <1>1 DEF NewsFits
<1>9. RunsHold'
  <2>1. \A i \in DOMAIN events' : events'[i].by # "none" => batch'[events'[i].by].at = "planning"
    <3>1. \A i \in DOMAIN events : events[i].by \in Dispatchers \cup {"none"}
      BY EventsHeld
    <3>2. QED
      BY <1>3, <1>4, <3>1 DEF RunsHold
  <2>2. \A c \in Dispatchers : batch'[c].at # "mailing" => batch'[c].letter = NoNews
    BY <1>4, <1>5 DEF RunsHold
  <2>3. ~ crossed' => \A c \in Dispatchers : Busy(c)' => ~ Busy(Other(c))'
    BY <1>1, <1>4, <1>5, OtherIs DEF RunsHold, Busy
  <2>4. QED
    BY <2>1, <2>2, <2>3 DEF RunsHold, Other
<1>10. NewsOnItsWay'
  <2>1. SUFFICES ASSUME Expected'
                 PROVE  \/ (\E i \in DOMAIN events : events[i].by = "none" /\ Carries(events[i]))'
                        \/ /\ PlansSeeNow'
                           /\ (\E i \in DOMAIN events : Carries(events[i]))' \/ LastIsNews'
    BY DEF NewsOnItsWay
  <2>2. Expected /\ batch[d].letter = NoNews
    BY <1>1, <2>1 DEF Expected
  <2>3. CASE \E i \in DOMAIN events : events[i].by = "none" /\ Carries(events[i])
    <3>1. PICK i \in DOMAIN events : events[i].by = "none" /\ Carries(events[i])
      BY <2>3
    <3>2. i \in DOMAIN events' /\ events'[i].by = "none" /\ Carries(events[i])'
      BY <1>3, <1>7, <3>1
    <3>3. QED
      BY <3>2
  <2>4. PlansSeeNow => PlansSeeNow'
    BY <1>1, <1>4, <1>5 DEF PlansSeeNow
  <2>5. CASE PlansSeeNow /\ \E i \in DOMAIN events : Carries(events[i])
    BY <1>3, <1>7, <2>4, <2>5
  <2>6. CASE PlansSeeNow /\ LastIsNews
    <3>1. \A c \in Dispatchers : batch'[c].letter = batch[c].letter
      BY <1>4, <1>5, <2>2
    <3>2. LastIsNews'
      BY <1>1, <2>6, <3>1 DEF LastIsNews, InHand, IsNews
    <3>3. QED
      BY <2>4, <2>6, <3>2
  <2>7. QED
    BY <2>2, <2>3, <2>5, <2>6 DEF NewsOnItsWay
<1>11. QED
  BY <1>6, <1>7, <1>8, <1>9, <1>10

(* Two events of the outbox tell the same. *)
Alike(e, f) == e.kind = f.kind /\ e.row = f.row /\ e.detail = f.detail

(* Sequences of one member, and of none. *)
LEMMA OneMember ==
    ASSUME NEW x
    PROVE  Len(<<x>>) = 1 /\ Members(<<x>>) = {x} /\ Len(<<>>) = 0 /\ Members(<<>>) = {}
BY DEF Members

LEMMA NoMember ==
    ASSUME NEW S, NEW s, s = <<>>
    PROVE  s \in Seq(S) /\ Members(s) = {} /\ Len(s) = 0
BY DEF Members

(* What a batch leaves of the outbox: the events it did not take, those that may be tried again. *)
LEMMA AfterBatchIs ==
    ASSUME AnnouncementsTypeOK, NEW d \in Dispatchers, NEW good \in SUBSET Taken(d),
           \A i, j \in DOMAIN events : events[i].row = 0 /\ events[j].row = 0 => i = j
    PROVE  /\ AfterBatch(d, good) \in Seq(EventRows)
           /\ \A i \in DOMAIN events : i \notin Taken(d) \/ (i \notin good /\ ~ GivenUp(i)) =>
                \E j \in DOMAIN AfterBatch(d, good) :
                   /\ Alike(AfterBatch(d, good)[j], events[i])
                   /\ i \notin Taken(d) => AfterBatch(d, good)[j] = events[i]
           /\ \A j \in DOMAIN AfterBatch(d, good) :
                \E i \in DOMAIN events \ good :
                   /\ Alike(AfterBatch(d, good)[j], events[i])
                   /\ AfterBatch(d, good)[j].by # d
                   /\ AfterBatch(d, good)[j].by \in {events[i].by, "none"}
           /\ \A k, l \in DOMAIN AfterBatch(d, good) :
                AfterBatch(d, good)[k].row = 0 /\ AfterBatch(d, good)[l].row = 0 => k = l
<1> DEFINE again(i) == [events[i] EXCEPT !.tries = @ + 1, !.by = "none"]
           ps == [i \in DOMAIN events |->
                     IF i \notin Taken(d) THEN <<events[i]>>
                     ELSE IF i \in good \/ GivenUp(i) THEN <<>>
                     ELSE <<again(i)>>]
           S == EventRows
           J == Joined(ps)
<1>1. J = AfterBatch(d, good)
  BY DEF AfterBatch
<1>2. /\ events \in Seq(EventRows) /\ Len(events) \in Nat /\ DOMAIN events = 1..Len(events)
      /\ \A i \in DOMAIN events : events[i] \in EventRows
  BY DEF AnnouncementsTypeOK
<1>3. ASSUME NEW i \in DOMAIN events, ~ GivenUp(i)
      PROVE  again(i) \in EventRows /\ Alike(again(i), events[i]) /\ again(i).by = "none"
  <2>1. events[i].tries \in 0..(MaxPlanTries - 1) /\ ~ (events[i].tries + 1 >= MaxPlanTries)
    BY <1>2, <1>3 DEF EventRows, GivenUp
  <2>2. events[i].tries + 1 \in 0..(MaxPlanTries - 1)
    BY <2>1, AnnouncementBounds
  <2>3. again(i) \in EventRows
    BY <1>2, <2>2 DEF EventRows
  <2>4. QED
    BY <1>2, <2>3 DEF Alike, EventRows
<1>4. \A i \in DOMAIN events : i \notin Taken(d) => events[i].by # d
  BY DEF Taken
<1> HIDE DEF again
<1>5. ASSUME NEW i \in DOMAIN events
      PROVE  /\ ps[i] \in Seq(EventRows) /\ Len(ps[i]) <= 1
             /\ i \notin Taken(d) => Members(ps[i]) = {events[i]}
             /\ i \in Taken(d) /\ i \notin good /\ ~ GivenUp(i) => Members(ps[i]) = {again(i)}
             /\ i \in good => Members(ps[i]) = {}
             /\ \A e \in Members(ps[i]) :
                  i \notin good /\ Alike(e, events[i]) /\ e.by # d /\ e.by \in {events[i].by, "none"}
  <2>1. CASE i \notin Taken(d)
    <3>1. ps[i] = <<events[i]>> /\ i \notin good
      BY <2>1
    <3>2. QED
      BY <1>2, <1>4, <2>1, <3>1, OneMember DEF Alike
  <2>2. CASE i \in Taken(d) /\ (i \in good \/ GivenUp(i))
    <3>1. ps[i] = <<>>
      BY <2>2
    <3>2. QED
      BY <2>2, <3>1, OneMember
  <2>3. CASE i \in Taken(d) /\ i \notin good /\ ~ GivenUp(i)
    <3>1. ps[i] = <<again(i)>>
      BY <2>3
    <3>2. again(i).by # d
      BY <1>3, <2>3 DEF Dispatchers
    <3>3. QED
      BY <1>3, <2>3, <3>1, <3>2, OneMember
  <2>4. QED
    BY <2>1, <2>2, <2>3
<1>6. DOMAIN ps = 1..Len(events) /\ \A i \in 1..Len(events) : ps[i] \in Seq(EventRows)
  BY <1>2, <1>5
<1>7. ps \in Seq(Seq(EventRows)) /\ DOMAIN ps = DOMAIN events
  <2>1. ps \in [1..Len(events) -> Seq(EventRows)]
    BY <1>2, <1>6
  <2> HIDE DEF ps
  <2>2. QED
    BY <1>2, <1>6, <2>1
<1> HIDE DEF ps
<1>8. J \in Seq(EventRows) /\ Members(J) = UNION {Members(ps[i]) : i \in DOMAIN ps}
  BY <1>7, JoinedMembers
<1> DEFINE P == {e \in EventRows : e.row = 0}
<1>9. \A k, l \in DOMAIN J : J[k] \in P /\ J[l] \in P => k = l
  <2>1. \A i \in DOMAIN ps : Len(ps[i]) <= 1
    BY <1>5, <1>7
  <2>2. ASSUME NEW i \in DOMAIN ps, NEW j \in DOMAIN ps,
               Members(ps[i]) \cap P # {}, Members(ps[j]) \cap P # {}
        PROVE  i = j
    <3>1. events[i].row = 0 /\ events[j].row = 0
      BY <1>5, <1>7, <2>2 DEF Alike
    <3>2. QED
      BY <1>7, <3>1
  <2> HIDE DEF P
  <2>3. QED
    BY <1>7, <2>1, <2>2, JoinedOnce
<1> HIDE DEF J
<1>10. ASSUME NEW i \in DOMAIN events, i \notin Taken(d) \/ (i \notin good /\ ~ GivenUp(i))
       PROVE  \E j \in DOMAIN J : Alike(J[j], events[i]) /\ (i \notin Taken(d) => J[j] = events[i])
  <2>1. PICK e \in Members(ps[i]) : Alike(e, events[i]) /\ (i \notin Taken(d) => e = events[i])
    BY <1>3, <1>5, <1>10
  <2>2. e \in Members(J)
    BY <1>7, <1>8
  <2>3. QED
    BY <2>1, <2>2 DEF Members
<1>11. ASSUME NEW j \in DOMAIN J
       PROVE  \E i \in DOMAIN events \ good :
                 Alike(J[j], events[i]) /\ J[j].by # d /\ J[j].by \in {events[i].by, "none"}
  <2>1. J[j] \in Members(J)
    BY DEF Members
  <2>2. PICK i \in DOMAIN ps : J[j] \in Members(ps[i])
    BY <1>8, <2>1
  <2>3. QED
    BY <1>5, <1>7, <2>2
<1>12. \A k, l \in DOMAIN J : J[k].row = 0 /\ J[l].row = 0 => k = l
  <2>1. \A k \in DOMAIN J : J[k] \in EventRows
    BY <1>8
  <2>2. QED
    BY <1>9, <2>1
<1>13. QED
  BY <1>1, <1>8, <1>10, <1>11, <1>12

(* The rows a batch writes are the mails of the events it planned. *)
LEMMA PlannedRowsAre ==
    ASSUME AnnouncementsTypeOK, \A i \in DOMAIN events : Known(events[i]),
           NEW b, b.seen \in [TurnRows -> TurnStates], NEW good \in SUBSET DOMAIN events
    PROVE  /\ PlannedRows(b, good) \in Seq(Letters)
           /\ \A k \in DOMAIN PlannedRows(b, good) :
                 \E i \in good : PlannedRows(b, good)[k] \in PlannedMails(b, events[i])
           /\ \A i \in good : PlannedMails(b, events[i]) # {} => PlannedRows(b, good) # <<>>
<1> DEFINE qs == [i \in DOMAIN events |->
                     IF i \in good THEN AsRows(PlannedMails(b, events[i])) ELSE <<>>]
           J == Joined(qs)
<1>1. J = PlannedRows(b, good)
  BY DEF PlannedRows
<1>2. /\ events \in Seq(EventRows) /\ Len(events) \in Nat /\ DOMAIN events = 1..Len(events)
      /\ \A i \in DOMAIN events : events[i] \in EventRows
  BY DEF AnnouncementsTypeOK
<1>3. ASSUME NEW i \in good
      PROVE  /\ AsRows(PlannedMails(b, events[i])) \in Seq(Letters)
             /\ Members(AsRows(PlannedMails(b, events[i]))) \subseteq PlannedMails(b, events[i])
             /\ PlannedMails(b, events[i]) # {} => Members(AsRows(PlannedMails(b, events[i]))) # {}
  <2> DEFINE M == PlannedMails(b, events[i])
             x == CHOOSE m \in M : TRUE
  <2>1. M \subseteq Letters
    <3>1. events[i] \in EventRows /\ (events[i].row = 0 => events[i].kind \notin ClientEvents)
      BY <1>2 DEF Known
    <3>2. QED
      BY <3>1, PlansAre
  <2> HIDE DEF M
  <2>2. M # {} => x \in M
    OBVIOUS
  <2> HIDE DEF x
  <2>3. AsRows(M) = IF M = {} THEN <<>> ELSE <<x>>
    BY DEF AsRows, x
  <2>4. CASE M = {}
    <3>1. AsRows(M) = <<>>
      BY <2>3, <2>4
    <3> DEFINE s == AsRows(M)
    <3> HIDE DEF s
    <3>2. s \in Seq(Letters) /\ Members(s) = {}
      <4>1. s = <<>>
        BY <3>1 DEF s
      <4>2. QED
        BY <4>1, NoMember
    <3>3. QED
      BY <2>4, <3>2 DEF M, s
  <2>5. CASE M # {}
    <3>1. AsRows(M) = <<x>> /\ x \in M /\ x \in Letters
      BY <2>1, <2>2, <2>3, <2>5
    <3>2. QED
      BY <3>1, OneMember, SMTT(30) DEF M
  <2>6. QED
    BY <2>4, <2>5
<1>4. ASSUME NEW i \in DOMAIN events
      PROVE  /\ qs[i] \in Seq(Letters)
             /\ i \in good => qs[i] = AsRows(PlannedMails(b, events[i]))
             /\ i \notin good => Members(qs[i]) = {}
  <2>1. i \notin good => qs[i] = <<>>
    OBVIOUS
  <2>2. i \in good => qs[i] = AsRows(PlannedMails(b, events[i]))
    OBVIOUS
  <2> DEFINE q == qs[i]
  <2> HIDE DEF q
  <2>3. i \notin good => q \in Seq(Letters) /\ Members(q) = {}
    <3>1. i \notin good => q = <<>>
      BY <2>1 DEF q
    <3>2. QED
      BY <3>1, NoMember
  <2>4. i \in good => q \in Seq(Letters)
    BY <1>3, <2>2 DEF q
  <2> HIDE DEF qs
  <2>5. QED
    BY <2>2, <2>3, <2>4 DEF q
<1>5. qs \in Seq(Seq(Letters)) /\ DOMAIN qs = DOMAIN events
  <2>1. DOMAIN qs = DOMAIN events
    OBVIOUS
  <2>2. qs \in [1..Len(events) -> Seq(Letters)]
    BY <1>2, <1>4
  <2> HIDE DEF qs
  <2>3. QED
    BY <1>2, <2>1, <2>2
<1> HIDE DEF qs
<1>6. J \in Seq(Letters) /\ Members(J) = UNION {Members(qs[i]) : i \in DOMAIN qs}
  BY <1>5, JoinedMembers
<1> HIDE DEF J
<1>7. ASSUME NEW k \in DOMAIN J PROVE \E i \in good : J[k] \in PlannedMails(b, events[i])
  <2>1. J[k] \in Members(J)
    BY DEF Members
  <2>2. PICK i \in DOMAIN qs : J[k] \in Members(qs[i])
    BY <1>6, <2>1
  <2>3. i \in good
    BY <1>4, <1>5, <2>2
  <2>4. QED
    BY <1>3, <1>4, <1>5, <2>2, <2>3
<1>8. ASSUME NEW i \in good, PlannedMails(b, events[i]) # {} PROVE J # <<>>
  <2>1. Members(qs[i]) # {}
    BY <1>3, <1>4, <1>8
  <2>2. Members(J) # {}
    <3>1. PICK x : x \in Members(qs[i])
      BY <2>1
    <3>2. i \in DOMAIN qs
      BY <1>3, <1>5
    <3>3. x \in Members(J)
      BY <1>6, <3>1, <3>2
    <3>4. QED
      BY <3>3
  <2>3. Members(<<>>) = {}
    BY DEF Members
  <2>4. QED
    BY <2>2, <2>3
<1>9. QED
  BY <1>1, <1>6, <1>7, <1>8

(* Every event for the owner has a notice. *)
LEMMA EveryNotice ==
    ASSUME NEW e, NEW o \in OwnerEvents, e.kind = o.kind, e.detail = o.detail
    PROVE  OwnerNotice(e) # {}
<1>1. o \in OwnerEventKinds
  BY OwnerEventsAssumption
<1>2. CASE e.kind = "payment.received_on_replaced_link"
  BY <1>2 DEF OwnerNotice, ReplacedLinkNotice
<1>3. CASE e.kind = "payment.reversal_of_other_payment"
  BY <1>3 DEF OwnerNotice, OtherPaymentNotice
<1>4. CASE e.kind \in {"appointment.deposit_lapsed", "store.deposit_channel_lost",
                        "store.mercadopago_connection_broken"}
  BY <1>4 DEF OwnerNotice, DepositNotice
<1>5. CASE e.kind = "appointment.booked_online"
  BY <1>5 DEF OwnerNotice, BookedOnlineNotice
<1>6. CASE e.kind \in {"payment.approved", "payment.refunded", "payment.charged_back",
             "payment.in_mediation", "payment.received_on_released_appointment",
             "appointment.cancelled_by_client", "subscription.expiring"}
  BY <1>6 DEF OwnerNotice, StoreNotice
<1>7. CASE e.kind = "appointment.pending_confirmation"
  BY <1>7 DEF OwnerNotice, StoreNotice, PendingConfirmationNotice
<1>8. QED
  BY <1>1, <1>2, <1>3, <1>4, <1>5, <1>6, <1>7 DEF OwnerEventKinds

(* A set of positions of which no two differ has one at most. *)
LEMMA AtMostOne ==
    ASSUME NEW T, \A i, j \in T : i = j
    PROVE  Cardinality(T) \in {0, 1} /\ (T # {} => Cardinality(T) = 1) /\ (T = {} => Cardinality(T) = 0)
<1>1. CASE T = {}
  BY <1>1, FS_EmptySet
<1>2. CASE T # {}
  <2>1. PICK i \in T : T = {i}
    BY <1>2
  <2>2. Cardinality(T) = 1
    BY <2>1, FS_Singleton
  <2>3. QED
    BY <1>2, <2>2
<1>3. QED
  BY <1>1, <1>2

(* What a batch planned is news when it saw the visit as it is; if it did not, another event is pending. *)
LEMMA CommitStep ==
    ASSUME AnnouncementsInv, NEW d \in Dispatchers, NEW good \in SUBSET Taken(d), BatchCommits(d, good)
    PROVE  AnnouncementsInv'
<1> USE DEF AnnouncementsInv
<1> DEFINE told == {i \in good : /\ events[i].kind = bell.of.kind
                                 /\ events[i].row = 0
                                 /\ StillTrue(events[i])
                                 /\ OwnerNotice(events[i]) # {}}
           left == AfterBatch(d, good)
           rows == PlannedRows(batch[d], good)
           lost == \E i \in Taken(d) \ good : GivenUp(i)
<1>1. /\ batch[d].at = "planning"
      /\ events' = left /\ letters' = letters \o rows
      /\ bell' = [bell EXCEPT !.times = @ + Cardinality(told)]
      /\ missed' = (missed \/ lost)
      /\ faults' = faults + Cardinality(Taken(d) \ good)
      /\ faults' <= MaxFaults
      /\ batch' = [batch EXCEPT ![d].at = "mailing"]
      /\ UNCHANGED <<turn, heard, news, crossed, optedOut, autoMails, mpBroken, mailbox, begun>>
  BY DEF BatchCommits, visitVars
<1>2. /\ \A i \in DOMAIN events : events[i] \in EventRows /\ events[i].by \in Dispatchers \cup {"none"}
      /\ \A i \in Taken(d) : i \in DOMAIN events /\ events[i].by = d
      /\ \A i \in DOMAIN events : Known(events[i])
      /\ batch[d] \in Batches /\ batch[d].seen \in [TurnRows -> TurnStates]
  BY EventsHeld, BatchesAre DEF Taken, RowsFollow, Batches
<1>3. /\ left \in Seq(EventRows)
      /\ \A i \in DOMAIN events : i \notin Taken(d) \/ (i \notin good /\ ~ GivenUp(i)) =>
            \E j \in DOMAIN left : Alike(left[j], events[i]) /\ (i \notin Taken(d) => left[j] = events[i])
      /\ \A j \in DOMAIN left :
            \E i \in DOMAIN events \ good :
               Alike(left[j], events[i]) /\ left[j].by # d /\ left[j].by \in {events[i].by, "none"}
      /\ \A k, l \in DOMAIN left : left[k].row = 0 /\ left[l].row = 0 => k = l
  BY AfterBatchIs DEF OwnerHolds
<1>4. /\ rows \in Seq(Letters)
      /\ \A k \in DOMAIN rows : \E i \in good : rows[k] \in PlannedMails(batch[d], events[i])
      /\ \A i \in good : PlannedMails(batch[d], events[i]) # {} => rows # <<>>
  BY <1>2, PlannedRowsAre
<1>5. /\ letters \in Seq(Letters) /\ letters' \in Seq(Letters)
      /\ rows = <<>> => letters' = letters
      /\ rows # <<>> => letters' # <<>> /\ \E k \in DOMAIN rows : letters'[Len(letters')] = rows[k]
  <2> HIDE DEF rows
  <2>1. letters \in Seq(Letters)
    BY DEF AnnouncementsTypeOK
  <2>2. /\ letters' \in Seq(Letters) /\ Len(letters') = Len(letters) + Len(rows)
        /\ \A i \in 1..Len(letters) + Len(rows) :
              letters'[i] = IF i <= Len(letters) THEN letters[i] ELSE rows[i - Len(letters)]
    BY <1>1, <1>4, <2>1, ConcatProperties
  <2>3. rows = <<>> => letters' = letters
    BY <1>1, <2>1
  <2>4. ASSUME rows # <<>>
        PROVE  letters' # <<>> /\ \E k \in DOMAIN rows : letters'[Len(letters')] = rows[k]
    <3>1. Len(rows) \in Nat /\ Len(rows) >= 1 /\ Len(letters) \in Nat /\ DOMAIN rows = 1..Len(rows)
      BY <1>4, <2>1, <2>4
    <3>2. letters'[Len(letters')] = rows[Len(rows)] /\ Len(rows) \in DOMAIN rows
      BY <2>2, <3>1
    <3>3. Len(letters') # 0
      BY <2>2, <3>1
    <3>4. letters' # <<>>
      <4> DEFINE t == letters'
      <4>1. Len(t) # 0
        BY <3>3
      <4> HIDE DEF t
      <4>2. t = <<>> => Len(t) = 0
        OBVIOUS
      <4>3. QED
        BY <4>1, <4>2 DEF t
    <3>5. QED
      BY <3>2, <3>4
  <2>5. QED
    BY <2>1, <2>2, <2>3, <2>4
<1> HIDE DEF left
<1> HIDE DEF rows
<1>6. /\ batch' \in [Dispatchers -> Batches] /\ batch'[d].at = "mailing"
      /\ \A c \in Dispatchers : batch'[c].letter = batch[c].letter
      /\ \A c \in Dispatchers : c # d => batch'[c] = batch[c]
  BY <1>1, <1>2 DEF AnnouncementsTypeOK, Batches
<1>7. /\ \A i, j \in told : i = j
      /\ \A i \in told : i \in good /\ i \in DOMAIN events /\ events[i].row = 0
  BY <1>2 DEF OwnerHolds
<1>8. /\ Cardinality(told) \in {0, 1} /\ (told # {} => Cardinality(told) = 1)
      /\ told = {} => Cardinality(told) = 0
  <2> HIDE DEF told
  <2>1. QED
    BY <1>7, AtMostOne
<1>9. told # {} => bell.times = 0
  BY <1>7 DEF OwnerHolds
<1>10. /\ bell.of \in OwnerEvents \cup {NoOwnerEvent} /\ bell.times \in {0, 1}
       /\ bell'.of = bell.of /\ bell'.times = bell.times + Cardinality(told)
       /\ bell' \in [of : OwnerEvents \cup {NoOwnerEvent}, times : {0, 1}]
  <2> DEFINE n == Cardinality(told)
  <2>1. bell \in [of : OwnerEvents \cup {NoOwnerEvent}, times : {0, 1}]
    BY DEF AnnouncementsTypeOK
  <2>2. n \in {0, 1} /\ bell' = [bell EXCEPT !.times = @ + n] /\ (n = 1 => bell.times = 0)
    BY <1>1, <1>8, <1>9
  <2> HIDE DEF n
  <2>3. bell.times + n \in {0, 1}
    BY <2>1, <2>2
  <2>4. bell' \in [of : OwnerEvents \cup {NoOwnerEvent}, times : {0, 1}] /\ bell'.of = bell.of
        /\ bell'.times = bell.times + n
    BY <2>1, <2>2, <2>3
  <2>5. QED
    BY <2>1, <2>4 DEF n
<1> HIDE DEF told
<1>11. AnnouncementsTypeOK'
  <2>1. faults' \in 0..MaxFaults
    <3>1. Taken(d) \subseteq 1..Len(events) /\ Len(events) \in Nat
      BY DEF Taken, AnnouncementsTypeOK
    <3>2. IsFiniteSet(Taken(d) \ good)
      <4>1. IsFiniteSet(1..Len(events))
        BY <3>1, FS_Interval
      <4>2. QED
        BY <3>1, <4>1, FS_Subset
    <3>3. Cardinality(Taken(d) \ good) \in Nat
      BY <3>2, FS_CardinalityType
    <3>4. QED
      BY <1>1, <3>3, AnnouncementBounds DEF AnnouncementsTypeOK
  <2>2. missed' \in BOOLEAN
    BY <1>1 DEF AnnouncementsTypeOK
  <2>3. QED
    BY <1>1, <1>3, <1>5, <1>6, <1>10, <2>1, <2>2 DEF AnnouncementsTypeOK
<1>12. RowsFollow'
  <2>1. ASSUME NEW j \in DOMAIN events' PROVE Known(events'[j]) /\ events'[j] \in EventRows
    <3>1. PICK i \in DOMAIN events : Alike(events'[j], events[i])
      BY <1>1, <1>3
    <3>2. QED
      BY <1>1, <1>2, <1>3, <3>1 DEF Known, Alike
  <2>2. \A j \in DOMAIN events' : Known(events[j])'
    BY <1>1, <2>1 DEF Known
  <2>3. QED
    BY <1>1, <2>2 DEF RowsFollow, Chained
<1>13. NewsFits'
  BY <1>1 DEF NewsFits
<1>14. RunsHold'
  <2>1. \A i \in DOMAIN events' : events'[i].by # "none" => batch'[events'[i].by].at = "planning"
    <3>1. SUFFICES ASSUME NEW j \in DOMAIN events', events'[j].by # "none"
                   PROVE  batch'[events'[j].by].at = "planning"
      OBVIOUS
    <3>2. PICK i \in DOMAIN events : events'[j].by # d /\ events'[j].by = events[i].by
      BY <1>1, <1>3, <3>1
    <3>3. events[i].by \in Dispatchers /\ batch[events[i].by].at = "planning"
      BY <1>2, <3>1, <3>2 DEF RunsHold
    <3>4. QED
      BY <1>6, <3>2, <3>3
  <2>2. \A c \in Dispatchers : batch'[c].at # "mailing" => batch'[c].letter = NoNews
    BY <1>6 DEF RunsHold
  <2>3. ~ crossed' => \A c \in Dispatchers : Busy(c)' => ~ Busy(Other(c))'
    BY <1>1, <1>6, OtherIs DEF RunsHold, Busy
  <2>4. QED
    BY <2>1, <2>2, <2>3 DEF RunsHold, Other
<1>15. NewsOnItsWay'
  <2>1. SUFFICES ASSUME Expected'
                 PROVE  PlansSeeNow' /\ ((\E i \in DOMAIN events : Carries(events[i]))' \/ LastIsNews')
    BY DEF NewsOnItsWay
  <2>2. Expected /\ ~ lost
    BY <1>1, <2>1 DEF Expected
  <2>3. \A c \in Dispatchers : c # d => batch[c].at = "idle"
    <3>1. Busy(d)
      BY <1>1 DEF Busy
    <3>2. ~ Busy(Other(d))
      BY <2>2, <3>1 DEF RunsHold, Expected
    <3>3. QED
      BY <3>2, OtherIs DEF Busy
  <2>4. PlansSeeNow'
    BY <1>6, <2>3 DEF PlansSeeNow
  <2>5. ASSUME NEW i \in DOMAIN events, i \notin good, Carries(events[i])
        PROVE  (\E j \in DOMAIN events : Carries(events[j]))'
    <3>1. i \notin Taken(d) \/ ~ GivenUp(i)
      BY <2>2, <2>5
    <3>2. PICK j \in DOMAIN left : Alike(left[j], events[i])
      BY <1>3, <2>5, <3>1
    <3>3. PlannedMails(BatchContext, events[j])' = PlannedMails(BatchContext, events[i])
      BY <1>1, <3>2 DEF Alike, PlannedMails, PanelClientMail, ClientConfirmation, BatchContext, MayInvite
    <3>4. QED
      BY <1>1, <2>5, <3>2, <3>3 DEF Carries
  <2>6. CASE \E i \in DOMAIN events : events[i].by = "none" /\ Carries(events[i])
    <3>1. PICK i \in DOMAIN events : events[i].by = "none" /\ Carries(events[i])
      BY <2>6
    <3>2. i \notin good
      BY <1>2, <3>1 DEF Dispatchers
    <3>3. QED
      BY <2>4, <2>5, <3>1, <3>2
  <2>7. ASSUME PlansSeeNow, rows # <<>> PROVE LastIsNews'
    <3>1. PICK k \in DOMAIN rows : letters'[Len(letters')] = rows[k] /\ letters' # <<>>
      BY <1>5, <2>7
    <3>2. PICK i \in good : rows[k] \in PlannedMails(batch[d], events[i])
      BY <1>4
    <3>3. batch[d].seen = turn /\ news # NoNews
      BY <1>1, <2>2, <2>7 DEF PlansSeeNow, Expected
    <3>4. i \in DOMAIN events /\ events[i] \in EventRows /\ Known(events[i]) /\ Chained
      BY <1>2 DEF RowsFollow
    <3>5. IsNews(rows[k])
      BY <3>2, <3>3, <3>4, NowIsNews
    <3>6. QED
      BY <1>1, <3>1, <3>5 DEF LastIsNews, IsNews
  <2>8. CASE PlansSeeNow /\ \E i \in DOMAIN events : Carries(events[i])
    <3>1. PICK i \in DOMAIN events : Carries(events[i])
      BY <2>8
    <3>2. CASE i \in good
      <4>1. batch[d].seen = turn /\ news # NoNews /\ BatchContext.seen = turn
        BY <1>1, <2>2, <2>8 DEF PlansSeeNow, Expected, BatchContext
      <4>2. events[i] \in EventRows /\ Known(events[i]) /\ Chained
        BY <1>2 DEF RowsFollow
      <4>3. PlannedMails(batch[d], events[i]) = PlannedMails(BatchContext, events[i])
        BY <4>1, <4>2, OptOutIsSilent
      <4>4. rows # <<>>
        BY <1>4, <3>1, <3>2, <4>3 DEF Carries
      <4>5. QED
        BY <2>4, <2>7, <2>8, <4>4
    <3>3. CASE i \notin good
      BY <2>4, <2>5, <3>1, <3>3
    <3>4. QED
      BY <3>2, <3>3
  <2>9. CASE PlansSeeNow /\ LastIsNews
    <3>1. CASE rows = <<>>
      <4>1. letters' = letters
        BY <1>5, <3>1
      <4>2. InHand' = InHand
        BY <1>6 DEF InHand
      <4>3. LastIsNews'
        BY <1>1, <1>6, <2>9, <4>1, <4>2 DEF LastIsNews, IsNews
      <4>4. QED
        BY <2>4, <4>3
    <3>2. CASE rows # <<>>
      BY <2>4, <2>7, <2>9, <3>2
    <3>3. QED
      BY <3>1, <3>2
  <2>10. QED
    BY <2>2, <2>6, <2>8, <2>9 DEF NewsOnItsWay
<1>16. OwnerHolds'
  <2>1. \A i, j \in DOMAIN events' : events'[i].row = 0 /\ events'[j].row = 0 => i = j
    BY <1>1, <1>3
  <2>2. ASSUME NEW j \in DOMAIN events', events'[j].row = 0
        PROVE  /\ bell'.of # NoOwnerEvent /\ bell'.times = 0
               /\ events'[j].kind = bell'.of.kind /\ events'[j].detail = bell'.of.detail
    <3>1. PICK i \in DOMAIN events \ good : Alike(events'[j], events[i])
      BY <1>1, <1>3
    <3>2. events[i].row = 0 /\ bell.of # NoOwnerEvent /\ bell.times = 0
          /\ events[i].kind = bell.of.kind /\ events[i].detail = bell.of.detail
      BY <2>2, <3>1 DEF Alike, OwnerHolds
    <3>3. told = {}
      BY <1>7, <3>1, <3>2 DEF OwnerHolds
    <3>4. QED
      BY <1>8, <1>10, <3>1, <3>2, <3>3 DEF Alike
  <2>3. OwnerIsTold'
    <3>1. SUFFICES ASSUME bell.of # NoOwnerEvent
                   PROVE  \/ bell'.times = 1
                          \/ missed'
                          \/ \E i \in DOMAIN events' : events'[i].kind = bell.of.kind /\ events'[i].row = 0
                          \/ bell.of.kind = "store.mercadopago_connection_broken" /\ ~mpBroken
      BY <1>1, <1>10 DEF OwnerIsTold
    <3>2. CASE bell.times = 1 \/ missed \/ (bell.of.kind = "store.mercadopago_connection_broken" /\ ~mpBroken)
      <4>1. bell.times = 1 => bell'.times = 1
        <5>1. bell.times = 1 => Cardinality(told) = 0
          BY <1>8, <1>9
        <5>2. QED
          BY <1>10, <5>1
      <4>2. QED
        BY <1>1, <3>2, <4>1
    <3>3. CASE \E i \in DOMAIN events : events[i].kind = bell.of.kind /\ events[i].row = 0
      <4>1. PICK i \in DOMAIN events : events[i].kind = bell.of.kind /\ events[i].row = 0
        BY <3>3
      <4>2. CASE i \notin good /\ (i \notin Taken(d) \/ ~ GivenUp(i))
        <5>1. \E j \in DOMAIN left : Alike(left[j], events[i])
          BY <1>3, <4>2
        <5>2. QED
          BY <1>1, <4>1, <5>1 DEF Alike
      <4>3. CASE i \in Taken(d) /\ i \notin good /\ GivenUp(i)
        BY <1>1, <4>3
      <4>4. CASE i \in good
        <5>1. bell.times = 0 /\ events[i].detail = bell.of.detail /\ bell.of \in OwnerEvents
          BY <1>10, <3>1, <4>1 DEF OwnerHolds
        <5>2. OwnerNotice(events[i]) # {}
          BY <4>1, <5>1, EveryNotice
        <5>3. CASE StillTrue(events[i])
          <6>1. told # {}
            BY <4>1, <4>4, <5>2, <5>3 DEF told
          <6>2. QED
            BY <1>8, <1>10, <5>1, <6>1
        <5>4. CASE ~ StillTrue(events[i])
          BY <4>1, <5>4 DEF StillTrue
        <5>5. QED
          BY <5>3, <5>4
      <4>5. QED
        BY <4>2, <4>3, <4>4
    <3>4. QED
      BY <3>1, <3>2, <3>3 DEF OwnerHolds, OwnerIsTold
  <2>4. QED
    BY <2>1, <2>2, <2>3 DEF OwnerHolds
<1>17. QED
  BY <1>11, <1>12, <1>13, <1>14, <1>15, <1>16

(* The client opts out, or the store's connection works again. *)
LEMMA VisitStep ==
    ASSUME AnnouncementsInv, (\E link \in {"live", "expired"} : OptOut(link)) \/ Reconnect
    PROVE  AnnouncementsInv'
<1> USE DEF AnnouncementsInv
<1>1. /\ UNCHANGED <<turn, events, letters, batch, heard, news, missed, crossed, autoMails,
                     mailbox,
                     begun, faults, bell>>
      /\ optedOut' \in BOOLEAN /\ mpBroken' \in BOOLEAN
      /\ mpBroken' = mpBroken \/ mpBroken' = FALSE
  BY DEF OptOut, Reconnect, AnnouncementsTypeOK
<1>2. AnnouncementsTypeOK'
  BY <1>1 DEF AnnouncementsTypeOK
<1>3. RowsFollow'
  BY <1>1 DEF RowsFollow, Chained, Known
<1>4. NewsFits'
  BY <1>1 DEF NewsFits
<1>5. RunsHold'
  BY <1>1 DEF RunsHold, Busy, Other
<1>6. OwnerHolds'
  BY <1>1 DEF OwnerHolds, OwnerIsTold
<1>7. NewsOnItsWay'
  <2>1. SUFFICES ASSUME Expected' PROVE NewsOnItsWay'
    BY DEF NewsOnItsWay
  <2>2. Expected /\ news # NoNews
    BY <1>1, <2>1 DEF Expected
  <2>3. ASSUME NEW i \in DOMAIN events, Carries(events[i]) PROVE Carries(events[i])'
    <3> DEFINE e == events[i]
               c == [seen |-> turn, optedOut |-> optedOut']
    <3>1. e \in EventRows /\ Known(e) /\ c.seen = turn /\ BatchContext.seen = turn
      BY EventsHeld DEF RowsFollow, BatchContext
    <3>2. PlannedMails(BatchContext, e) = PlannedMails(c, e)
      <4> HIDE DEF c
      <4> HIDE DEF e
      <4>1. QED
        BY <2>2, <3>1, OptOutIsSilent DEF RowsFollow
    <3>3. PlannedMails(BatchContext, events[i])' = PlannedMails(c, e)
      BY <1>1 DEF PlannedMails, PanelClientMail, ClientConfirmation, BatchContext, MayInvite
    <3>4. QED
      BY <2>3, <3>2, <3>3 DEF Carries
  <2>4. PlansSeeNow => PlansSeeNow'
    BY <1>1 DEF PlansSeeNow
  <2>5. LastIsNews => LastIsNews'
    BY <1>1 DEF LastIsNews, IsNews, InHand
  <2>6. QED
    BY <1>1, <2>2, <2>3, <2>4, <2>5 DEF NewsOnItsWay
<1>8. QED
  BY <1>2, <1>3, <1>4, <1>5, <1>6, <1>7

(* Nothing was announced at the start. *)
LEMMA AnnouncementsStart == AnnouncementsInit => AnnouncementsInv
<1> SUFFICES ASSUME AnnouncementsInit PROVE AnnouncementsInv
  OBVIOUS
<1>1. PICK e \in OwnerEvents \cup {NoOwnerEvent} :
       
        /\ \E s \in IF e = NoOwnerEvent THEN {"none", "pending", "pending_payment"} ELSE {"cancelled"} :
              turn = [r \in TurnRows |-> IF r = 1 THEN s ELSE "none"]
        /\ bell = [of |-> e, times |-> 0]
        /\ events = IF e = NoOwnerEvent THEN <<>> ELSE <<FromOwner(e)>>
        /\ mpBroken = (e.kind = "store.mercadopago_connection_broken")
  BY DEF AnnouncementsInit
<1>2. /\ begun = {} /\ faults = 0 /\ letters = <<>> /\ batch = [d \in Dispatchers |-> IdleBatch]
      /\ heard = NoNews /\ news = NoNews /\ missed = FALSE /\ crossed = FALSE /\ optedOut = FALSE
      /\ autoMails \in BOOLEAN /\ mailbox \in BOOLEAN
  BY DEF AnnouncementsInit
<1>3. PICK s \in {"none", "pending", "pending_payment", "cancelled"} :
        turn = [r \in TurnRows |-> IF r = 1 THEN s ELSE "none"]
  BY <1>1
<1>4. s \in TurnStates /\ "none" \in TurnStates
  BY DEF TurnStates, OpenTurn
<1>5. turn \in [TurnRows -> TurnStates]
  BY <1>3, <1>4
<1>6. /\ DOMAIN events = IF e = NoOwnerEvent THEN {} ELSE {1}
      /\ e # NoOwnerEvent => events[1] = FromOwner(e) /\ e \in OwnerEvents
      /\ events \in Seq(EventRows)
  <2>1. CASE e = NoOwnerEvent
    <3>1. events = <<>>
      BY <1>1, <2>1
    <3>2. events \in Seq(EventRows)
      BY <3>1, NoMember
    <3>3. DOMAIN events = {}
      BY <3>1
    <3>4. QED
      BY <2>1, <3>2, <3>3
  <2>2. CASE e # NoOwnerEvent
    <3>1. events = <<FromOwner(e)>> /\ e \in OwnerEvents /\ FromOwner(e) \in EventRows
      BY <1>1, <2>2, OwnerEventsAreRows
    <3>2. events \in Seq(EventRows) /\ DOMAIN events = {1} /\ events[1] = FromOwner(e)
      BY <3>1
    <3>3. QED
      BY <2>2, <3>1, <3>2
  <2>3. QED
    BY <2>1, <2>2
<1>7. \A i \in DOMAIN events : /\ e # NoOwnerEvent /\ i = 1 /\ events[i] = FromOwner(e)
                               /\ FromOwner(e).row = 0 /\ FromOwner(e).kind = e.kind
                               /\ FromOwner(e).detail = e.detail /\ FromOwner(e).by = "none"
                               /\ FromOwner(e).kind \notin ClientEvents
  BY <1>6, OwnerEventsAreRows DEF FromOwner
<1>8. \A d \in Dispatchers : batch[d] = IdleBatch /\ IdleBatch.at = "idle" /\ IdleBatch.letter = NoNews
                             /\ IdleBatch \in Batches
  BY <1>2 DEF IdleBatch, Batches, TurnStates
<1>9. AnnouncementsTypeOK
  <2>1. batch \in [Dispatchers -> Batches]
    BY <1>2, <1>8
  <2>2. bell \in [of : OwnerEvents \cup {NoOwnerEvent}, times : {0, 1}]
    BY <1>1
  <2>3. letters \in Seq(Letters) /\ faults \in 0..MaxFaults
    BY <1>2, AnnouncementBounds
  <2>4. mpBroken \in BOOLEAN
    BY <1>1
  <2>5. QED
    BY <1>2, <1>5, <1>6, <2>1, <2>2, <2>3, <2>4 DEF AnnouncementsTypeOK
<1>10. RowsFollow
  <2>1. Chained
    <3>1. SUFFICES ASSUME NEW q \in TurnRows, NEW r \in TurnRows, q < r, turn[r] # "none"
                   PROVE  FALSE
      BY DEF Chained
    <3>2. r = 1
      BY <1>3, <3>1
    <3>3. ~ (q < 1)
      BY DEF TurnRows
    <3>4. QED
      BY <3>1, <3>2, <3>3
  <2>2. QED
    BY <1>7, <2>1 DEF RowsFollow, Known
<1>11. NewsFits /\ NewsOnItsWay
  BY <1>2 DEF NewsFits, NewsOnItsWay, Expected
<1>12. RunsHold
  BY <1>7, <1>8 DEF RunsHold, Busy
<1>13. OwnerHolds
  <2>1. bell.of = e /\ bell.times = 0
    BY <1>1
  <2>2. \A i, j \in DOMAIN events : i = j
    BY <1>7
  <2>3. OwnerIsTold
    <3>1. e # NoOwnerEvent => 1 \in DOMAIN events /\ events[1].kind = e.kind /\ events[1].row = 0
      BY <1>6, <1>7
    <3>2. QED
      BY <2>1, <3>1 DEF OwnerIsTold
  <2>4. QED
    BY <1>7, <2>1, <2>2, <2>3 DEF OwnerHolds
<1>14. QED
  BY <1>9, <1>10, <1>11, <1>12, <1>13 DEF AnnouncementsInv

(* Every step keeps the invariant. *)
LEMMA AnnouncementsStep == AnnouncementsInv /\ [AnnouncementsNext]_announcementVars => AnnouncementsInv'
<1> SUFFICES ASSUME AnnouncementsInv, [AnnouncementsNext]_announcementVars PROVE AnnouncementsInv'
  OBVIOUS
<1>1. CASE BookOwn \/ \E past \in BOOLEAN : BookForClient(past)
  BY <1>1, BookStep
<1>2. ASSUME NEW r \in TurnRows, ConfirmTurn(r) \/ DepositConfirms(r) \/ DepositApproved(r)
      PROVE  AnnouncementsInv'
  BY <1>2, ConfirmStep
<1>3. ASSUME NEW r \in TurnRows,
             CompleteTurn(r) \/ MarkAbsent(r) \/ ReleaseTurn(r) \/ CancelTurn(r) \/ BulkCancelTurn(r)
      PROVE  AnnouncementsInv'
  BY <1>3, EndStep
<1>4. ASSUME NEW r \in TurnRows, NEW past \in BOOLEAN, RescheduleTurn(r, past)
      PROVE  AnnouncementsInv'
  BY <1>4, RescheduleStep
<1>5. CASE (\E link \in {"live", "expired"} : OptOut(link)) \/ Reconnect
  BY <1>5, VisitStep
<1>6. ASSUME NEW d \in Dispatchers, BatchReads(d) PROVE AnnouncementsInv'
  BY <1>6, ReadsStep
<1>7. ASSUME NEW d \in Dispatchers, ClaimNextEmail(d) PROVE AnnouncementsInv'
  BY <1>7, ClaimStep
<1>8. ASSUME NEW d \in Dispatchers, DispatchEnds(d) \/ BatchDies(d) PROVE AnnouncementsInv'
  BY <1>8, EndsStep
<1>9. ASSUME NEW d \in Dispatchers, NEW good \in SUBSET Taken(d), BatchCommits(d, good)
      PROVE  AnnouncementsInv'
  BY <1>9, CommitStep
<1>10. ASSUME NEW d \in Dispatchers, NEW ok \in BOOLEAN, SendLetter(d, ok) PROVE AnnouncementsInv'
  BY <1>10, SendStep
<1>11. CASE UNCHANGED announcementVars
  <2> USE <1>11 DEF announcementVars, AnnouncementsInv
  <2>1. AnnouncementsTypeOK'
    BY DEF AnnouncementsTypeOK
  <2>2. RowsFollow' /\ NewsFits'
    BY DEF RowsFollow, Chained, Known, NewsFits
  <2>3. RunsHold'
    BY DEF RunsHold, Busy, Other
  <2>4. OwnerHolds'
    BY DEF OwnerHolds, OwnerIsTold
  <2>5. \A i \in DOMAIN events : PlannedMails(BatchContext, events[i])' = PlannedMails(BatchContext, events[i])
    BY DEF PlannedMails, PanelClientMail, ClientConfirmation, BatchContext, MayInvite
  <2>6. NewsOnItsWay'
    BY <2>5 DEF NewsOnItsWay, Expected, PlansSeeNow, LastIsNews, IsNews, InHand, Carries
  <2>7. QED
    BY <2>1, <2>2, <2>3, <2>4, <2>6
<1>12. QED
  BY <1>1, <1>2, <1>3, <1>4, <1>5, <1>6, <1>7, <1>8, <1>9, <1>10, <1>11 DEF AnnouncementsNext

(* With nothing in the queues, the news can only be what the client heard. *)
LEMMA EveryoneHears == AnnouncementsInv => EveryoneIsTold
<1> SUFFICES ASSUME AnnouncementsInv PROVE EveryoneIsTold
  OBVIOUS
<1>1. OwnerIsTold
  BY DEF AnnouncementsInv, OwnerHolds
<1>2. LastMailIsNews
  <2>1. SUFFICES ASSUME AllQuiet, mailbox, ~ missed, ~ crossed, news # NoNews
                 PROVE  heard # NoNews /\ Belief(heard) = Belief(news)
    BY DEF LastMailIsNews
  <2>2. events = <<>> /\ letters = <<>> /\ \A d \in Dispatchers : batch[d].letter = NoNews
    BY <2>1 DEF AllQuiet, AnnouncementsInv, RunsHold, Busy
  <2>3. DOMAIN events = {} /\ InHand = {}
    BY <2>2 DEF InHand
  <2>4. IsNews(heard)
    BY <2>1, <2>2, <2>3 DEF AnnouncementsInv, NewsOnItsWay, Expected, LastIsNews
  <2>5. heard # NoNews
    <3>1. news.row # 0 /\ news \in Letters
      BY <2>1, RowsAre DEF AnnouncementsInv, AnnouncementsTypeOK, Letters, TurnRows
    <3>2. QED
      BY <2>4, <3>1 DEF IsNews, Belief, NoNews
  <2>6. QED
    BY <2>4, <2>5 DEF IsNews
<1>3. QED
  BY <1>1, <1>2 DEF EveryoneIsTold

(* Whatever fails, dies or overlaps, the last mail the client got says what he is to know,
   unless a mail was lost or two runs met; and the owner gets one notice. *)
THEOREM EverybodyHears == AnnouncementsSpec => []EveryoneIsTold
<1>1. QED
  BY AnnouncementsStart, AnnouncementsStep, EveryoneHears, PTL DEF AnnouncementsSpec
=============================================================================
