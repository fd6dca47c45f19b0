----------------------------- MODULE BeatProofs ------------------------------
(* What time brings back: the breaker around Mercado Pago, the offers of the  *)
(* waiting list, the billing of the stores; for any number of calls, entries, *)
(* slots, stores and requests, and any limits.                                *)
EXTENDS CircuitBreaker, Waitlist, Billing, SequenceTheorems, TLAPS

(* The breaker                                                                *)

BreakerInv == BreakerTypeOK /\ OpenIffThreshold
ProbeInv == BreakerInv /\ NoOrphanProbe

(* The initial, idle breaker satisfies the invariant.                      *)
LEMMA InitProbeInv == BreakerInit => ProbeInv
  BY ThresholdAssumption
  DEF BreakerInit, BreakerInv, ProbeInv, BreakerTypeOK, NoOrphanProbe, OpenIffThreshold,
      CircuitStates, CallStates

(* Every step of every call preserves the counting of failures.            *)
LEMMA NextBreakerInv == BreakerInv /\ [BreakerNext]_breakerVars => BreakerInv'
<1> SUFFICES ASSUME BreakerInv, [BreakerNext]_breakerVars PROVE BreakerInv'
  OBVIOUS
<1> USE ThresholdAssumption
    DEF BreakerInv, BreakerTypeOK, OpenIffThreshold, CircuitStates, CallStates
<1>1. CASE Cool \/ Drain
  BY <1>1 DEF Cool, Drain
<1>2. ASSUME NEW c \in Calls, Admit(c) PROVE BreakerInv'
  BY <1>2 DEF Admit, AdmitNormal, AdmitProbe, RejectHalfOpen
<1>3. ASSUME NEW c \in Calls, MarkSuccess(c) PROVE BreakerInv'
  BY <1>3 DEF MarkSuccess
<1>4. ASSUME NEW c \in Calls, MarkFailure(c) PROVE BreakerInv'
  BY <1>4 DEF MarkFailure, OpenCircuit
<1>5. ASSUME NEW c \in Calls, ReleaseProbe(c) PROVE BreakerInv'
  BY <1>5 DEF ReleaseProbe
<1>6. CASE UNCHANGED breakerVars
  BY <1>6 DEF breakerVars
<1>7. QED
  BY <1>1, <1>2, <1>3, <1>4, <1>5, <1>6 DEF BreakerNext, Report

(* A step that is not a drain keeps a running probe behind the flag.       *)
LEMMA NextKeepsProbe ==
    BreakerTypeOK /\ NoOrphanProbe /\ [BreakerNext]_breakerVars => NoOrphanProbe' \/ Drain
<1> SUFFICES ASSUME BreakerTypeOK, NoOrphanProbe, [BreakerNext]_breakerVars, ~Drain
             PROVE  NoOrphanProbe'
  OBVIOUS
<1> USE DEF BreakerTypeOK, NoOrphanProbe, CallStates
<1>1. CASE Cool
  BY <1>1 DEF Cool
<1>2. ASSUME NEW c \in Calls, Admit(c) PROVE NoOrphanProbe'
  BY <1>2 DEF Admit, AdmitNormal, AdmitProbe, RejectHalfOpen
<1>3. ASSUME NEW c \in Calls, MarkSuccess(c) PROVE NoOrphanProbe'
  BY <1>3 DEF MarkSuccess
<1>4. ASSUME NEW c \in Calls, MarkFailure(c) PROVE NoOrphanProbe'
  BY <1>4 DEF MarkFailure, OpenCircuit
<1>5. ASSUME NEW c \in Calls, ReleaseProbe(c) PROVE NoOrphanProbe'
  BY <1>5 DEF ReleaseProbe
<1>6. CASE UNCHANGED breakerVars
  BY <1>6 DEF breakerVars
<1>7. QED
  BY <1>1, <1>2, <1>3, <1>4, <1>5, <1>6 DEF BreakerNext, Report

(* However many calls interleave, report late or are cut, the circuit is   *)
(* away from closed exactly when Threshold failures have been counted.     *)
THEOREM BreakerCounts == BreakerSpec => []OpenIffThreshold
<1>1. BreakerInit => BreakerInv
  BY InitProbeInv DEF ProbeInv
<1>2. BreakerInv => OpenIffThreshold
  BY DEF BreakerInv
<1>3. QED
  BY <1>1, <1>2, NextBreakerInv, PTL DEF BreakerSpec

(* In any process, no end of a call but a cancellation from outside leaves *)
(* the half-open flag without its probe.                                   *)
THEOREM DrainIsTheOnlyLeak == BreakerSpec => OnlyDrainOrphans
<1>1. BreakerInit => BreakerInv
  BY InitProbeInv DEF ProbeInv
<1>2. BreakerInv /\ [BreakerNext]_breakerVars => [NoOrphanProbe => NoOrphanProbe' \/ Drain]_breakerVars
  BY NextKeepsProbe DEF BreakerInv
<1>3. QED
  BY <1>1, <1>2, NextBreakerInv, PTL DEF BreakerSpec, OnlyDrainOrphans

(* In a process that cancels no task from outside (the API), the half-open *)
(* flag always has a running probe that will clear it.                     *)
THEOREM ProbeHasOwner ==
    ASSUME "drained" \notin Cuts
    PROVE  BreakerSpec => []NoOrphanProbe
<1>1. ProbeInv /\ [BreakerNext]_breakerVars => ProbeInv'
  BY NextBreakerInv, NextKeepsProbe DEF ProbeInv, BreakerInv, Drain
<1>2. ProbeInv => NoOrphanProbe
  BY DEF ProbeInv
<1>3. QED
  BY <1>1, <1>2, InitProbeInv, PTL DEF BreakerSpec

------------------------------------------------------------------------------
(* The waiting list. The entry whose lapse the beat counts is locked, so it is *)
(* still open when it goes back to the queue (LapsedIsOpen).                  *)

(* An offer names a slot. *)
OffersNameASlot == \A e \in WlEntries : entry[e].status = "offered" => entry[e].slot \in WlSlots

(* The entry the beat holds locked is open until the beat commits or dies; the *)
(* consumer holds none.                                                        *)
LapsedIsOpen ==
    /\ worker["consumer"].lapsed = NoEntry
    /\ worker["beat"].lapsed # NoEntry =>
          /\ worker["beat"].slot # NoSlot
          /\ entry[worker["beat"].lapsed].status \in OpenStatuses

WaitlistInv == WaitlistTypeOK /\ OffersNameASlot /\ LapsedIsOpen /\ NoDuplicateEntry

(* Nobody is on the list at the start. *)
LEMMA InitWaitlistInv == WaitlistInit => WaitlistInv
<1> SUFFICES ASSUME WaitlistInit PROVE WaitlistInv
  OBVIOUS
<1> DEFINE none == [status |-> "absent", lapsed |-> 0, slot |-> NoSlot, offer |-> "none"]
<1>1. none \in EntryRows /\ none.status = "absent"
  BY WaitlistAssumption DEF EntryRows, WlStatuses
<1>2. IdleWorker \in WorkerStates /\ IdleWorker.lapsed = NoEntry
  BY DEF IdleWorker, WorkerStates
<1>3. entry = [e \in WlEntries |-> none]
  BY DEF WaitlistInit
<1> HIDE DEF none
<1>4. WaitlistTypeOK
  BY <1>1, <1>2, <1>3 DEF WaitlistInit, WaitlistTypeOK
<1>5. \A e \in WlEntries : entry[e].status = "absent"
  BY <1>1, <1>3
<1>6. QED
  BY <1>2, <1>4, <1>5 DEF WaitlistInv, WaitlistInit, OffersNameASlot, LapsedIsOpen,
     NoDuplicateEntry, OpenEntries, OpenStatuses, WlWorkers

(* A step that leaves each entry as it was, or closes it when the beat does not *)
(* hold it, keeps what is said of the entries.                                  *)
LEMMA EntriesClose ==
    ASSUME WaitlistInv, entry' \in [WlEntries -> EntryRows], worker' = worker,
           \A e \in WlEntries :
              \/ entry'[e].status = entry[e].status /\ entry'[e].slot = entry[e].slot
              \/ entry'[e].status \notin OpenStatuses /\ ~ LockedByBeat(e)
    PROVE  OffersNameASlot' /\ LapsedIsOpen' /\ NoDuplicateEntry'
<1>1. OffersNameASlot'
  BY DEF WaitlistInv, OffersNameASlot, OpenStatuses
<1>2. worker["beat"].lapsed \in WlEntries \cup {NoEntry}
  BY DEF WaitlistInv, WaitlistTypeOK, WorkerStates, WlWorkers
<1>3. LapsedIsOpen'
  BY <1>2 DEF WaitlistInv, LapsedIsOpen, LockedByBeat
<1>4. OpenEntries' \subseteq OpenEntries
  BY DEF OpenEntries
<1>5. NoDuplicateEntry'
  BY <1>4 DEF WaitlistInv, NoDuplicateEntry
<1>6. QED
  BY <1>1, <1>3, <1>5

(* A step that writes no entry, and leaves the beat what it held or nothing. *)
LEMMA EntriesStay ==
    ASSUME WaitlistInv, UNCHANGED entry, worker' \in [WlWorkers -> WorkerStates],
           worker'["consumer"].lapsed = NoEntry,
           worker'["beat"] = worker["beat"] \/ worker'["beat"].lapsed = NoEntry
    PROVE  OffersNameASlot' /\ LapsedIsOpen' /\ NoDuplicateEntry'
BY DEF WaitlistInv, OffersNameASlot, LapsedIsOpen, NoDuplicateEntry, OpenEntries

(* Closing an entry leaves a row of the table with the status asked. *)
LEMMA ClosedRow ==
    ASSUME NEW x \in EntryRows, NEW status \in WlStatuses
    PROVE  /\ Closed(x, status) \in EntryRows /\ Closed(x, status).status = status
           /\ Closed(x, status).lapsed = x.lapsed
BY DEF Closed, EntryRows

(* What mark_booked does to the entries of a phone. *)
LEMMA BookedRows ==
    ASSUME WaitlistInv, NEW phone, NoneLockedByBeat(phone)
    PROVE  /\ MarkBooked(phone) \in [WlEntries -> EntryRows]
           /\ \A e \in WlEntries :
                 \/ MarkBooked(phone)[e] = entry[e]
                 \/ MarkBooked(phone)[e].status \notin OpenStatuses /\ ~ LockedByBeat(e)
<1>1. ASSUME NEW e \in WlEntries, WlPhone(e) = phone, e \in OpenEntries
      PROVE  /\ Closed(entry[e], "booked") \in EntryRows
             /\ Closed(entry[e], "booked").status \notin OpenStatuses /\ ~ LockedByBeat(e)
  <2>1. entry[e] \in EntryRows
    BY DEF WaitlistInv, WaitlistTypeOK
  <2>2. "booked" \in WlStatuses /\ "booked" \notin OpenStatuses
    BY DEF WlStatuses, OpenStatuses
  <2>3. QED
    BY <1>1, <2>1, <2>2, ClosedRow DEF NoneLockedByBeat
<1>2. \A e \in WlEntries : MarkBooked(phone)[e] =
         IF WlPhone(e) = phone /\ e \in OpenEntries THEN Closed(entry[e], "booked") ELSE entry[e]
  BY DEF MarkBooked
<1>3. \A e \in WlEntries : entry[e] \in EntryRows
  BY DEF WaitlistInv, WaitlistTypeOK
<1>4. MarkBooked(phone) \in [WlEntries -> EntryRows]
  BY <1>1, <1>3 DEF MarkBooked
<1>5. QED
  BY <1>1, <1>2, <1>4

(* What the lapse of an offer writes is a row of the table. *)
LEMMA LapsedRow ==
    ASSUME NEW x \in EntryRows
    PROVE  /\ LapseOffer(x) \in EntryRows /\ LapseOffer(x).status # "offered"
<1>0. /\ x.status \in WlStatuses /\ x.lapsed \in 0..MaxLapsedOffers
      /\ x.slot \in WlSlots \cup {NoSlot} /\ MaxLapsedOffers \in Nat
  BY WaitlistAssumption DEF EntryRows
<1>1. CASE x.lapsed + 1 >= MaxLapsedOffers
  <2> DEFINE c == Closed(x, "expired")
  <2>1. c \in EntryRows /\ c.status = "expired"
    BY ClosedRow DEF WlStatuses
  <2> HIDE DEF c
  <2>2. LapseOffer(x) = [c EXCEPT !.lapsed = MaxLapsedOffers]
    BY <1>1 DEF LapseOffer, c
  <2>3. QED
    BY <1>0, <2>1, <2>2 DEF EntryRows
<1>2. CASE ~ (x.lapsed + 1 >= MaxLapsedOffers)
  <2>1. LapseOffer(x) = [x EXCEPT !.lapsed = x.lapsed + 1, !.offer = "none", !.status = "waiting"]
    BY <1>2 DEF LapseOffer
  <2>2. x.lapsed + 1 \in 0..MaxLapsedOffers
    BY <1>0, <1>2
  <2>3. QED
    BY <2>1, <2>2 DEF EntryRows, WlStatuses, OpenStatuses
<1>3. QED
  BY <1>1, <1>2

(* The commit of an offer, by the beat or by a consumer, keeps the invariant. *)
LEMMA CommitKeeps ==
    ASSUME WaitlistInv, NEW w \in WlWorkers, OfferCommits(w)
    PROVE  WaitlistInv'
<1> DEFINE me == worker[w]
<1>0. /\ me \in WorkerStates /\ me.slot \in WlSlots /\ me.lapsed \in WlEntries \cup {NoEntry}
      /\ me.pick \in WlEntries \cup {NoEntry} /\ \A e \in WlEntries : entry[e] \in EntryRows
  BY DEF WaitlistInv, WaitlistTypeOK, WorkerStates, OfferCommits
<1>1. /\ IdleWorker \in WorkerStates /\ IdleWorker.lapsed = NoEntry
  BY DEF IdleWorker, WorkerStates
<1>2. /\ worker' \in [WlWorkers -> WorkerStates] /\ worker'[w] = IdleWorker
      /\ \A v \in WlWorkers \ {w} : worker'[v] = worker[v]
  BY <1>1 DEF WaitlistInv, WaitlistTypeOK, OfferCommits
<1>3. worker'["consumer"].lapsed = NoEntry
  BY <1>1, <1>2 DEF WaitlistInv, LapsedIsOpen, WlWorkers
<1>4. worker'["beat"] = worker["beat"] \/ worker'["beat"].lapsed = NoEntry
  BY <1>1, <1>2 DEF WlWorkers
<1>5. CASE ~ (me.pick = NoEntry \/ MayBeOpen(me.pick))
  <2>1. /\ UNCHANGED <<entry, wlAgenda, tab>>
        /\ released' = IF w = "consumer" THEN released \cup {me.slot} ELSE released
    BY <1>5 DEF OfferCommits
  <2>2. WaitlistTypeOK'
    BY <1>0, <1>2, <2>1 DEF WaitlistInv, WaitlistTypeOK
  <2>3. OffersNameASlot' /\ LapsedIsOpen' /\ NoDuplicateEntry'
    BY <1>2, <1>3, <1>4, <2>1, EntriesStay
  <2>4. QED
    BY <2>2, <2>3 DEF WaitlistInv
<1>6. CASE me.pick = NoEntry \/ MayBeOpen(me.pick)
  <2> DEFINE written(e) == [entry[e] EXCEPT !.status = "offered", !.slot = me.slot, !.offer = "live"]
  <2>1. /\ UNCHANGED <<released, wlAgenda, tab>>
        /\ entry' = [e \in WlEntries |-> IF e = me.pick THEN written(e)
                        ELSE IF e = me.lapsed THEN LapseOffer(entry[e]) ELSE entry[e]]
    BY <1>6 DEF OfferCommits
  <2>2. \A e \in WlEntries : /\ written(e) \in EntryRows /\ written(e).status = "offered"
                             /\ written(e).slot = me.slot
    BY <1>0 DEF EntryRows, WlStatuses, OpenStatuses
  <2>3. \A e \in WlEntries : LapseOffer(entry[e]) \in EntryRows /\ LapseOffer(entry[e]).status # "offered"
    BY <1>0, LapsedRow
  <2> HIDE DEF written
  <2>4. entry' \in [WlEntries -> EntryRows]
    BY <1>0, <2>1, <2>2, <2>3
  <2>5. WaitlistTypeOK'
    BY <1>2, <2>1, <2>4 DEF WaitlistInv, WaitlistTypeOK
  <2>6. OffersNameASlot'
    BY <1>0, <2>1, <2>2, <2>3 DEF WaitlistInv, OffersNameASlot
  <2>7. me.lapsed # NoEntry => w = "beat" /\ me.lapsed \in OpenEntries
    BY <1>0 DEF WaitlistInv, LapsedIsOpen, OpenEntries, WlWorkers
  <2>8. \A e \in OpenEntries' : e \in WlEntries /\ (e = me.pick \/ e \in OpenEntries)
    <3>1. SUFFICES ASSUME NEW e \in OpenEntries', e # me.pick PROVE e \in WlEntries /\ e \in OpenEntries
      BY DEF OpenEntries
    <3>2. e \in WlEntries
      BY DEF OpenEntries
    <3>3. CASE e = me.lapsed
      BY <2>7, <3>2, <3>3, WaitlistAssumption
    <3>4. CASE e # me.lapsed
      <4>1. entry'[e] = entry[e]
        BY <2>1, <3>1, <3>2, <3>4
      <4>2. QED
        BY <3>2, <4>1 DEF OpenEntries
    <3>5. QED
      BY <3>2, <3>3, <3>4
  <2>9. NoDuplicateEntry'
    <3>1. SUFFICES ASSUME NEW d \in OpenEntries', NEW e \in OpenEntries', WlPhone(d) = WlPhone(e),
                          d # e
                   PROVE  FALSE
      BY DEF NoDuplicateEntry
    <3>2. CASE d \in OpenEntries /\ e \in OpenEntries
      BY <3>1, <3>2 DEF WaitlistInv, NoDuplicateEntry
    <3>3. CASE d = me.pick /\ e \in OpenEntries
      BY <1>6, <2>8, <3>1, <3>3, WaitlistAssumption DEF MayBeOpen
    <3>4. CASE e = me.pick /\ d \in OpenEntries
      BY <1>6, <2>8, <3>1, <3>4, WaitlistAssumption DEF MayBeOpen
    <3>5. QED
      BY <2>8, <3>1, <3>2, <3>3, <3>4
  <2>10. LapsedIsOpen'
    <3>1. SUFFICES ASSUME worker'["beat"].lapsed # NoEntry
                   PROVE  /\ worker'["beat"].slot # NoSlot
                          /\ entry'[worker'["beat"].lapsed].status \in OpenStatuses
      BY <1>3 DEF LapsedIsOpen
    <3>2. w = "consumer" /\ worker'["beat"] = worker["beat"]
      BY <1>1, <1>2, <3>1 DEF WlWorkers
    <3>3. me.lapsed = NoEntry
      BY <3>2 DEF WaitlistInv, LapsedIsOpen
    <3>4. /\ worker["beat"].slot # NoSlot /\ worker["beat"].lapsed \in WlEntries
          /\ entry[worker["beat"].lapsed].status \in OpenStatuses
      BY <3>1, <3>2 DEF WaitlistInv, WaitlistTypeOK, WorkerStates, WlWorkers, LapsedIsOpen
    <3>5. PICK l \in WlEntries : l = worker["beat"].lapsed
      BY <3>4
    <3>6. entry'[l].status = entry[l].status \/ entry'[l].status = "offered"
      BY <2>1, <2>2, <3>3, <3>5, WaitlistAssumption
    <3>7. QED
      BY <3>2, <3>4, <3>5, <3>6 DEF OpenStatuses
  <2>11. QED
    BY <2>5, <2>6, <2>9, <2>10 DEF WaitlistInv
<1>7. QED
  BY <1>5, <1>6

(* The one the beat chooses to offer a slot to is an entry, or nobody. *)
LEMMA ToOfferIsAnEntry ==
    ASSUME NEW s
    PROVE  ToOffer(s) \subseteq WlEntries \cup {NoEntry}
BY DEF ToOffer, Matching

(* Joins, offers, lapses, bookings and the beat keep the invariant. *)
LEMMA NextWaitlistInv == WaitlistInv /\ [WaitlistNext]_wlVars => WaitlistInv'
<1> SUFFICES ASSUME WaitlistInv, [WaitlistNext]_wlVars PROVE WaitlistInv'
  OBVIOUS
<1>0. /\ WaitlistTypeOK /\ LapsedIsOpen /\ \A e \in WlEntries : entry[e] \in EntryRows
      /\ \A w \in WlWorkers : /\ worker[w] \in WorkerStates /\ worker[w].slot \in WlSlots \cup {NoSlot}
  BY DEF WaitlistInv, WaitlistTypeOK, WorkerStates
<1>01. /\ IdleWorker \in WorkerStates /\ IdleWorker.lapsed = NoEntry
  BY DEF IdleWorker, WorkerStates
<1>02. {"consumer", "beat"} = WlWorkers
  BY DEF WlWorkers
<1>1. ASSUME NEW e \in WlEntries, Join(e) PROVE WaitlistInv'
  <2> DEFINE q == [entry[e] EXCEPT !.status = "waiting"]
  <2>1. q \in EntryRows /\ q.status = "waiting"
    BY <1>0 DEF EntryRows, WlStatuses, OpenStatuses
  <2>2. /\ \A d \in WlEntries : entry'[d] = IF d = e THEN q ELSE entry[d]
        /\ entry' = [entry EXCEPT ![e] = q]
        /\ UNCHANGED <<wlAgenda, released, worker, tab>>
    BY <1>0, <1>1 DEF Join, WaitlistTypeOK
  <2> HIDE DEF q
  <2>3. WaitlistTypeOK'
    BY <1>0, <2>1, <2>2 DEF WaitlistTypeOK
  <2>4. OffersNameASlot'
    BY <2>1, <2>2 DEF WaitlistInv, OffersNameASlot
  <2>5. LapsedIsOpen'
    <3>1. worker["beat"].lapsed \in WlEntries \cup {NoEntry}
      BY <1>0, <1>02 DEF WorkerStates
    <3>2. QED
      BY <1>0, <2>1, <2>2, <3>1 DEF LapsedIsOpen, OpenStatuses
  <2>6. OpenEntries' = OpenEntries \cup {e}
    BY <2>1, <2>2 DEF OpenEntries, OpenStatuses
  <2>7. NoDuplicateEntry'
    BY <1>1, <2>6 DEF WaitlistInv, NoDuplicateEntry, Join, MayBeOpen
  <2>8. QED
    BY <2>3, <2>4, <2>5, <2>7 DEF WaitlistInv
<1>2. ASSUME NEW e \in WlEntries, NEW status \in {"cancelled", "expired"}, ~ LockedByBeat(e),
             entry' = [entry EXCEPT ![e] = Closed(entry[e], status)],
             UNCHANGED <<wlAgenda, released, worker, tab>>
      PROVE  WaitlistInv'
  <2>1. /\ Closed(entry[e], status) \in EntryRows
        /\ Closed(entry[e], status).status \notin OpenStatuses
    BY <1>0, ClosedRow DEF WlStatuses, OpenStatuses
  <2>2. PICK q \in EntryRows : q = Closed(entry[e], status)
    BY <2>1
  <2>3. /\ \A d \in WlEntries : entry'[d] = IF d = e THEN q ELSE entry[d]
        /\ entry' \in [WlEntries -> EntryRows]
    BY <1>0, <1>2, <2>2 DEF WaitlistTypeOK
  <2>4. WaitlistTypeOK'
    BY <1>0, <1>2, <2>3 DEF WaitlistTypeOK
  <2>5. OffersNameASlot' /\ LapsedIsOpen' /\ NoDuplicateEntry'
    BY <1>2, <2>1, <2>2, <2>3, EntriesClose
  <2>6. QED
    BY <2>4, <2>5 DEF WaitlistInv
<1>3. ASSUME NEW e \in WlEntries, CancelEntry(e) PROVE WaitlistInv'
  BY <1>2, <1>3 DEF CancelEntry
<1>4. ASSUME NEW e \in WlEntries, WindowPasses(e) PROVE WaitlistInv'
  <2>1. worker["beat"].lapsed = NoEntry
    BY <1>4 DEF WaitlistInv, LapsedIsOpen, WindowPasses
  <2>2. ~ LockedByBeat(e)
    BY <2>1, WaitlistAssumption DEF LockedByBeat
  <2>3. QED
    BY <1>2, <1>4, <2>2 DEF WindowPasses
<1>5. ASSUME NEW e \in WlEntries, OfferLapses(e) PROVE WaitlistInv'
  <2> DEFINE q == [entry[e] EXCEPT !.offer = "over"]
  <2>1. q \in EntryRows /\ q.status = entry[e].status /\ q.slot = entry[e].slot
    BY <1>0 DEF EntryRows
  <2>2. /\ \A d \in WlEntries : entry'[d] = IF d = e THEN q ELSE entry[d]
        /\ entry' = [entry EXCEPT ![e] = q]
        /\ UNCHANGED <<wlAgenda, released, worker, tab>>
    BY <1>0, <1>5 DEF OfferLapses, WaitlistTypeOK
  <2> HIDE DEF q
  <2>3. WaitlistTypeOK'
    BY <1>0, <2>1, <2>2 DEF WaitlistTypeOK
  <2>4. OffersNameASlot' /\ LapsedIsOpen' /\ NoDuplicateEntry'
    BY <2>1, <2>2, <2>3, EntriesClose DEF WaitlistTypeOK
  <2>5. QED
    BY <2>3, <2>4 DEF WaitlistInv
<1>6. ASSUME NEW e \in WlEntries, BeatLocks(e) PROVE WaitlistInv'
  <2>1. PICK d \in ToOffer(entry[e].slot) :
           worker' = [worker EXCEPT !["beat"] = [slot |-> entry[e].slot, lapsed |-> e, pick |-> d]]
    BY <1>6 DEF BeatLocks
  <2>2. entry[e].slot \in WlSlots /\ entry[e].status \in OpenStatuses
    BY <1>6 DEF WaitlistInv, OffersNameASlot, BeatLocks, OpenStatuses
  <2> DEFINE q == [slot |-> entry[e].slot, lapsed |-> e, pick |-> d]
  <2>3. q \in WorkerStates /\ q.lapsed = e /\ q.slot \in WlSlots
    BY <2>2, ToOfferIsAnEntry DEF WorkerStates
  <2>4. worker' = [worker EXCEPT !["beat"] = q] /\ UNCHANGED <<entry, wlAgenda, released, tab>>
    BY <1>6, <2>1 DEF BeatLocks
  <2> HIDE DEF q
  <2>5. /\ worker' \in [WlWorkers -> WorkerStates] /\ worker'["beat"] = q
        /\ worker'["consumer"] = worker["consumer"]
    BY <1>0, <1>02, <2>3, <2>4 DEF WaitlistTypeOK
  <2>6. WaitlistTypeOK'
    BY <1>0, <2>4, <2>5 DEF WaitlistTypeOK
  <2>7. LapsedIsOpen'
    BY <1>0, <2>2, <2>3, <2>4, <2>5, WaitlistAssumption DEF LapsedIsOpen
  <2>8. QED
    BY <2>4, <2>6, <2>7 DEF WaitlistInv, OffersNameASlot, NoDuplicateEntry, OpenEntries
<1>7. ASSUME UNCHANGED <<entry, worker>>, wlAgenda' \in [WlSlots -> {WlFree, WlOther} \cup WlEntries],
             released' \subseteq WlSlots, tab' \in [WlTabs -> WlEntries \cup {NoEntry}]
      PROVE  WaitlistInv'
  BY <1>7 DEF WaitlistInv, WaitlistTypeOK, OffersNameASlot, LapsedIsOpen, NoDuplicateEntry, OpenEntries
<1>8. ASSUME NEW e \in WlEntries, NEW t \in WlTabs, OpenTab(t, e) PROVE WaitlistInv'
  BY <1>0, <1>7, <1>8 DEF OpenTab, WaitlistTypeOK
<1>9. ASSUME NEW t \in WlTabs, TabGivesUp(t) PROVE WaitlistInv'
  BY <1>0, <1>7, <1>9 DEF TabGivesUp, WaitlistTypeOK
<1>10. ASSUME NEW s \in WlSlots, ReleaseSlot(s) PROVE WaitlistInv'
  BY <1>0, <1>7, <1>10 DEF ReleaseSlot, WaitlistTypeOK
<1>11. ASSUME NEW s \in WlSlots, NEW e \in WlEntries, PortalTakes(s, WlPhone(e)) PROVE WaitlistInv'
  <2>1. /\ wlAgenda' \in [WlSlots -> {WlFree, WlOther} \cup WlEntries]
        /\ UNCHANGED <<released, worker, tab>>
    BY <1>0, <1>11 DEF PortalTakes, WaitlistTypeOK
  <2>2. CASE UNCHANGED entry
    BY <1>0, <1>7, <2>1, <2>2 DEF WaitlistTypeOK
  <2>3. CASE NoneLockedByBeat(WlPhone(e)) /\ entry' = MarkBooked(WlPhone(e))
    <3>1. /\ entry' \in [WlEntries -> EntryRows]
          /\ \A d \in WlEntries : \/ entry'[d] = entry[d]
                                  \/ entry'[d].status \notin OpenStatuses /\ ~ LockedByBeat(d)
      BY <2>3, BookedRows
    <3>2. OffersNameASlot' /\ LapsedIsOpen' /\ NoDuplicateEntry'
      BY <2>1, <3>1, EntriesClose
    <3>3. QED
      BY <1>0, <2>1, <3>1, <3>2 DEF WaitlistInv, WaitlistTypeOK
  <2>4. QED
    BY <1>11, <2>2, <2>3 DEF PortalTakes
<1>12. ASSUME NEW s \in WlSlots, ConsumeReleased(s) PROVE WaitlistInv'
  <2>1. PICK e \in ToOffer(s) :
           worker' = [worker EXCEPT !["consumer"] = [slot |-> s, lapsed |-> NoEntry, pick |-> e]]
    BY <1>12 DEF ConsumeReleased
  <2> DEFINE q == [slot |-> s, lapsed |-> NoEntry, pick |-> e]
  <2>2. q \in WorkerStates /\ q.lapsed = NoEntry
    BY ToOfferIsAnEntry DEF WorkerStates
  <2>3. worker' = [worker EXCEPT !["consumer"] = q]
    BY <2>1
  <2> HIDE DEF q
  <2>4. /\ worker' \in [WlWorkers -> WorkerStates] /\ worker'["consumer"].lapsed = NoEntry
        /\ worker'["beat"] = worker["beat"]
    BY <1>0, <1>02, <2>2, <2>3 DEF WaitlistTypeOK
  <2>5. UNCHANGED <<entry, wlAgenda, tab>> /\ released' \subseteq WlSlots
    BY <1>0, <1>12 DEF ConsumeReleased, WaitlistTypeOK
  <2>6. OffersNameASlot' /\ LapsedIsOpen' /\ NoDuplicateEntry'
    BY <2>4, <2>5, EntriesStay
  <2>7. QED
    BY <1>0, <2>4, <2>5, <2>6 DEF WaitlistInv, WaitlistTypeOK
<1>13. ASSUME NEW s \in WlSlots, NEW t \in WlTabs, BookFromPanel(t, s) PROVE WaitlistInv'
  <2>1. PICK e \in WlEntries : e = tab[t]
    BY <1>0, <1>13 DEF BookFromPanel, WaitlistTypeOK
  <2> DEFINE booked == MarkBooked(WlPhone(e))
             q == Closed(booked[e], "booked")
  <2>2. /\ NoneLockedByBeat(WlPhone(e)) /\ ~ LockedByBeat(e)
        /\ wlAgenda' = [wlAgenda EXCEPT ![s] = e]
        /\ entry' = [booked EXCEPT ![e] = q]
        /\ tab' = [tab EXCEPT ![t] = NoEntry]
        /\ UNCHANGED <<released, worker>>
    BY <1>13, <2>1 DEF BookFromPanel
  <2>3. /\ booked \in [WlEntries -> EntryRows]
        /\ \A d \in WlEntries : \/ booked[d] = entry[d]
                                \/ booked[d].status \notin OpenStatuses /\ ~ LockedByBeat(d)
    BY <2>2, BookedRows
  <2> HIDE DEF booked
  <2>4. q \in EntryRows /\ q.status \notin OpenStatuses
    BY <2>3, ClosedRow DEF WlStatuses, OpenStatuses
  <2> HIDE DEF q
  <2>5. /\ entry' \in [WlEntries -> EntryRows]
        /\ \A d \in WlEntries : \/ entry'[d] = entry[d]
                                \/ entry'[d].status \notin OpenStatuses /\ ~ LockedByBeat(d)
    BY <2>2, <2>3, <2>4
  <2>6. WaitlistTypeOK'
    BY <1>0, <2>2, <2>5 DEF WaitlistTypeOK
  <2>7. OffersNameASlot' /\ LapsedIsOpen' /\ NoDuplicateEntry'
    BY <2>2, <2>5, EntriesClose
  <2>8. QED
    BY <2>6, <2>7 DEF WaitlistInv
<1>14. ASSUME NEW w \in WlWorkers, WorkerDies(w) PROVE WaitlistInv'
  <2>1. /\ worker' \in [WlWorkers -> WorkerStates] /\ worker'[w] = IdleWorker
        /\ \A v \in WlWorkers \ {w} : worker'[v] = worker[v]
    BY <1>0, <1>01, <1>14 DEF WorkerDies, WaitlistTypeOK
  <2>2. UNCHANGED <<entry, wlAgenda, tab>> /\ released' \subseteq WlSlots
    BY <1>0, <1>14 DEF WorkerDies, WaitlistTypeOK
  <2>3. /\ worker'["consumer"].lapsed = NoEntry
        /\ worker'["beat"] = worker["beat"] \/ worker'["beat"].lapsed = NoEntry
    BY <1>0, <1>01, <2>1 DEF LapsedIsOpen, WlWorkers
  <2>4. OffersNameASlot' /\ LapsedIsOpen' /\ NoDuplicateEntry'
    BY <2>1, <2>2, <2>3, EntriesStay
  <2>5. QED
    BY <1>0, <2>1, <2>2, <2>4 DEF WaitlistInv, WaitlistTypeOK
<1>15. CASE UNCHANGED wlVars
  BY <1>0, <1>7, <1>15 DEF wlVars, WaitlistTypeOK
<1>16. QED
  BY <1>1, <1>3, <1>4, <1>5, <1>6, <1>8, <1>9, <1>10, <1>11, <1>12, <1>13, <1>14, <1>15,
     CommitKeeps DEF WaitlistNext

(* For any entries, slots, tabs and limits, a phone is never twice on the list, however *)
(* joins, offers written late, lapses and bookings cross (uq_waitlist_open_entry).      *)
THEOREM ListHasNoDuplicates == WaitlistSpec => []NoDuplicateEntry
<1>1. WaitlistInv => NoDuplicateEntry
  BY DEF WaitlistInv
<1>2. QED
  BY <1>1, InitWaitlistInv, NextWaitlistInv, PTL DEF WaitlistSpec

------------------------------------------------------------------------------
(* The billing of the stores                                                  *)

BillingInv == BillingTypeOK /\ CouponWithinLimit

(* The daily run writes a subscription of the table. *)
LEMMA DailyActionRow ==
    ASSUME NEW row \in SubscriptionRow
    PROVE  DailyAction(row) \in SubscriptionRow
<1>1. /\ [row EXCEPT !.status = "past_due"] \in SubscriptionRow
      /\ [row EXCEPT !.status = "suspended"] \in SubscriptionRow
      /\ [row EXCEPT !.warned = TRUE] \in SubscriptionRow
  BY DEF SubscriptionRow, SubscriptionStatuses
<1>2. \/ DailyAction(row) = [row EXCEPT !.status = "past_due"]
      \/ DailyAction(row) = [row EXCEPT !.status = "suspended"]
      \/ DailyAction(row) = [row EXCEPT !.warned = TRUE]
      \/ DailyAction(row) = row
  BY DEF DailyAction
<1>3. QED
  BY <1>1, <1>2

(* No coupon has been used at the start. *)
LEMMA InitBillingInv == BillingInit => BillingInv
<1> SUFFICES ASSUME BillingInit PROVE BillingInv
  OBVIOUS
<1>1. PICK price \in PlanPrices :
         subscription = [s \in BillStores |->
             [status |-> "active", end |-> 1, warned |-> FALSE, base |-> price,
              discount |-> 0, total |-> price, coupon |-> FALSE]]
  BY DEF BillingInit
<1>2. 1 \in Days /\ 0 \in Days /\ price \in Nat
  BY BillingAssumption DEF Days
<1>3. subscription \in [BillStores -> SubscriptionRow]
  BY <1>1, <1>2 DEF SubscriptionRow, SubscriptionStatuses
<1>5. IsDailyRun(IdleJob)
  <2>1. <<>> \in [{} -> SubscriptionRow]
    OBVIOUS
  <2>2. QED
    BY <2>1 DEF IdleJob, IsDailyRun
<1>6. billReq \in [BillRequests -> BillStates]
  BY DEF BillingInit, BillStates
<1>7. redemptions = <<>> /\ coupon = [active |-> TRUE, uses |-> 0]
  BY DEF BillingInit
<1>8. redemptions \in Seq(BillStores) /\ Len(redemptions) = 0
  BY <1>7
<1>9. coupon \in [active : BOOLEAN, uses : Nat] /\ coupon.uses = 0
  BY <1>7
<1>10. BillingTypeOK
  <2>1. /\ day = 0 /\ renewals = 0 /\ jobDeaths = 0 /\ dailyRun = IdleJob
    BY DEF BillingInit
  <2>2. 0 \in 0..MaxRenewals /\ 0 \in 0..MaxJobDeaths
    BY BillingAssumption
  <2>3. QED
    BY <1>2, <1>3, <1>5, <1>6, <1>8, <1>9, <2>1, <2>2 DEF BillingTypeOK
<1>11. CouponWithinLimit
  BY <1>8, <1>9, BillingAssumption DEF CouponWithinLimit
<1>12. QED
  BY <1>10, <1>11 DEF BillingInv

(* Renewals, redemptions, changes by the platform and the daily run keep the invariant. *)
LEMMA NextBillingInv == BillingInv /\ [BillingNext]_billingVars => BillingInv'
<1> SUFFICES ASSUME BillingInv, [BillingNext]_billingVars PROVE BillingInv'
  OBVIOUS
<1>0. /\ day \in Days /\ subscription \in [BillStores -> SubscriptionRow]
      /\ coupon \in [active : BOOLEAN, uses : Nat] /\ redemptions \in Seq(BillStores)
      /\ IsDailyRun(dailyRun) /\ billReq \in [BillRequests -> BillStates]
      /\ renewals \in 0..MaxRenewals /\ jobDeaths \in 0..MaxJobDeaths
      /\ Staged \subseteq BillStores
      /\ dailyRun.row \in [Staged -> SubscriptionRow]
      /\ CouponWithinLimit
  BY DEF BillingInv, BillingTypeOK, Staged, IsDailyRun
<1>01. /\ IsDailyRun(IdleJob) /\ IsDailyRun([at |-> "running", row |-> <<>>])
       /\ IdleBill \in BillStates
  <2>1. <<>> \in [{} -> SubscriptionRow]
    OBVIOUS
  <2>2. QED
    BY <2>1 DEF IdleJob, BillStates, IsDailyRun
<1>02. /\ MaxDay \in Nat /\ MaxRenewals \in Nat /\ MaxJobDeaths \in Nat /\ CouponMaxUses \in Nat
       /\ CouponValue \in Nat
  BY BillingAssumption
<1>03. ASSUME day' \in Days, subscription' \in [BillStores -> SubscriptionRow],
              coupon' \in [active : BOOLEAN, uses : Nat], redemptions' = redemptions,
              coupon'.uses = coupon.uses,
              IsDailyRun(dailyRun'), billReq' \in [BillRequests -> BillStates],
              renewals' \in 0..MaxRenewals, jobDeaths' \in 0..MaxJobDeaths
       PROVE  BillingInv'
  BY <1>0, <1>03 DEF BillingInv, BillingTypeOK, CouponWithinLimit
<1>1. ASSUME StartDailyRun PROVE BillingInv'
  BY <1>0, <1>01, <1>03, <1>1 DEF StartDailyRun
<1>2. ASSUME CommitDailyRun PROVE BillingInv'
  <2>1. subscription' \in [BillStores -> SubscriptionRow]
    BY <1>0, <1>2 DEF CommitDailyRun
  <2>2. QED
    BY <1>0, <1>01, <1>03, <1>2, <2>1 DEF CommitDailyRun
<1>3. ASSUME DailyRunDies PROVE BillingInv'
  BY <1>0, <1>01, <1>02, <1>03, <1>3 DEF DailyRunDies
<1>4. ASSUME DayPasses PROVE BillingInv'
  <2>1. day' \in Days
    BY <1>0, <1>02, <1>4 DEF DayPasses, Days
  <2>2. QED
    BY <1>0, <1>03, <1>4, <2>1 DEF DayPasses
<1>5. ASSUME UpdateCoupon PROVE BillingInv'
  <2>1. coupon' \in [active : BOOLEAN, uses : Nat] /\ coupon'.uses = coupon.uses
    BY <1>0, <1>5 DEF UpdateCoupon
  <2>2. QED
    BY <1>0, <1>03, <1>5, <2>1 DEF UpdateCoupon
<1>6. ASSUME NEW s \in BillStores, InspectRow(s) PROVE BillingInv'
  <2> DEFINE rows == [t \in Staged \cup {s} |->
                         IF t = s THEN DailyAction(subscription[s]) ELSE dailyRun.row[t]]
  <2>1. rows \in [Staged \cup {s} -> SubscriptionRow] /\ Staged \cup {s} \in SUBSET BillStores
    BY <1>0, DailyActionRow
  <2>3. dailyRun' = [dailyRun EXCEPT !.row = rows]
    BY <1>6 DEF InspectRow
  <2> HIDE DEF rows
  <2>4. IsDailyRun(dailyRun')
    BY <1>0, <2>1, <2>3 DEF IsDailyRun
  <2>5. QED
    BY <1>0, <1>03, <1>6, <2>4 DEF InspectRow
<1>7. ASSUME NEW r \in BillRequests, NEW s \in BillStores, LoadForRenewal(r, s)
      PROVE  BillingInv'
  <2>1. billReq' \in [BillRequests -> BillStates]
    BY <1>0, <1>7 DEF LoadForRenewal, BillStates
  <2>2. renewals' \in 0..MaxRenewals
    BY <1>0, <1>02, <1>7 DEF LoadForRenewal
  <2>3. QED
    BY <1>0, <1>03, <1>7, <2>1, <2>2 DEF LoadForRenewal
<1>8. ASSUME NEW r \in BillRequests, NEW s \in BillStores, LoadForRedemption(r, s)
      PROVE  BillingInv'
  <2>1. coupon.uses \in Nat
    BY <1>0
  <2>2. billReq' \in [BillRequests -> BillStates]
    BY <1>0, <1>8, <2>1 DEF LoadForRedemption, BillStates
  <2>3. QED
    BY <1>0, <1>03, <1>8, <2>2 DEF LoadForRedemption
<1>9. ASSUME NEW r \in BillRequests, billReq[r].at # "idle"
      PROVE  /\ billReq[r].store \in BillStores /\ billReq[r].saw \in SubscriptionRow
             /\ subscription[billReq[r].store] \in SubscriptionRow
  BY <1>0, <1>9 DEF BillStates, IdleBill
<1>10. ASSUME NEW r \in BillRequests, NEW price \in PlanPrices, NEW status \in SubscriptionStatuses,
              NEW end \in Days, NEW newPeriod \in BOOLEAN,
              SetStoreSubscription(r, price, status, end, newPeriod)
       PROVE  BillingInv'
  <2>1. PICK s \in BillStores : s = billReq[r].store
    BY <1>9, <1>10 DEF SetStoreSubscription
  <2>2. PICK saw \in SubscriptionRow : saw = billReq[r].saw
    BY <1>9, <1>10 DEF SetStoreSubscription
  <2>3. PICK row \in SubscriptionRow : row = subscription[s]
    BY <1>0
  <2> DEFINE new ==
         [status   |-> Column(status, saw.status, row.status),
          end      |-> Column(end, saw.end, row.end),
          warned   |-> IF newPeriod THEN Column(FALSE, saw.warned, row.warned) ELSE row.warned,
          base     |-> Column(price, saw.base, row.base),
          discount |-> Column(0, saw.discount, row.discount),
          total    |-> Column(price, saw.total, row.total),
          coupon   |-> Column(FALSE, saw.coupon, row.coupon)]
  <2>4. subscription' = [subscription EXCEPT ![s] = new]
    BY <1>10, <2>1, <2>2, <2>3 DEF SetStoreSubscription
  <2>5. /\ Column(status, saw.status, row.status) \in SubscriptionStatuses
        /\ Column(end, saw.end, row.end) \in Days
        /\ Column(price, saw.base, row.base) \in Nat /\ Column(price, saw.total, row.total) \in Nat
        /\ Column(0, saw.discount, row.discount) \in Nat
    BY BillingAssumption DEF Column, SubscriptionRow
  <2>6. Column(FALSE, saw.warned, row.warned) \in BOOLEAN /\ row.warned \in BOOLEAN
        /\ Column(FALSE, saw.coupon, row.coupon) \in BOOLEAN
    BY DEF Column, SubscriptionRow
  <2>7. (IF newPeriod THEN Column(FALSE, saw.warned, row.warned) ELSE row.warned) \in BOOLEAN
    BY <2>6
  <2>8. new \in SubscriptionRow
    BY <2>5, <2>6, <2>7 DEF SubscriptionRow
  <2> HIDE DEF new
  <2>9. subscription' \in [BillStores -> SubscriptionRow]
    BY <1>0, <2>4, <2>8
  <2>10. billReq' \in [BillRequests -> BillStates]
    BY <1>0, <1>01, <1>10 DEF SetStoreSubscription
  <2>11. QED
    BY <1>0, <1>03, <1>10, <2>9, <2>10 DEF SetStoreSubscription
<1>11. ASSUME NEW r \in BillRequests, RedeemCoupon(r) PROVE BillingInv'
  <2>1. PICK s \in BillStores : s = billReq[r].store
    BY <1>9, <1>11 DEF RedeemCoupon
  <2>2. billReq' \in [BillRequests -> BillStates]
    BY <1>0, <1>01, <1>11 DEF RedeemCoupon
  <2>3. CASE ~ CouponRedeemable(s, coupon.uses)
    BY <1>0, <1>03, <1>11, <2>1, <2>2, <2>3 DEF RedeemCoupon, LockCoupon
  <2>4. CASE CouponRedeemable(s, coupon.uses)
    <3>1. PICK row \in SubscriptionRow : row = subscription[s]
      BY <1>0
    <3> DEFINE new == [row EXCEPT !.coupon = TRUE, !.discount = Discount(row.base),
                                  !.total = row.base - Discount(row.base)]
    <3>2. /\ coupon' = [coupon EXCEPT !.uses = coupon.uses + 1]
          /\ redemptions' = Append(redemptions, s)
          /\ subscription' = [subscription EXCEPT ![s] = new]
          /\ UNCHANGED <<day, dailyRun, renewals, jobDeaths>>
      BY <1>0, <1>11, <2>1, <2>4, <3>1 DEF RedeemCoupon, LockCoupon
    <3>3. Discount(row.base) \in Nat /\ row.base - Discount(row.base) \in Nat
      BY <1>02 DEF Discount, SubscriptionRow
    <3>4. new \in SubscriptionRow
      BY <3>3 DEF SubscriptionRow
    <3> HIDE DEF new
    <3>5. subscription' \in [BillStores -> SubscriptionRow]
      BY <1>0, <3>2, <3>4
    <3>6. /\ coupon' \in [active : BOOLEAN, uses : Nat] /\ coupon'.uses = coupon.uses + 1
          /\ coupon.uses \in Nat
      BY <1>0, <3>2
    <3>7. redemptions' \in Seq(BillStores) /\ Len(redemptions') = Len(redemptions) + 1
      BY <1>0, <3>2
    <3>8. CouponWithinLimit'
      BY <1>0, <1>02, <2>4, <3>6, <3>7 DEF CouponWithinLimit, CouponRedeemable
    <3>9. QED
      BY <1>0, <2>2, <3>2, <3>5, <3>6, <3>7, <3>8 DEF BillingInv, BillingTypeOK
  <2>5. QED
    BY <2>3, <2>4
<1>12. CASE UNCHANGED billingVars
  BY <1>0, <1>03, <1>12 DEF billingVars
<1>13. QED
  BY <1>1, <1>2, <1>3, <1>4, <1>5, <1>6, <1>7, <1>8, <1>10, <1>11, <1>12 DEF BillingNext

(* For any stores, requests, plans and limits, a coupon counts exactly its redemptions and   *)
(* they are no more than max_uses, whatever requests cross (redeem_coupon, _lock_coupon).    *)
THEOREM CouponIsCounted == BillingSpec => []CouponWithinLimit
<1>1. BillingInv => CouponWithinLimit
  BY DEF BillingInv
<1>2. QED
  BY <1>1, InitBillingInv, NextBillingInv, PTL DEF BillingSpec
==============================================================================
