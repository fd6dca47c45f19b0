------------------------------ MODULE Waitlist ------------------------------
(* The waiting list (modules/waitlist): one store, one professional, one        *)
(* service. A released slot is published in the outbox (Outbox) and offered by   *)
(* mail to one person of the list at a time; the beat passes an offer that       *)
(* lapsed to the next one.                                                      *)
(*                                                                            *)
(* The consumer of the outbox, the beat and the panel read an entry and write it  *)
(* back in steps that others run between. A transaction is shorter than           *)
(* WAITLIST_OFFER_MINUTES (the time limit of Celery), so an offer made meanwhile   *)
(* does not lapse under it.                                                      *)
EXTENDS Naturals, FiniteSets

CONSTANTS WlEntries,        \* the numbers of the entries, in order of arrival
          WlPhone(_),       \* phone of an entry
          WlMailbox(_),     \* whether its email is deliverable
          WlSlots, NoSlot, NoEntry, WlFree, WlOther,
          WlTabs,           \* tabs of the panel
          MaxLapsedOffers,  \* MAX_LAPSED_OFFERS
          MaxOpenEntries    \* MAX_OPEN_ENTRIES_PER_PHONE

ASSUME WaitlistAssumption ==
    /\ WlEntries \subseteq Nat /\ NoEntry \notin WlEntries /\ NoSlot \notin WlSlots
    /\ MaxLapsedOffers \in Nat \ {0} /\ MaxOpenEntries \in Nat \ {0}

VARIABLES entry,     \* per entry: status, lapsed, offered slot, its offer
          wlAgenda,  \* per slot: WlFree, WlOther, or the entry the panel booked it for
          released,  \* slots with a slot_released event in the outbox
          worker,    \* the consumer and the beat: what each has read
          tab        \* per tab of the panel, the entry it has loaded

wlVars == <<entry, wlAgenda, released, worker, tab>>

WlWorkers == {"consumer", "beat"}
OpenStatuses == {"waiting", "offered"}
WlStatuses == OpenStatuses \cup {"absent", "booked", "cancelled", "expired"}
IdleWorker == [slot |-> NoSlot, lapsed |-> NoEntry, pick |-> NoEntry]

EntryRows == [status : WlStatuses, lapsed : 0..MaxLapsedOffers, slot : WlSlots \cup {NoSlot},
              offer : {"none", "live", "over"}]
WorkerStates == [slot : WlSlots \cup {NoSlot}, lapsed : WlEntries \cup {NoEntry},
                 pick : WlEntries \cup {NoEntry}]

WaitlistTypeOK ==
    /\ entry \in [WlEntries -> EntryRows]
    /\ wlAgenda \in [WlSlots -> {WlFree, WlOther} \cup WlEntries]
    /\ released \subseteq WlSlots
    /\ worker \in [WlWorkers -> WorkerStates]
    /\ tab \in [WlTabs -> WlEntries \cup {NoEntry}]

WaitlistInit ==
    /\ entry = [e \in WlEntries |-> [status |-> "absent", lapsed |-> 0, slot |-> NoSlot,
                                     offer |-> "none"]]
    /\ wlAgenda = [s \in WlSlots |-> WlOther]
    /\ released = {}
    /\ worker = [w \in WlWorkers |-> IdleWorker]
    /\ tab = [t \in WlTabs |-> NoEntry]

-----------------------------------------------------------------------------
OpenEntries == {e \in WlEntries : entry[e].status \in OpenStatuses}
LockedByBeat(e) == worker["beat"].lapsed = e

(* An entry that closes; what it was offered is not read again. *)
Closed(x, status) == [x EXCEPT !.status = status, !.offer = "none", !.slot = NoSlot]

(* _open_duplicate, and the partial unique index uq_waitlist_open_entry.        *)
(* Plausible bug: no index.                                                    *)
OpenAnyway(e) == TRUE
MayBeOpen(e) == \A d \in OpenEntries \ {e} : WlPhone(d) # WlPhone(e)

(* _open_count *)
TooManyOpen(e) ==
    Cardinality({d \in OpenEntries : WlPhone(d) = WlPhone(e)}) >= MaxOpenEntries

(* join_waitlist, join *)
Join(e) ==
    /\ entry[e].status = "absent"
    /\ ~TooManyOpen(e)
    /\ MayBeOpen(e)
    /\ entry' = [entry EXCEPT ![e].status = "waiting"]
    /\ UNCHANGED <<wlAgenda, released, worker, tab>>

(* cancel, by the person (leave_waitlist) or by the panel; between get_open and   *)
(* the UPDATE another may have closed the entry.                                 *)
CancelEntry(e) ==
    /\ entry[e].status # "absent"
    /\ ~LockedByBeat(e)
    /\ entry' = [entry EXCEPT ![e] = Closed(@, "cancelled")]
    /\ UNCHANGED <<wlAgenda, released, worker, tab>>

-----------------------------------------------------------------------------
(* publish_slot_released: whatever frees the slot publishes it in the same      *)
(* transaction.                                                                *)
ReleaseSlot(s) ==
    /\ wlAgenda[s] # WlFree
    /\ wlAgenda' = [wlAgenda EXCEPT ![s] = WlFree]
    /\ released' = released \cup {s}
    /\ UNCHANGED <<entry, worker, tab>>

(* mark_booked: the open entries of the phone that the booking covers. *)
MarkBooked(phone) ==
    [e \in WlEntries |-> IF WlPhone(e) = phone /\ e \in OpenEntries
                         THEN Closed(entry[e], "booked") ELSE entry[e]]
NoneLockedByBeat(phone) == \A e \in OpenEntries : WlPhone(e) = phone => ~LockedByBeat(e)

(* The portal books the slot (Portal) and then closes the entries of the phone,   *)
(* best effort (_close_waitlist_entry).                                          *)
PortalTakes(s, phone) ==
    /\ wlAgenda[s] = WlFree
    /\ wlAgenda' = [wlAgenda EXCEPT ![s] = WlOther]
    /\ \/ UNCHANGED entry
       \/ NoneLockedByBeat(phone) /\ entry' = MarkBooked(phone)
    /\ UNCHANGED <<released, worker, tab>>

-----------------------------------------------------------------------------
(* live_offer_exists *)
LiveOfferOn(s) ==
    \E e \in WlEntries : entry[e].status = "offered" /\ entry[e].slot = s /\ entry[e].offer = "live"

(* matching_entries: whoever let this slot pass, or too many, is left out. *)
Matching(s) ==
    {e \in WlEntries : /\ entry[e].status = "waiting"
                       /\ entry[e].lapsed < MaxLapsedOffers
                       /\ entry[e].slot # s}

(* offer_released_slot: the slot is free (slot_still_free) and nobody has it, and   *)
(* the first with a deliverable email is picked. Within the notice of the store     *)
(* nobody is.                                                                      *)
ToOffer(s) ==
    LET fit == {e \in Matching(s) : WlMailbox(e)} IN
    IF wlAgenda[s] = WlFree /\ ~LiveOfferOn(s)
    THEN {e \in fit : \A d \in fit : e <= d} \cup {NoEntry}
    ELSE {NoEntry}

(* The consumer takes an event of the outbox. *)
ConsumeReleased(s) ==
    /\ worker["consumer"].slot = NoSlot
    /\ s \in released
    /\ released' = released \ {s}
    /\ \E e \in ToOffer(s) :
          worker' = [worker EXCEPT !["consumer"] = [slot |-> s, lapsed |-> NoEntry, pick |-> e]]
    /\ UNCHANGED <<entry, wlAgenda, tab>>

(* expire_lapsed_offers: FOR UPDATE SKIP LOCKED of an offer that lapsed; one at   *)
(* a time here, a batch in the code.                                             *)
BeatLocks(e) ==
    /\ worker["beat"].slot = NoSlot
    /\ entry[e].status = "offered" /\ entry[e].offer = "over"
    /\ \E d \in ToOffer(entry[e].slot) :
          worker' = [worker EXCEPT !["beat"] = [slot |-> entry[e].slot, lapsed |-> e, pick |-> d]]
    /\ UNCHANGED <<entry, wlAgenda, released, tab>>

(* The lapse is counted; the last one closes the entry. Plausible bug: the entry   *)
(* stays offered.                                                                *)
LapseKeepsStatus(x) == [x EXCEPT !.lapsed = IF @ < MaxLapsedOffers THEN @ + 1 ELSE @]
LapseOffer(x) ==
    IF x.lapsed + 1 >= MaxLapsedOffers
    THEN [Closed(x, "expired") EXCEPT !.lapsed = MaxLapsedOffers]
    ELSE [x EXCEPT !.lapsed = @ + 1, !.offer = "none", !.status = "waiting"]

(* The UPDATEs and the commit. The offer is written over whatever the entry is     *)
(* by now; if the index refuses it, everything rolls back and the event or the      *)
(* lapse is taken up again. The mail leaves after the commit.                      *)
OfferCommits(w) ==
    LET me == worker[w] IN
    /\ me.slot # NoSlot
    /\ w = "consumer" => ~LockedByBeat(me.pick) \/ me.pick = NoEntry
    /\ worker' = [worker EXCEPT ![w] = IdleWorker]
    /\ IF me.pick = NoEntry \/ MayBeOpen(me.pick)
       THEN /\ entry' = [e \in WlEntries |->
                  IF e = me.pick
                  THEN [entry[e] EXCEPT !.status = "offered", !.slot = me.slot, !.offer = "live"]
                  ELSE IF e = me.lapsed THEN LapseOffer(entry[e]) ELSE entry[e]]
            /\ UNCHANGED released
       ELSE /\ released' = IF w = "consumer" THEN released \cup {me.slot} ELSE released
            /\ UNCHANGED entry
    /\ UNCHANGED <<wlAgenda, tab>>

(* The process dies: the event, or the lapse, is still there (Outbox). *)
WorkerDies(w) ==
    /\ worker[w].slot # NoSlot
    /\ worker' = [worker EXCEPT ![w] = IdleWorker]
    /\ released' = IF w = "consumer" THEN released \cup {worker[w].slot} ELSE released
    /\ UNCHANGED <<entry, wlAgenda, tab>>

-----------------------------------------------------------------------------
(* WAITLIST_OFFER_MINUTES pass: whoever read the entry before the offer is done. *)
OfferLapses(e) ==
    /\ entry[e].status = "offered" /\ entry[e].offer = "live"
    /\ \A w \in WlWorkers : worker[w].pick # e
    /\ entry' = [entry EXCEPT ![e].offer = "over"]
    /\ UNCHANGED <<wlAgenda, released, worker, tab>>

(* The second query of expire_lapsed_offers: the window has passed. *)
WindowPasses(e) ==
    /\ entry[e].status \in OpenStatuses
    /\ worker["beat"].slot = NoSlot
    /\ entry' = [entry EXCEPT ![e] = Closed(@, "expired")]
    /\ UNCHANGED <<wlAgenda, released, worker, tab>>

-----------------------------------------------------------------------------
(* book_from_waitlist: get_open loads the entry; *)
OpenTab(t, e) ==
    /\ tab[t] = NoEntry
    /\ entry[e].status \in OpenStatuses
    /\ tab' = [tab EXCEPT ![t] = e]
    /\ UNCHANGED <<entry, wlAgenda, released, worker>>

(* book_from_panel: then its row is locked, but the SELECT FOR UPDATE returns the    *)
(* instance already loaded, so the status it checks is the one of get_open. The      *)
(* slot is checked under the lock of the professional.                              *)
BookFromPanel(t, s) ==
    LET e == tab[t] IN
    /\ e # NoEntry
    /\ NoneLockedByBeat(WlPhone(e)) /\ ~LockedByBeat(e)
    /\ wlAgenda[s] = WlFree
    /\ wlAgenda' = [wlAgenda EXCEPT ![s] = e]
    /\ entry' = [MarkBooked(WlPhone(e)) EXCEPT ![e] = Closed(@, "booked")]
    /\ tab' = [tab EXCEPT ![t] = NoEntry]
    /\ UNCHANGED <<released, worker>>

(* The slot is not free, or the request dies. *)
TabGivesUp(t) ==
    /\ tab[t] # NoEntry
    /\ tab' = [tab EXCEPT ![t] = NoEntry]
    /\ UNCHANGED <<entry, wlAgenda, released, worker>>

-----------------------------------------------------------------------------
WaitlistNext ==
    \/ \E e \in WlEntries :
          \/ Join(e)
          \/ CancelEntry(e)
          \/ OfferLapses(e)
          \/ WindowPasses(e)
          \/ BeatLocks(e)
          \/ \E t \in WlTabs : OpenTab(t, e)
    \/ \E s \in WlSlots :
          \/ ReleaseSlot(s)
          \/ \E e \in WlEntries : PortalTakes(s, WlPhone(e))
          \/ ConsumeReleased(s)
          \/ \E t \in WlTabs : BookFromPanel(t, s)
    \/ \E w \in WlWorkers : OfferCommits(w) \/ WorkerDies(w)
    \/ \E t \in WlTabs : TabGivesUp(t)

(* The beat runs for ever, and does not die in every run. *)
WaitlistFairness ==
    /\ \A e \in WlEntries : WF_wlVars(BeatLocks(e))
    /\ SF_wlVars(OfferCommits("beat"))

WaitlistSpec == WaitlistInit /\ [][WaitlistNext]_wlVars /\ WaitlistFairness

-----------------------------------------------------------------------------
(* A phone is never on the list twice for the same, however joins, offers written   *)
(* over an entry that was closed meanwhile and bookings cross                       *)
(* (uq_waitlist_open_entry).                                                       *)
NoDuplicateEntry ==
    \A d, e \in OpenEntries : WlPhone(d) = WlPhone(e) => d = e

(* An offer that lapsed does not hold its person, nor the slot, for ever: the beat   *)
(* returns it to the queue or closes it (process_waitlist_offers).                   *)
LapsedOffersReturn ==
    \A e \in WlEntries :
        entry[e].status = "offered" /\ entry[e].offer = "over"
            ~> ~(entry[e].status = "offered" /\ entry[e].offer = "over")

(* "dos pestanias del panel sobre la misma persona creaban dos turnos confirmados     *)
(* desde una sola entrada": the lock of book_from_panel is there so that an entry      *)
(* makes one appointment.                                                            *)
OneBookingPerEntry ==
    \A s, z \in WlSlots : wlAgenda[s] \in WlEntries /\ wlAgenda[s] = wlAgenda[z] => s = z
=============================================================================
