---------------------------- MODULE Availability ----------------------------
(* What the portal offers on one local day, and the state it is computed from:    *)
(* the week of each professional (modules/staff), edited by requests that cross,   *)
(* the bookings and the blocks of the day and the clock. The grid is                *)
(* AvailabilityService (modules/appointments/availability.py); booking a range is    *)
(* staff_can_take_range. Instants are numbers of one unit; day 0 is the day asked.    *)
EXTENDS Integers, FiniteSetsExt

CONSTANTS AvStaff,         \* professionals
          AvServices,
          ServiceMinutes,  \* duration_minutes of a service
          Skills,          \* staff_services: who does what
          StoreHours,      \* store_schedules of day 0: a set of <<open, close>>
          Franjas,         \* ranges a row of the week may have
          FranjaIds,       \* ids of the rows of a week
          WeekRequests,    \* requests of the panel that edit a week
          SlotStep, DayBuffer, Notice,
          MaxSelection,    \* MAX_TOTAL_DURATION_MINUTES
          DayEnd,          \* the last instant of the day
          MaxBusy,         \* bound: bookings and blocks of a professional
          NoStaff, NoFranja

Rows == {[day |-> d, from |-> f[1], to |-> f[2]] : d \in {0, 1}, f \in Franjas}

(* A store has one range per day (uq_store_day_schedule). *)
ASSUME AvailabilityAssumption ==
    /\ SlotStep \in Nat \ {0}
    /\ {DayBuffer, Notice, MaxSelection, DayEnd, MaxBusy} \subseteq Nat
    /\ IsFiniteSet(AvServices)
    /\ \A v \in AvServices : ServiceMinutes[v] \in Nat \ {0}
    /\ \A f \in Franjas \cup StoreHours : f[1] \in Nat /\ f[2] \in Nat /\ f[1] < f[2] /\ f[2] <= DayEnd
    /\ \A f, g \in StoreHours : f = g
    /\ FranjaIds \subseteq Nat
    /\ NoFranja \notin Rows

VARIABLES week,     \* per professional, its rows: id -> NoFranja or [day, from, to]
          booked,   \* per professional, the ranges of its active appointments
          blocked,  \* per professional, the ranges of its active blocks
          clock,
          weekReq   \* per request: where it is, and what it is about to write

availVars == <<week, booked, blocked, clock, weekReq>>

Instants == 0..DayEnd
IdleWeek == [at |-> "idle", staff |-> NoStaff, rows |-> [i \in FranjaIds |-> NoFranja]]

AvailabilityTypeOK ==
    /\ week \in [AvStaff -> [FranjaIds -> Rows \cup {NoFranja}]]
    /\ booked \in [AvStaff -> SUBSET (Instants \X Instants)]
    /\ blocked \in [AvStaff -> SUBSET (Instants \X Instants)]
    /\ clock \in Instants
    /\ weekReq \in [WeekRequests -> [at : {"idle", "add", "update", "delete", "replace"},
                                     staff : AvStaff \cup {NoStaff},
                                     rows : [FranjaIds -> Rows \cup {NoFranja}]]]

(* A week of one row at most; the other weeks are written by the requests. *)
AvailabilityInit ==
    /\ week \in [AvStaff -> {IdleWeek.rows}
                    \cup {[IdleWeek.rows EXCEPT ![i] = row] : i \in FranjaIds, row \in Rows}]
    /\ booked = [s \in AvStaff |-> {}]
    /\ blocked = [s \in AvStaff |-> {}]
    /\ clock = 0
    /\ weekReq = [r \in WeekRequests |-> IdleWeek]

-----------------------------------------------------------------------------
(* Effective hours *)

RowIds(rows) == {i \in FranjaIds : rows[i] # NoFranja}

(* load_effective_hours: the ids of the rows of the day; the rows of the store when   *)
(* the professional has none on any day (resolve_effective_hours). A range of the      *)
(* store has no id of its own.                                                        *)
EffectiveHours(s) ==
    IF RowIds(week[s]) = {}
    THEN {[id |-> 0, from |-> f[1], to |-> f[2]] : f \in StoreHours}
    ELSE {[id |-> i, from |-> week[s][i].from, to |-> week[s][i].to] :
            i \in {j \in RowIds(week[s]) : week[s][j].day = 0}}

(* franjas_cover *)
FranjasCover(s, start, end) == \E f \in EffectiveHours(s) : f.from <= start /\ end <= f.to

-----------------------------------------------------------------------------
(* The grid *)

Overlaps(a, b, c, d) == a < d /\ b > c

(* _selection_and_staff, _services_and_common_staff, too_long *)
SelectionMinutes(V) == SumFunctionOnSet(ServiceMinutes, V)
GapMinutes(V) == Min({ServiceMinutes[v] : v \in V})
CommonStaff(V) == {s \in AvStaff : V \subseteq Skills[s]}
ShortSelections == {V \in (SUBSET AvServices) \ {{}} : SelectionMinutes(V) <= MaxSelection}

MinBookable == clock + Notice

(* _slot_status. Plausible bug: the neighbours are not widened by the buffer. *)
FreeWithoutBuffer(s, start, end) ==
    /\ \A b \in booked[s] : end <= b[1] \/ start >= b[2]
    /\ \A b \in blocked[s] : ~Overlaps(b[1], b[2], start, end)
    /\ start >= MinBookable
SlotFree(s, start, end) ==
    /\ \A b \in booked[s] : end <= b[1] - DayBuffer \/ start >= b[2] + DayBuffer
    /\ \A b \in blocked[s] : ~Overlaps(b[1], b[2], start, end)
    /\ start >= MinBookable

(* The obstacles of a range of hours: appointments with their buffer, blocks, notice *)
Obstacles(s, f) ==
    {<<b[1] - DayBuffer, b[2] + DayBuffer>> : b \in booked[s]} \cup blocked[s]
    \cup (IF MinBookable > f.from THEN {<<f.from, MinBookable>>} ELSE {})

(* free_window *)
FreeFrom(s, f, start) == Max({f.from} \cup {o[2] : o \in {p \in Obstacles(s, f) : p[2] <= start}})
FreeUntil(s, f, end) == Min({f.to} \cup {o[1] : o \in {p \in Obstacles(s, f) : p[1] >= end}})

(* _first_grid_start *)
FirstGridStart(origin, instant) ==
    IF instant <= origin THEN origin
    ELSE origin + SlotStep * ((instant - origin + SlotStep - 1) \div SlotStep)

(* leaves_unsellable_gap. *)
LeavesUnsellableGap(s, f, start, minutes, gap) ==
    LET until == FreeUntil(s, f, start + minutes)
        first == FirstGridStart(f.from, FreeFrom(s, f, start))
        atStart == start = first
        atEnd == start + SlotStep + minutes > until
        fitsBefore == first + gap <= start
        fitsAfter == FirstGridStart(f.from, start + minutes) + gap <= until
    IN ~(atStart \/ atEnd) /\ ~(fitsBefore /\ fitsAfter)

(* _schedule_slots: the starts of the grid that are free, all or only the ones offered *)
GridStarts(f, minutes) ==
    {t \in Instants : t >= f.from /\ (t - f.from) % SlotStep = 0 /\ t + minutes <= f.to}
FreeSlots(s, f, minutes) == {t \in GridStarts(f, minutes) : SlotFree(s, t, t + minutes)}
OfferedSlots(s, f, minutes, gap) ==
    {t \in FreeSlots(s, f, minutes) : ~LeavesUnsellableGap(s, f, t, minutes, gap)}

-----------------------------------------------------------------------------
(* Bookings and blocks of the day *)

(* staff_can_take_range, _lock_and_recheck, and _require_notice before it *)
CanTakeRange(s, start, end) ==
    /\ start >= MinBookable
    /\ FranjasCover(s, start, end)
    /\ \A b \in blocked[s] : ~Overlaps(b[1], b[2], start, end)
    /\ \A b \in booked[s] : ~Overlaps(b[1] - DayBuffer, b[2] + DayBuffer, start, end)

(* create_appointment: any start, of the grid or not *)
BookRange(s, V, start) ==
    /\ s \in CommonStaff(V) /\ start + SelectionMinutes(V) <= DayEnd
    /\ Cardinality(booked[s] \cup blocked[s]) < MaxBusy
    /\ CanTakeRange(s, start, start + SelectionMinutes(V))
    /\ booked' = [booked EXCEPT ![s] = @ \cup {<<start, start + SelectionMinutes(V)>>}]
    /\ UNCHANGED <<week, blocked, clock, weekReq>>

(* A block of the agenda, over no active appointment *)
BlockRange(s, start, end) ==
    /\ start < end /\ Cardinality(booked[s] \cup blocked[s]) < MaxBusy
    /\ \A b \in booked[s] : ~Overlaps(b[1], b[2], start, end)
    /\ blocked' = [blocked EXCEPT ![s] = @ \cup {<<start, end>>}]
    /\ UNCHANGED <<week, booked, clock, weekReq>>

ClockTicks ==
    /\ clock < DayEnd
    /\ clock' = clock + 1
    /\ UNCHANGED <<week, booked, blocked, weekReq>>

-----------------------------------------------------------------------------
(* The week of a professional *)

(* lock_staff: FOR UPDATE, held to the commit. *)
LockStaff(r, s) == \A q \in WeekRequests \ {r} : weekReq[q].at # "idle" => weekReq[q].staff # s

(* _assert_no_overlap against the rows but the one edited *)
NoOverlap(rows, row, but) ==
    \A i \in RowIds(rows) \ but :
        rows[i].day = row.day => ~Overlaps(rows[i].from, rows[i].to, row.from, row.to)

WriteWeek(r, kind, s, rows) ==
    weekReq' = [weekReq EXCEPT ![r] = [at |-> kind, staff |-> s, rows |-> rows]]

(* add_staff_schedule, add_schedule: the lock, the check, the INSERT *)
AddSchedule(r, s, i, row) ==
    /\ weekReq[r].at = "idle" /\ LockStaff(r, s)
    /\ week[s][i] = NoFranja /\ (\A q \in WeekRequests : weekReq[q].rows[i] = NoFranja)
    /\ NoOverlap(week[s], row, {})
    /\ WriteWeek(r, "add", s, [IdleWeek.rows EXCEPT ![i] = row])
    /\ UNCHANGED <<week, booked, blocked, clock>>

(* update_staff_schedule, update_schedule: the row is read again under the lock *)
UpdateSchedule(r, s, i, row) ==
    /\ weekReq[r].at = "idle" /\ LockStaff(r, s)
    /\ week[s][i] # NoFranja
    /\ NoOverlap(week[s], row, {i})
    /\ WriteWeek(r, "update", s, [IdleWeek.rows EXCEPT ![i] = row])
    /\ UNCHANGED <<week, booked, blocked, clock>>

(* delete_staff_schedule, delete_schedule *)
DeleteSchedule(r, s, i) ==
    /\ weekReq[r].at = "idle" /\ LockStaff(r, s)
    /\ week[s][i] # NoFranja
    /\ WriteWeek(r, "delete", s, [IdleWeek.rows EXCEPT ![i] = week[s][i]])
    /\ UNCHANGED <<week, booked, blocked, clock>>

(* first_overlapping_day: of the rows of a day in order, each with the next one *)
Precedes(rows, i, j) ==
    /\ rows[i].day = rows[j].day
    /\ \/ rows[i].from < rows[j].from
       \/ rows[i].from = rows[j].from /\ rows[i].to < rows[j].to
       \/ rows[i].from = rows[j].from /\ rows[i].to = rows[j].to /\ i < j
FirstOverlappingDay(rows) ==
    \E i, j \in RowIds(rows) :
        /\ Precedes(rows, i, j)
        /\ ~\E k \in RowIds(rows) : Precedes(rows, i, k) /\ Precedes(rows, k, j)
        /\ rows[j].from < rows[i].to

(* replace_staff_schedules, replace_schedules: the whole week in one transaction *)
ReplaceSchedules(r, s, rows) ==
    /\ weekReq[r].at = "idle" /\ LockStaff(r, s)
    /\ ~FirstOverlappingDay(rows)
    /\ WriteWeek(r, "replace", s, rows)
    /\ UNCHANGED <<week, booked, blocked, clock>>

(* The writes and the commit; _invalidar_agenda follows it (AvailabilityCache). *)
CommitWeek(r) ==
    LET q == weekReq[r]
        i == CHOOSE j \in FranjaIds : q.rows[j] # NoFranja
    IN
    /\ q.at # "idle"
    /\ week' = [week EXCEPT ![q.staff] =
          CASE q.at = "replace" -> q.rows
            [] q.at = "delete"  -> [@ EXCEPT ![i] = NoFranja]
            [] q.at = "update" /\ @[i] = NoFranja -> @
            [] OTHER            -> [@ EXCEPT ![i] = q.rows[i]]]
    /\ weekReq' = [weekReq EXCEPT ![r] = IdleWeek]
    /\ UNCHANGED <<booked, blocked, clock>>

AvailabilityNext ==
    \/ ClockTicks
    \/ \E s \in AvStaff :
          \/ \E V \in ShortSelections, t \in Instants : BookRange(s, V, t)
          \/ \E t, u \in Instants : BlockRange(s, t, u)
          \/ \E r \in WeekRequests :
                \/ \E i \in FranjaIds : DeleteSchedule(r, s, i)
                \/ \E i \in FranjaIds, row \in Rows :
                      AddSchedule(r, s, i, row) \/ UpdateSchedule(r, s, i, row)
                \/ \E rows \in [FranjaIds -> Rows \cup {NoFranja}] : ReplaceSchedules(r, s, rows)
    \/ \E r \in WeekRequests : CommitWeek(r)

AvailabilitySpec == AvailabilityInit /\ [][AvailabilityNext]_availVars

-----------------------------------------------------------------------------
(* What the portal offers the booking accepts: "el cliente veria horarios que despues   *)
(* se rechazan" (_slot_status and load_day_agenda against staff_can_take_range).         *)
OfferedIsAccepted ==
    \A V \in ShortSelections : \A s \in CommonStaff(V) : \A f \in EffectiveHours(s) :
        \A t \in OfferedSlots(s, f, SelectionMinutes(V), GapMinutes(V)) :
            CanTakeRange(s, t, t + SelectionMinutes(V))

(* No hour is offered twice for a professional, whatever edits of the week cross: "el     *)
(* cliente veia 09:00 dos veces" (_assert_no_overlap, first_overlapping_day, lock_staff).  *)
OfferedOnce ==
    \A V \in ShortSelections : \A s \in CommonStaff(V) : \A f, g \in EffectiveHours(s) :
        f # g => OfferedSlots(s, f, SelectionMinutes(V), GapMinutes(V))
                   \cap OfferedSlots(s, g, SelectionMinutes(V), GapMinutes(V)) = {}

(* The filter of gaps never hides all that is free: "no ofrecer huecos irreservables, no   *)
(* esconder todo" (leaves_unsellable_gap, free_window).                                    *)
FilterLeavesSome ==
    \A V \in ShortSelections : \A s \in CommonStaff(V) : \A f \in EffectiveHours(s) :
        FreeSlots(s, f, SelectionMinutes(V)) # {}
        => OfferedSlots(s, f, SelectionMinutes(V), GapMinutes(V)) # {}

(* What the portal offers can be booked, is offered once, and the filter against the     *)
(* gaps that cannot be sold never leaves a professional with room without any hour.       *)
OfferIsHonest == OfferedIsAccepted /\ OfferedOnce /\ FilterLeavesSome
=============================================================================
