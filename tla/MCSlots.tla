------------------------------- MODULE MCSlots -------------------------------
(* Small instances of three components that share no state: the locks that keep *)
(* the agenda free of overlaps, what the portal offers, and the cache it is     *)
(* served from. The initial state chooses the one that moves, the others stay   *)
(* at their beginning.                                                          *)
EXTENDS Slots, Availability, AvailabilityCache, TLC

CONSTANTS a1, a2, b1, b2, q1, q2, Cut, Tint, Ana

VARIABLE part
allVars == <<part, vars, availVars, cacheVars>>

(* The professionals 1 and 2; a booking tries 2 first, a block locks 1     *)
(* first.                                                                  *)
Ids == {1, 2}
Order == 1 :> 2 @@ 2 :> 1

Hours(f, t) == [from |-> f, to |-> t]

(* They do not overlap, but with a buffer of 1 they are too near.          *)
Grid == {Hours(0, 2), Hours(2, 4)}
Shut == {Hours(0, 1), Hours(1, 4)}

(* The services and the hours of the portal. *)
Minutes == Cut :> 3 @@ Tint :> 2
Does == Ana :> {Cut, Tint}
Opening == {<<1, 7>>}
Ranges == {<<0, 4>>, <<3, 8>>}

(* The week of a professional who does not work on the day. *)
DayOff == [IdleWeek.rows EXCEPT ![1] = [day |-> 1, from |-> 0, to |-> 4]]

Symmetry == Permutations(Appts) \cup Permutations(Blocks)
              \cup Permutations(Requests)

AllInit ==
    /\ part \in {"slots", "availability", "cache"}
    /\ Init /\ AvailabilityInit /\ CacheInit
    /\ week[Ana] = IF part = "availability" THEN IdleWeek.rows ELSE DayOff

AllNext ==
    /\ UNCHANGED part
    /\ \/ part = "slots" /\ Next /\ UNCHANGED <<availVars, cacheVars>>
       \/ part = "availability" /\ AvailabilityNext /\ UNCHANGED <<vars, cacheVars>>
       \/ part = "cache" /\ CacheNext /\ UNCHANGED <<vars, availVars>>

AllSpec == AllInit /\ [][AllNext]_allVars
=============================================================================
