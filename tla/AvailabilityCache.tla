-------------------------- MODULE AvailabilityCache --------------------------
(* The cache of the availability (core/availability_cache.py and the readers of    *)
(* modules/appointments/availability.py). Two levels, the slots of a service and     *)
(* the raw agenda of the day they derive from, under keys that carry a generation     *)
(* of the store and a version of the day. A writer commits and then increments a       *)
(* counter; nothing is ever deleted. The content of the agenda is the number of its     *)
(* commits. Counters expire: an absent one reads 0.                                     *)
EXTENDS Naturals, FiniteSets

CONSTANTS CacheReaders, CacheWriters,
          SlotsTTL,      \* SLOTS_TTL_SECONDS = DAY_AGENDA_TTL_SECONDS
          VersionTTL,    \* VERSION_TTL_SECONDS
          MaxCacheTime,  \* bound: the clock
          MaxCommits,    \* bound: changes of the agenda
          MaxOutages     \* bound: invalidations a Redis that is down loses

(* The version outlives the slots written under it by far (300 s and seven days), also      *)
(* those of a request that took almost as long as they live.                               *)
ASSUME CacheAssumption ==
    /\ {MaxCacheTime, MaxCommits, MaxOutages} \subseteq Nat
    /\ SlotsTTL \in Nat \ {0}
    /\ VersionTTL \in Nat /\ 2 * SlotsTTL - 1 <= VersionTTL /\ SlotsTTL < VersionTTL

VARIABLES time,
          content,     \* commits of the agenda of the day
          known,       \* the last commit whose invalidation was done
          counters,    \* "gen" and "ver": [value, expires]; value 0 = absent
          entries,     \* live entries: [level, gen, ver, content, built, expires]
          reader,      \* per reader of the portal
          writer,      \* per writer of the panel or the portal: what it has to invalidate
          outages

cacheVars == <<time, content, known, counters, entries, reader, writer, outages>>

Counters == {"gen", "ver"}
IdleReader == [at |-> "idle", gen |-> 0, ver |-> 0, content |-> 0, built |-> 0, fromDb |-> FALSE,
               since |-> 0]
IdleWriter == [at |-> "idle", bumps |-> "ver", commit |-> 0]

CacheEntries == [level : {"slots", "agenda"}, gen : Nat, ver : Nat, content : Nat, built : Nat,
                 expires : Nat]
ReaderStates == [at : {"idle", "keys", "agenda"}, gen : Nat, ver : Nat, content : Nat,
                 built : Nat, fromDb : BOOLEAN, since : Nat]
WriterStates == [at : {"idle", "committed"}, bumps : Counters, commit : Nat]

CacheTypeOK ==
    /\ time \in Nat /\ content \in Nat /\ known \in 0..content
    /\ counters \in [Counters -> [value : Nat, expires : Nat]]
    /\ entries \subseteq CacheEntries
    /\ reader \in [CacheReaders -> ReaderStates]
    /\ writer \in [CacheWriters -> WriterStates]
    /\ outages \in Nat

CacheInit ==
    /\ time = 0 /\ content = 0 /\ known = 0 /\ outages = 0
    /\ counters = [k \in Counters |-> [value |-> 0, expires |-> 0]]
    /\ entries = {}
    /\ reader = [r \in CacheReaders |-> IdleReader]
    /\ writer = [w \in CacheWriters |-> IdleWriter]

-----------------------------------------------------------------------------
(* Redis *)

(* GETEX of the two counters (current_generation_and_version, resolve_availability_keys): *)
(* reading one stretches its expiry. Plausible bug, the one this replaced: only the INCR    *)
(* sets it.                                                                                 *)
ReadWithoutStretch == counters
ReadCounters ==
    [k \in Counters |-> IF counters[k].value = 0 THEN counters[k]
                        ELSE [counters[k] EXCEPT !.expires = time + VersionTTL]]

(* INCR and EXPIRE, one MULTI (_bump_counters) *)
BumpCounter(k) ==
    [counters EXCEPT ![k] = [value |-> @.value + 1, expires |-> time + VersionTTL]]

UnderKeys(e, gen, ver) == e.gen = gen /\ e.ver = ver
EntriesAt(level, gen, ver) == {e \in entries : e.level = level /\ UnderKeys(e, gen, ver)}

(* SETEX: replaces the value of the key *)
WithEntry(es, e) == {x \in es : x.level # e.level \/ ~UnderKeys(x, e.gen, e.ver)} \cup {e}

-----------------------------------------------------------------------------
(* A reader: get_available_slots *)

(* _read_slots: the keys, then GET of the slots. A hit answers. *)
ReadSlots(r) ==
    LET gen == counters["gen"].value
        ver == counters["ver"].value
    IN
    /\ reader[r].at = "idle"
    /\ counters' = ReadCounters
    /\ IF EntriesAt("slots", gen, ver) # {}
       THEN UNCHANGED reader
       ELSE reader' = [reader EXCEPT ![r] =
              [IdleReader EXCEPT !.at = "keys", !.gen = gen, !.ver = ver, !.since = time]]
    /\ UNCHANGED <<time, content, known, entries, writer, outages>>

(* _day_agenda, load_day_agenda: from the second level, else from the database *)
ReadAgenda(r) ==
    LET q == reader[r]
        cached == EntriesAt("agenda", q.gen, q.ver)
    IN
    /\ q.at = "keys"
    /\ \/ \E e \in cached :
             reader' = [reader EXCEPT ![r].at = "agenda", ![r].content = e.content,
                                      ![r].built = e.built, ![r].fromDb = FALSE]
       \/ /\ cached = {}
          /\ reader' = [reader EXCEPT ![r].at = "agenda", ![r].content = content,
                                      ![r].built = time, ![r].fromDb = TRUE]
    /\ UNCHANGED <<time, content, known, counters, entries, writer, outages>>

(* remaining_ttl: the slots live what is left of the agenda they derive from, at least   *)
(* one second.                                                                           *)
RemainingTTL(built) == IF time - built < SlotsTTL THEN SlotsTTL - (time - built) ELSE 1

(* _write_cache: the slots, and the agenda when it came from the database *)
WriteCache(r) ==
    LET q == reader[r]
        new(level, expires) == [level |-> level, gen |-> q.gen, ver |-> q.ver,
                                content |-> q.content, built |-> q.built, expires |-> expires]
        withSlots == WithEntry(entries, new("slots", time + RemainingTTL(q.built)))
    IN
    /\ q.at = "agenda"
    /\ entries' = IF q.fromDb THEN WithEntry(withSlots, new("agenda", time + SlotsTTL))
                  ELSE withSlots
    /\ reader' = [reader EXCEPT ![r] = IdleReader]
    /\ UNCHANGED <<time, content, known, counters, writer, outages>>

(* The request ends without writing: Redis fails, or there is no such service. *)
ReaderGivesUp(r) ==
    /\ reader[r].at # "idle"
    /\ reader' = [reader EXCEPT ![r] = IdleReader]
    /\ UNCHANGED <<time, content, known, counters, entries, writer, outages>>

-----------------------------------------------------------------------------
(* A writer: a booking, a block, a cancellation bump the day; the week of a              *)
(* professional, a service, the hours of the store bump the generation.                   *)

CommitChange(w, k) ==
    /\ writer[w].at = "idle" /\ content < MaxCommits
    /\ content' = content + 1
    /\ writer' = [writer EXCEPT ![w] = [at |-> "committed", bumps |-> k, commit |-> content']]
    /\ UNCHANGED <<time, known, counters, entries, reader, outages>>

(* invalidate_availability, invalidate_availability_range, invalidate_store_availability, *)
(* after the commit.                                                                      *)
Invalidate(w) ==
    /\ writer[w].at = "committed"
    /\ counters' = BumpCounter(writer[w].bumps)
    /\ known' = IF writer[w].commit > known THEN writer[w].commit ELSE known
    /\ writer' = [writer EXCEPT ![w] = IdleWriter]
    /\ UNCHANGED <<time, content, entries, reader, outages>>

(* _tolerar_redis_caido: the invalidation is lost, the change stands *)
InvalidationLost(w) ==
    /\ writer[w].at = "committed" /\ outages < MaxOutages
    /\ outages' = outages + 1
    /\ writer' = [writer EXCEPT ![w] = IdleWriter]
    /\ UNCHANGED <<time, content, known, counters, entries, reader>>

-----------------------------------------------------------------------------
(* Time passes; what expires goes. No request lasts as long as the slots live, and the     *)
(* slots are derived in memory within the unit of time in which the agenda was read.       *)
CacheTick ==
    /\ time < MaxCacheTime
    /\ \A r \in CacheReaders :
          reader[r].at # "agenda" /\ (reader[r].at = "keys" => time + 1 - reader[r].since < SlotsTTL)
    /\ time' = time + 1
    /\ entries' = {e \in entries : e.expires > time'}
    /\ counters' = [k \in Counters |->
          IF counters[k].expires > time' THEN counters[k] ELSE [value |-> 0, expires |-> 0]]
    /\ UNCHANGED <<content, known, reader, writer, outages>>

CacheNext ==
    \/ CacheTick
    \/ \E r \in CacheReaders : ReadSlots(r) \/ ReadAgenda(r) \/ WriteCache(r) \/ ReaderGivesUp(r)
    \/ \E w \in CacheWriters :
          \/ \E k \in Counters : CommitChange(w, k)
          \/ Invalidate(w) \/ InvalidationLost(w)

CacheSpec == CacheInit /\ [][CacheNext]_cacheVars

-----------------------------------------------------------------------------
(* What a reader is served *)
Served == EntriesAt("slots", counters["gen"].value, counters["ver"].value)

(* After an invalidation nothing older is served, though readers in the middle of their    *)
(* work write what they read before, and though counters expire and start again: "la        *)
(* version no puede vencer mientras quede vivo un slot escrito bajo ella"                    *)
(* (VERSION_TTL_SECONDS, resolve_availability_keys).                                         *)
NothingOlderThanInvalidated == \A e \in Served : e.content >= known

(* A lost invalidation is served for SLOTS_TTL_SECONDS since the read of the database, no     *)
(* matter through how many levels: "una invalidacion perdida podia servirse hasta ~600 s"     *)
(* (remaining_ttl).                                                                           *)
StaleIsBounded == \A e \in entries : time < e.built + SlotsTTL

(* The cache serves nothing older than the last invalidation, nor older than its TTL when  *)
(* the invalidation was lost.                                                              *)
CacheIsFresh == NothingOlderThanInvalidated /\ StaleIsBounded
=============================================================================
