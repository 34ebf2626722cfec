------------------------------ MODULE TtlCache ------------------------------
(***************************************************************************)
(* TTLCache of backend/cache/in_memory.py: a dictionary of values with     *)
(* their expiry, bounded in size.  An expired entry is noticed only when   *)
(* its key is looked up; until then it takes up room.  Every operation     *)
(* holds the lock throughout.  The counts of hits and misses are left out. *)
(***************************************************************************)
EXTENDS Integers, FiniteSets

CONSTANTS
  Keys,
  Values,
  MaxEntries, \* settings.CACHE_MAX_ENTRIES
  Ttl,        \* settings.CACHE_TTL_SECONDS, in ticks
  Absent      \* no entry

ASSUME MaxEntriesAssumption == MaxEntries \in Nat \ {0}
ASSUME TtlAssumption == Ttl \in Nat

\* An entry, with the ticks left until expires_at; no code tells entries apart
\* that have expired, except by whose turn it is to be evicted.
Expired == -1
Entries == [value : Values, left : Expired .. Ttl]

ASSUME AbsentAssumption == Absent \notin Entries /\ Absent \notin Values

VARIABLE store    \* TTLCache._store

Init == store = [k \in Keys |-> Absent]

Held == {k \in Keys : store[k] # Absent}

\* get finds a value: an entry is valid up to and including its expiry.
Live(k) == store[k] # Absent /\ store[k].left > Expired

\* get: an expired entry is dropped, and nothing else happens.
Get(k) == store' = [store EXCEPT ![k] = IF Live(k) THEN @ ELSE Absent]

\* Mutant of Evictable: the youngest entry goes.
EvictableYoungest ==
  {k \in Held : \A j \in Held : store[j].left <= store[k].left}

\* The entries closest to expiry, one of which is evicted.
Evictable == {k \in Held : \A j \in Held : store[k].left <= store[j].left}

\* Mutant of Stored: the expiry is one tick late.
StoredTooLong(v) == [value |-> v, left |-> Ttl + 1]

Stored(v) == [value |-> v, left |-> Ttl]

\* Mutant of Crowded: the limit is noticed one entry late.
CrowdedLate(k) == Cardinality(Held) > MaxEntries /\ k \notin Held

\* A new key finds the store full; an old one takes its own place.
Crowded(k) == Cardinality(Held) >= MaxEntries /\ k \notin Held

Set(k, v) ==
  \/ ~Crowded(k) /\ store' = [store EXCEPT ![k] = Stored(v)]
  \/ /\ Crowded(k)
     /\ \E old \in Evictable :
          store' = [store EXCEPT ![old] = Absent, ![k] = Stored(v)]

Clear == store' = [k \in Keys |-> Absent]

\* Time passes for every entry that has not expired.
Tick ==
  /\ \E k \in Keys : Live(k)
  /\ store' = [k \in Keys |->
                 IF Live(k) THEN [store[k] EXCEPT !.left = @ - 1] ELSE store[k]]

Next ==
  \/ \E k \in Keys : Get(k) \/ \E v \in Values : Set(k, v)
  \/ Clear
  \/ Tick

Spec == Init /\ [][Next]_store

-----------------------------------------------------------------------------
(* Properties.                                                              *)

TypeOK == store \in [Keys -> Entries \cup {Absent}]

\* The store never outgrows its limit, expired entries included.
SizeBounded == Cardinality(Held) <= MaxEntries

\* What callers see of the store: the values that have not expired, and their age.
Seen == [k \in Keys |-> IF Live(k) THEN store[k].value ELSE Absent]
Age == [k \in Keys |-> IF Live(k) THEN Ttl - store[k].left ELSE 0]

Recent == INSTANCE RecentValues WITH
  recent <- Seen, age <- Age, Room <- MaxEntries, MaxAge <- Ttl

\* The cache returns the last value set within the time to live or nothing, and it
\* gives up a value that has not expired only when the store is full of such
\* values: expired entries that nobody has looked up go first.
RecentSpec == Recent!RecentSpec
=============================================================================
