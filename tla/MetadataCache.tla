--------------------------- MODULE MetadataCache ---------------------------
(***************************************************************************)
(* The bounded round-robin cache of internal/service/cache.go.  Load and   *)
(* Store run under one mutex, so each is one step; Load changes nothing.   *)
(*                                                                         *)
(* entries is the Go map (None: no entry), keys the slice of its keys and  *)
(* next the index, counted from zero, of the key to evict.  stores and     *)
(* serial are history: how many entries have been added, and which of      *)
(* these additions each entry comes from.                                  *)
(***************************************************************************)
EXTENDS AccountCache, Sequences

CONSTANTS
    IDs,        \* account IDs
    Data,       \* account metadata
    None,
    MaxStores   \* bound on the additions

ASSUME MetadataAssumption == None \notin Data /\ MaxStores \in Nat

VARIABLES entries, keys, next, stores, serial

vars == <<entries, keys, next, stores, serial>>

Init ==
    /\ entries = [a \in IDs |-> None]
    /\ keys = << >>
    /\ next = 0
    /\ stores = 0
    /\ serial = [a \in IDs |-> 0]

\* History: a new entry gets the next number.
Added(a) ==
    /\ stores < MaxStores
    /\ stores' = stores + 1
    /\ serial' = [serial EXCEPT ![a] = stores + 1]

\* The entry is there: its data is replaced where it stands.
Replace(a, m) ==
    /\ entries[a] # None
    /\ entries' = [entries EXCEPT ![a] = m]
    /\ UNCHANGED <<keys, next, stores, serial>>

\* There is room for one more.
Add(a, m) ==
    /\ entries[a] = None
    /\ Cardinality(Cached(entries, None)) < CacheSize
    /\ entries' = [entries EXCEPT ![a] = m]
    /\ keys' = Append(keys, a)
    /\ Added(a)
    /\ UNCHANGED next

\* The index after an eviction, when it never moves.
AdvanceStuck(n) == n

Advance(n) == (n + 1) % CacheSize

\* Evicting without giving the slot to the new key.
EvictKeepsKey(a, m) ==
    LET evicted == keys[next + 1] IN
    /\ entries[a] = None
    /\ Cardinality(Cached(entries, None)) >= CacheSize
    /\ entries' = [entries EXCEPT ![evicted] = None, ![a] = m]
    /\ next' = Advance(next)
    /\ Added(a)
    /\ UNCHANGED keys

\* Making room by starting over.
EvictAll(a, m) ==
    /\ entries[a] = None
    /\ Cardinality(Cached(entries, None)) >= CacheSize
    /\ entries' = [b \in IDs |-> IF b = a THEN m ELSE None]
    /\ keys' = <<a>>
    /\ next' = 0
    /\ Added(a)

\* The cache is full: the key at next makes room.
Evict(a, m) ==
    LET evicted == keys[next + 1] IN
    /\ entries[a] = None
    /\ Cardinality(Cached(entries, None)) >= CacheSize
    /\ entries' = [entries EXCEPT ![evicted] = None, ![a] = m]
    /\ keys' = [keys EXCEPT ![next + 1] = a]
    /\ next' = Advance(next)
    /\ Added(a)

\* A cache of size zero is disabled.
Store(a, m) ==
    /\ CacheSize # 0
    /\ Replace(a, m) \/ Add(a, m) \/ Evict(a, m)

Next == \E a \in IDs, m \in Data : Store(a, m)

Spec == Init /\ [][Next]_vars

-----------------------------------------------------------------------------
TypeOK ==
    /\ entries \in [IDs -> Data \cup {None}]
    /\ keys \in Seq(IDs)
    /\ next \in Nat
    /\ stores \in Nat
    /\ serial \in [IDs -> Nat]

\* The slice lists every entry exactly once, the cache keeps its limit, and
\* the index points into the slice as soon as something has to be evicted.
KeysAreEntries ==
    /\ \A i \in 1..Len(keys) : keys[i] \in Cached(entries, None)
    /\ \A a \in Cached(entries, None) : \E i \in 1..Len(keys) : keys[i] = a
    /\ \A i, j \in 1..Len(keys) : keys[i] = keys[j] => i = j
    /\ Len(keys) <= CacheSize
    /\ next # 0 => (Len(keys) = CacheSize /\ next < CacheSize)

\* An entry is forgotten only when the cache is full, and it was added before
\* every entry that stays.
EvictsOldest ==
    [][\A a \in IDs : (entries[a] # None /\ entries'[a] = None) =>
          /\ Len(keys) = CacheSize
          /\ \A b \in Cached(entries, None) :
                 entries'[b] # None => serial[a] < serial[b]]_vars

\* What AccountCache promises to the service.
Contract == INSTANCE CacheContract WITH map <- entries

\* The round-robin cache keeps the contract LedgerService relies on: seen
\* through its entries it is a bounded map that forgets at most one entry, and
\* only to make room for another.
KeepsContract == Contract!Spec
=============================================================================
