------------------------- MODULE MetadataCacheProofs -------------------------
(***************************************************************************)
(* The round-robin cache keeps its promises for every limit, every set of  *)
(* account IDs and every sequence of stores.                               *)
(***************************************************************************)
EXTENDS MetadataCache, FiniteSetTheorems, TLAPS

\* Read from next on, and around the end, the slice lists the entries in the
\* order they were added.
InOrder ==
    /\ \A a \in Cached(entries, None) : serial[a] <= stores
    /\ \A i, j \in 1..Len(keys) :
           (i < j /\ (j <= next \/ next < i)) => serial[keys[i]] < serial[keys[j]]
    /\ \A i, j \in 1..Len(keys) :
           (i <= next /\ next < j) => serial[keys[j]] < serial[keys[i]]

\* The inductive invariant: the slice also has the length of the map, which is
\* what makes the length test of Store a test on the slice.
IInv ==
    /\ TypeOK
    /\ KeysAreEntries
    /\ IsFiniteSet(Cached(entries, None))
    /\ Cardinality(Cached(entries, None)) = Len(keys)
    /\ InOrder

\* The index wraps at the limit.
LEMMA AdvanceFacts ==
    ASSUME NEW n \in Nat, n < CacheSize
    PROVE  Advance(n) = IF n + 1 = CacheSize THEN 0 ELSE n + 1
  BY CacheSizeAssumption DEF Advance

LEMMA InitOK == Init => IInv
  <1> SUFFICES ASSUME Init PROVE IInv
    OBVIOUS
  <1>1. Cached(entries, None) = {}
    BY DEF Init, Cached
  <1>2. Len(keys) = 0 /\ 1..0 = {}
    BY DEF Init
  <1>3. TypeOK
    BY DEF Init, TypeOK
  <1>4. KeysAreEntries
    BY <1>1, <1>2, CacheSizeAssumption DEF KeysAreEntries, Init
  <1>5. InOrder
    BY <1>1, <1>2 DEF InOrder
  <1> QED
    BY <1>1, <1>2, <1>3, <1>4, <1>5, FS_EmptySet DEF IInv

\* Replacing the data of an entry moves nothing.
LEMMA ReplaceOK ==
    ASSUME IInv, NEW a \in IDs, NEW m \in Data, Replace(a, m)
    PROVE  IInv'
  <1>1. TypeOK'
    BY DEF IInv, TypeOK, Replace
  <1>2. Cached(entries, None)' = Cached(entries, None)
    BY MetadataAssumption DEF IInv, TypeOK, Replace, Cached
  <1> QED
    BY <1>1, <1>2 DEF IInv, KeysAreEntries, InOrder, Replace

\* An addition to a cache with room: next is still zero and the new key is last.
LEMMA AddOK ==
    ASSUME IInv, NEW a \in IDs, NEW m \in Data, Add(a, m)
    PROVE  IInv'
  <1> DEFINE C == Cached(entries, None)
  <1>1. TypeOK'
    BY DEF IInv, TypeOK, Add, Added
  <1>2. Cached(entries, None)' = Cached(entries, None) \cup {a} /\ a \notin Cached(entries, None)
    BY MetadataAssumption DEF IInv, TypeOK, Add, Cached
  <1>3. /\ Len(keys') = Len(keys) + 1
        /\ keys'[Len(keys) + 1] = a
        /\ \A i \in 1..Len(keys) : keys'[i] = keys[i] /\ keys[i] \in Cached(entries, None)
        /\ Len(keys) \in Nat
    <2>1. keys \in Seq(IDs) /\ keys' = Append(keys, a)
      BY DEF IInv, TypeOK, Add
    <2>2. \A i \in 1..Len(keys) : keys[i] \in Cached(entries, None)
      BY DEF IInv, KeysAreEntries
    <2> QED
      BY <2>1, <2>2
  <1>4. IsFiniteSet(C) /\ Cardinality(C) = Len(keys)
    BY DEF IInv
  <1>5. next' = 0 /\ next = 0 /\ Len(keys) < CacheSize
    BY <1>3, <1>4, CacheSizeAssumption DEF IInv, KeysAreEntries, Add
  <1>8. /\ IsFiniteSet(Cached(entries, None)')
        /\ Cardinality(Cached(entries, None)') = Len(keys')
    <2>1. /\ IsFiniteSet(C \cup {a})
          /\ Cardinality(C \cup {a}) = IF a \in C THEN Cardinality(C) ELSE Cardinality(C) + 1
      BY Zenon, <1>4, FS_AddElement
    <2> QED
      BY <1>2, <1>3, <1>4, <2>1
  <1>6. KeysAreEntries'
    <2>1. 1..Len(keys') = 1..Len(keys) \cup {Len(keys) + 1}
      BY <1>3
    <2>2. /\ \A i \in 1..Len(keys') : keys'[i] \in C \cup {a}
          /\ \A b \in C \cup {a} : \E i \in 1..Len(keys') : keys'[i] = b
      BY <1>2, <1>3, <2>1 DEF IInv, KeysAreEntries
    <2>3. \A i, j \in 1..Len(keys') : keys'[i] = keys'[j] => i = j
      BY <1>2, <1>3, <2>1 DEF IInv, KeysAreEntries
    <2> QED
      BY <1>2, <1>3, <1>5, <2>2, <2>3, CacheSizeAssumption DEF KeysAreEntries
  <1>7. InOrder'
    <2>1. /\ stores \in Nat /\ stores' = stores + 1 /\ serial'[a] = stores + 1
          /\ \A b \in Cached(entries, None) :
                 serial'[b] = serial[b] /\ serial[b] \in Nat /\ serial[b] <= stores
      BY <1>2 DEF IInv, TypeOK, InOrder, Add, Added, Cached
    <2>2. \A b \in Cached(entries, None)' : serial'[b] <= stores'
      BY <1>2, <2>1
    <2>3. \A i, j \in 1..Len(keys') : i < j => serial'[keys'[i]] < serial'[keys'[j]]
      <3>1. \A i, j \in 1..Len(keys) : i < j => serial[keys[i]] < serial[keys[j]]
        BY <1>3, <1>5 DEF IInv, InOrder
      <3>2. \A i \in 1..Len(keys) : serial'[keys'[i]] = serial[keys[i]] /\ serial'[keys'[i]] <= stores
        BY <1>3, <2>1
      <3> QED
        BY <1>3, <2>1, <3>1, <3>2
    <2> QED
      BY <1>5, <2>2, <2>3 DEF InOrder
  <1> QED
    BY <1>1, <1>8, <1>6, <1>7 DEF IInv

\* What an eviction finds: a full slice, and an entry at next.
LEMMA EvictFacts ==
    ASSUME IInv, NEW a \in IDs, NEW m \in Data, CacheSize # 0, Evict(a, m)
    PROVE  /\ Len(keys) = CacheSize
           /\ next \in Nat /\ next < CacheSize
           /\ next + 1 \in 1..Len(keys)
           /\ keys[next + 1] \in Cached(entries, None)
           /\ keys[next + 1] # a
           /\ a \notin Cached(entries, None)
           /\ Cached(entries, None)' = (Cached(entries, None) \ {keys[next + 1]}) \cup {a}
           /\ \A b \in Cached(entries, None) \ {keys[next + 1]} : entries'[b] = entries[b]
  <1>1. Len(keys) = CacheSize /\ Len(keys) \in Nat
    BY CacheSizeAssumption DEF IInv, TypeOK, KeysAreEntries, Evict
  <1>2. next \in Nat /\ next < CacheSize /\ next + 1 \in 1..Len(keys)
    BY <1>1, CacheSizeAssumption DEF IInv, TypeOK, KeysAreEntries
  <1>3. keys[next + 1] \in Cached(entries, None) /\ keys[next + 1] \in IDs
    BY <1>2 DEF IInv, TypeOK, KeysAreEntries
  <1>4. a \notin Cached(entries, None)
    BY DEF Evict, Cached
  <1>5. Cached(entries, None)' = (Cached(entries, None) \ {keys[next + 1]}) \cup {a}
    BY <1>3, <1>4, MetadataAssumption DEF Evict, Cached, IInv, TypeOK
  <1>6. \A b \in Cached(entries, None) \ {keys[next + 1]} : entries'[b] = entries[b]
    BY <1>3, <1>4 DEF Evict, Cached, IInv, TypeOK
  <1> QED
    BY <1>1, <1>2, <1>3, <1>4, <1>5, <1>6

\* The new key takes the place of the oldest, and next moves past it.
LEMMA EvictOK ==
    ASSUME IInv, NEW a \in IDs, NEW m \in Data, CacheSize # 0, Evict(a, m)
    PROVE  IInv'
  <1> DEFINE C == Cached(entries, None)
             old == keys[next + 1]
  <1>1. /\ Len(keys) = CacheSize /\ next \in Nat /\ next < CacheSize
        /\ next + 1 \in 1..Len(keys) /\ old \in C /\ old # a /\ a \notin C
        /\ Cached(entries, None)' = (C \ {old}) \cup {a}
    BY EvictFacts
  <1>2. next' = IF next + 1 = CacheSize THEN 0 ELSE next + 1
    BY <1>1, AdvanceFacts DEF Evict
  <1>3. /\ keys' \in Seq(IDs) /\ Len(keys') = Len(keys)
        /\ keys'[next + 1] = a
        /\ \A i \in 1..Len(keys) : i # next + 1 => keys'[i] = keys[i]
    BY <1>1 DEF Evict, IInv, TypeOK
  <1>4. TypeOK'
    BY <1>1, <1>2, <1>3 DEF IInv, TypeOK, Evict, Added
  <1>5. \A i \in 1..Len(keys) : i # next + 1 => keys[i] \in C /\ keys[i] # old
    BY <1>1 DEF IInv, KeysAreEntries
  <1>6. /\ IsFiniteSet(Cached(entries, None)')
        /\ Cardinality(Cached(entries, None)') = Len(keys')
    <2>1. IsFiniteSet(C) /\ Cardinality(C) = Len(keys) /\ Len(keys) \in Nat
      BY DEF IInv, TypeOK
    <2>2. IsFiniteSet(C \ {old}) /\ Cardinality(C \ {old}) = Len(keys) - 1
      BY <1>1, <2>1, FS_RemoveElement
    <2>3. /\ IsFiniteSet((C \ {old}) \cup {a})
          /\ Cardinality((C \ {old}) \cup {a})
                 = IF a \in C \ {old} THEN Cardinality(C \ {old}) ELSE Cardinality(C \ {old}) + 1
      BY <2>2, FS_AddElement
    <2>4. a \notin C \ {old}
      BY <1>1
    <2> QED
      BY <1>1, <1>3, <2>1, <2>2, <2>3, <2>4
  <1>7. KeysAreEntries'
    <2>1. /\ \A i \in 1..Len(keys') : keys'[i] \in (C \ {old}) \cup {a}
          /\ \A b \in (C \ {old}) \cup {a} : \E i \in 1..Len(keys') : keys'[i] = b
      <3>1. ASSUME NEW b \in C \ {old} PROVE \E i \in 1..Len(keys) : b = keys'[i]
        <4>1. PICK i \in 1..Len(keys) : keys[i] = b
          BY DEF IInv, KeysAreEntries
        <4> QED
          BY <1>3, <4>1
      <3>2. ASSUME NEW i \in 1..Len(keys) PROVE keys'[i] \in (C \ {old}) \cup {a}
        BY <1>3, <1>5
      <3> QED
        BY <1>1, <1>3, <3>1, <3>2
    <2>2. \A i, j \in 1..Len(keys') : keys'[i] = keys'[j] => i = j
      BY <1>1, <1>3, <1>5 DEF IInv, KeysAreEntries
    <2> QED
      BY <1>1, <1>2, <1>3, <2>1, <2>2, CacheSizeAssumption DEF KeysAreEntries
  <1>8. InOrder'
    <2>1. /\ stores \in Nat /\ stores' = stores + 1 /\ serial'[a] = stores + 1
          /\ \A b \in C : serial'[b] = serial[b] /\ serial[b] \in Nat /\ serial[b] <= stores
      BY <1>1 DEF IInv, TypeOK, InOrder, Evict, Added, Cached
    <2>2. \A b \in Cached(entries, None)' : serial'[b] <= stores'
      BY <1>1, <2>1
    <2>3. \A i \in 1..Len(keys) : i # next + 1 =>
              serial'[keys'[i]] = serial[keys[i]] /\ serial[keys[i]] < serial'[keys'[next + 1]]
      BY <1>3, <1>5, <2>1
    <2> HIDE DEF C, old
    <2>4. \A i, j \in 1..Len(keys) : (i < j /\ (j <= next' \/ next' < i)) =>
              serial'[keys'[i]] < serial'[keys'[j]]
      BY <1>1, <1>2, <2>3 DEF IInv, InOrder
    <2>5. \A i, j \in 1..Len(keys) : (i <= next' /\ next' < j) =>
              serial'[keys'[j]] < serial'[keys'[i]]
      BY <1>1, <1>2, <2>3 DEF IInv, InOrder
    <2> QED
      BY <1>3, <2>2, <2>4, <2>5 DEF InOrder
  <1> QED
    BY <1>4, <1>6, <1>7, <1>8 DEF IInv

LEMMA NextOK == IInv /\ [Next]_vars => IInv'
  <1> SUFFICES ASSUME IInv, [Next]_vars PROVE IInv'
    OBVIOUS
  <1>1. CASE UNCHANGED vars
    BY <1>1 DEF vars, IInv, TypeOK, KeysAreEntries, InOrder, Cached
  <1>2. CASE Next
    <2>1. PICK a \in IDs, m \in Data : Store(a, m)
      BY <1>2 DEF Next
    <2> QED
      BY <2>1, ReplaceOK, AddOK, EvictOK DEF Store
  <1> QED
    BY <1>1, <1>2

\* The inductive invariant holds in every reachable state of the cache.
THEOREM Invariance == Spec => []IInv
  BY InitOK, NextOK, PTL DEF Spec

\* The slice of keys and the map never disagree, whatever the limit, so Store
\* of cache.go never indexes past the slice and never exceeds the limit.
THEOREM KeysAlwaysEntries == Spec => []KeysAreEntries
  <1>1. IInv => KeysAreEntries
    BY DEF IInv
  <1> QED
    BY <1>1, Invariance, PTL

\* Round-robin over the slice is first in, first out: only the entry that was
\* added before all others is ever evicted.
THEOREM AlwaysEvictsOldest == Spec => EvictsOldest
  <1> DEFINE Step == \A a \in IDs : (entries[a] # None /\ entries'[a] = None) =>
                         /\ Len(keys) = CacheSize
                         /\ \A b \in Cached(entries, None) :
                                entries'[b] # None => serial[a] < serial[b]
  <1>1. ASSUME IInv, Next PROVE Step
    <2>1. PICK a \in IDs, m \in Data : Store(a, m)
      BY <1>1 DEF Next
    <2>2. CASE Replace(a, m) \/ Add(a, m)
      BY <1>1, <2>2, MetadataAssumption DEF Replace, Add, IInv, TypeOK
    <2>3. CASE CacheSize # 0 /\ Evict(a, m)
      <3> DEFINE old == keys[next + 1]
      <3>1. /\ Len(keys) = CacheSize /\ next \in Nat /\ next + 1 \in 1..Len(keys)
            /\ old \in Cached(entries, None)
            /\ \A b \in Cached(entries, None) \ {old} : entries'[b] = entries[b]
            /\ Cached(entries, None)' = (Cached(entries, None) \ {old}) \cup {a}
        BY <1>1, <2>3, EvictFacts
      <3>2. ASSUME NEW b \in Cached(entries, None) \ {old}
            PROVE  serial[old] < serial[b]
        <4>1. PICK i \in 1..Len(keys) : b = keys[i] /\ i # next + 1
          BY <1>1, <3>2 DEF IInv, KeysAreEntries
        <4> QED
          BY <1>1, <3>1, <4>1 DEF IInv, InOrder
      <3>3. \A b \in IDs : (entries[b] # None /\ entries'[b] = None) => b = old
        BY <1>1, <3>1 DEF IInv, TypeOK, Cached
      <3> QED
        BY <3>1, <3>2, <3>3
    <2> QED
      BY <2>1, <2>2, <2>3 DEF Store
  <1>2. IInv /\ [Next]_vars => [Step]_vars
    BY <1>1
  <1> QED
    BY <1>2, Invariance, PTL DEF Spec, EvictsOldest

\* The cache implements the contract that LedgerService is proved over.
THEOREM AlwaysKeepsContract == Spec => KeepsContract
  <1>1. Init => Contract!Init
    BY DEF Init, Contract!Init
  <1>2. ASSUME IInv, Next PROVE Contract!Next
    <2>1. PICK a \in IDs, m \in Data : Store(a, m)
      BY <1>2 DEF Next
    <2>2. CASE Replace(a, m) \/ Add(a, m)
      <3>1. entries' \in Stored(entries, a, m, None)
        BY <2>1, <2>2 DEF Replace, Add, Store, Stored
      <3> QED
        BY <3>1 DEF Contract!Next, Contract!Store
    <2>3. CASE CacheSize # 0 /\ Evict(a, m)
      <3>1. keys[next + 1] \in Cached(entries, None)
        BY <1>2, <2>3, EvictFacts
      <3>2. ~(Cardinality(Cached(entries, None)) < CacheSize)
        <4>1. Cardinality(Cached(entries, None)) \in Nat
          BY <1>2, FS_CardinalityType DEF IInv
        <4> QED
          BY <2>3, <4>1, CacheSizeAssumption DEF Evict
      <3>3. entries' \in Stored(entries, a, m, None)
        BY <2>3, <3>1, <3>2 DEF Evict, Stored
      <3> QED
        BY <3>3 DEF Contract!Next, Contract!Store
    <2> QED
      BY <2>1, <2>2, <2>3 DEF Store
  <1>3. IInv /\ [Next]_vars => [Contract!Next]_entries
    BY <1>2 DEF vars
  <1> QED
    BY <1>1, <1>3, Invariance, PTL DEF Spec, KeepsContract, Contract!Spec
=============================================================================
