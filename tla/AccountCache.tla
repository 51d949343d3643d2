---------------------------- MODULE AccountCache ----------------------------
(***************************************************************************)
(* What the service relies on the account-metadata cache for: a partial    *)
(* map with at most CacheSize entries.  Storing into a full cache forgets  *)
(* some other entry; which one is not promised.                            *)
(***************************************************************************)
EXTENDS Integers, FiniteSets

CONSTANTS
    CacheSize   \* ACCOUNT_METADATA_CACHE_SIZE; zero disables the cache

ASSUME CacheSizeAssumption == CacheSize \in Nat

\* The entries of a cache whose absent entries hold the value none.
Cached(c, none) == {a \in DOMAIN c : c[a] # none}

\* The caches that storing m for a in c may leave behind.
Stored(c, a, m, none) ==
    IF CacheSize = 0 THEN {c}
    ELSE IF c[a] # none \/ Cardinality(Cached(c, none)) < CacheSize
         THEN {[c EXCEPT ![a] = m]}
    ELSE {[c EXCEPT ![victim] = none, ![a] = m] : victim \in Cached(c, none)}
=============================================================================
