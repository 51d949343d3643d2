--------------------------- MODULE CacheContract ---------------------------
(***************************************************************************)
(* The promise of the account-metadata cache as a specification of its     *)
(* own: a map that starts empty and changes only as Stored allows, the     *)
(* operator of AccountCache by which LedgerService uses the cache.         *)
(***************************************************************************)
CONSTANTS IDs, Data, None, Stored(_, _, _, _)

VARIABLE map

Init == map = [a \in IDs |-> None]

Store(a, m) == map' \in Stored(map, a, m, None)

Next == \E a \in IDs, m \in Data : Store(a, m)

Spec == Init /\ [][Next]_map
=============================================================================
