--------------------------- MODULE SortedSetSpec ---------------------------
(***************************************************************************)
(* What RedisSortedSet promises of its list: additions and removals act on *)
(* a sequence of entries, with no levels, spans or slots.                  *)
(***************************************************************************)
EXTENDS SortedSet

CONSTANTS Members, Scores

VARIABLE zs   \* [members, order]

Init == zs = EmptyZset

Next == \/ \E m \in Members, sc \in Scores : zs' = ZsetAdd(zs, m, sc)
        \/ \E m \in Members : zs' = ZsetRemove(zs, m)

Spec == Init /\ [][Next]_zs
=============================================================================
