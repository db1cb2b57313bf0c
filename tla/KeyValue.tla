------------------------------ MODULE KeyValue ------------------------------
(***************************************************************************)
(* What container/hashtable.h and container/rehashtable.h promise: a map.  *)
(***************************************************************************)
CONSTANTS Keys, Vals

VARIABLE map  \* key -> value, for the keys that are present

Init == map = [k \in {} |-> k]

Put(k, v) == map' = [j \in DOMAIN map \cup {k} |-> IF j = k THEN v ELSE map[j]]
Del(k)    == map' = [j \in DOMAIN map \ {k} |-> map[j]]

Next == \E k \in Keys : Del(k) \/ \E v \in Vals : Put(k, v)

Spec == Init /\ [][Next]_map
=============================================================================
