------------------------------ MODULE MCGraph ------------------------------
(* Instances of Graph, GraphCopy and SavedGraph for TLC.  Keys are interchangeable.   *)
EXTENDS SavedGraph, GraphCopy, TLC

Client(keys, sweeps, overwrites) ==
    [keys |-> keys, sweeps |-> sweeps, overwrites |-> overwrites]

AnyKey == Permutations(Keys)

(* One key, two collections and whatever salloc is called on; or two keys, *)
(* one collection and a salloc that overwrites no reference.               *)
Narrow    == {Client({k}, 2, TRUE) : k \in Keys}
Wide      == {Client(Keys, 1, FALSE)}
AnyClient == Narrow \cup Wide
Careful   == {Client(Keys, 2, FALSE)}
=============================================================================
