---------------------------- MODULE MCContainers ----------------------------
(* Instance for TLC of the containers other than the heap, and of the      *)
(* table of opcodes: one of them is used, the others stay as they were     *)
(* created.                                                                *)
EXTENDS TableUse, Vector, Slab, OpcodeTable, SavedFile

tables == <<table, use>>
slabs  == <<slab, given>>
all    == <<tables, vec, slabs, opcodes, disk>>

(* Pools, with bytes of one bit: none, a bare node, two nodes, nodes *)
(* of as many pairs as a file can say and of more, addresses that are too  *)
(* wide for a file and become the same.                                    *)
Pair(k, v) == [key |-> k, type |-> k % 2, val |-> v]
Pairs(n)   == [i \in 1 .. n |-> Pair(i, 256 - i)]
NodeOf(id, n) == [id |-> id, pairs |-> Pairs(n)]

SomePools == {<<>>, <<NodeOf(1, 0)>>, <<NodeOf(9, 1), NodeOf(1, 2)>>, <<NodeOf(2, 3)>>,
              <<NodeOf(1, 5), NodeOf(2, 1)>>, <<NodeOf(17, 1), NodeOf(1, 0)>>}

ContainersInit == UseInit /\ VecInit /\ SlabInit /\ OpcodesInit /\ SavedInit

ContainersNext ==
    \/ /\ VecInit /\ SlabInit /\ OpcodesInit /\ SavedInit
       /\ UseNext /\ UNCHANGED <<vec, slabs, opcodes, disk>>
    \/ /\ UseInit /\ SlabInit /\ OpcodesInit /\ SavedInit
       /\ VecNext /\ UNCHANGED <<tables, slabs, opcodes, disk>>
    \/ /\ UseInit /\ VecInit /\ OpcodesInit /\ SavedInit
       /\ SlabNext /\ UNCHANGED <<tables, vec, opcodes, disk>>
    \/ /\ UseInit /\ VecInit /\ SlabInit /\ SavedInit
       /\ OpcodesNext /\ UNCHANGED <<tables, vec, slabs, disk>>
    \/ /\ UseInit /\ VecInit /\ SlabInit /\ OpcodesInit
       /\ SavedNext /\ UNCHANGED <<tables, vec, slabs, opcodes>>

ContainersSpec == ContainersInit /\ [][ContainersNext]_all
=============================================================================
