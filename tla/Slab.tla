-------------------------------- MODULE Slab --------------------------------
(***************************************************************************)
(* The pool of equal items of container/slab.c, with the slab heap as its  *)
(* intended client.  A slab s is the record                                *)
(*   blocks  block_count,                                                  *)
(*   next    next_free of every item of every block,                       *)
(*   head    free_head,                                                    *)
(*   count   elem_count.                                                   *)
(* The number of items is also the end of the list of free ones.  Clients  *)
(* free what they were given and nothing else.  Memory is not exhausted.   *)
(***************************************************************************)
EXTENDS Integers, FiniteSetsExt

CONSTANTS BlockSize,  \* block_size
          MaxBlocks   \* bound: a slab has no more blocks

ASSUME SlabAssumption == BlockSize \in Nat \ {0} /\ MaxBlocks \in Nat

VARIABLES slab,
          given  \* the items clients were given and have not freed (history)

NullIndex == -1

SlabInit == /\ slab = [blocks |-> 0, next |-> [i \in {} |-> 0], head |-> 0, count |-> 0]
            /\ given = {}

Size(s) == s.blocks * BlockSize

(* Mutant: the items of a new block are linked within the block.          *)
BlockLinkedAlone(s) ==
    [s EXCEPT !.blocks = @ + 1,
              !.next = [i \in 0 .. Size(s) + BlockSize - 1 |->
                          IF i < Size(s) THEN s.next[i] ELSE (i % BlockSize) + 1]]

(* ndl_slab_grow: each item of the new block is followed by the next, the  *)
(* last by the new end.                                                    *)
BlockAdded(s) ==
    [s EXCEPT !.blocks = @ + 1,
              !.next = [i \in 0 .. Size(s) + BlockSize - 1 |->
                          IF i < Size(s) THEN s.next[i] ELSE i + 1]]

Roomy(s) == IF s.head = Size(s) THEN BlockAdded(s) ELSE s

Alloc ==
    /\ slab.head = Size(slab) => slab.blocks < MaxBlocks
    /\ LET s == Roomy(slab) IN
        /\ slab' = [s EXCEPT !.head = s.next[s.head],
                             !.next[s.head] = NullIndex,
                             !.count = @ + 1]
        /\ given' = given \cup {s.head}

Free(i) ==
    /\ slab' = [slab EXCEPT !.next[i] = slab.head, !.head = i, !.count = @ - 1]
    /\ given' = given \ {i}

SlabNext == Alloc \/ \E i \in given : Free(i)

SlabSpec == SlabInit /\ [][SlabNext]_<<slab, given>>

(* ndl_slab_scan: from the index on, the first item that is marked as not  *)
(* free.                                                                   *)
SlabScan(s, start) ==
    LET marked == {i \in start .. Size(s) - 1 : s.next[i] = NullIndex}
    IN  IF marked = {} THEN NullIndex ELSE Min(marked)

(* ndl_slab_head and, over and over, ndl_slab_next.                        *)
Visited(s) ==
    LET item[n \in 1 .. Size(s)] ==
            IF n = 1 THEN SlabScan(s, 0)
            ELSE IF item[n - 1] = NullIndex THEN NullIndex
            ELSE SlabScan(s, item[n - 1] + 1)
    IN  {item[n] : n \in 1 .. Size(s)} \ {NullIndex}

-----------------------------------------------------------------------------
(* The list of free items goes once through every item that no client has, *)
(* over all the blocks, and ends, and a walk over the slab comes to the    *)
(* items that clients have: no item is given to two clients, none is lost, *)
(* and the count is right.                                                 *)
ItemsExact ==
    LET link[n \in 0 .. Size(slab)] ==
            IF n = 0 THEN slab.head
            ELSE IF link[n - 1] \in DOMAIN slab.next THEN slab.next[link[n - 1]]
            ELSE link[n - 1]
    IN  /\ {link[n] : n \in 0 .. Size(slab)} = (0 .. Size(slab)) \ given
        /\ Visited(slab) = given
        /\ slab.count = Cardinality(given)
=============================================================================
