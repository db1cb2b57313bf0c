------------------------------ MODULE HeapOps ------------------------------
(***************************************************************************)
(* The array heap of container/heap.c, as operators over a record h with   *)
(* the fields                                                              *)
(*   slot  the vector's storage, Cap slots, the first `size` of them live, *)
(*   size  the vector's element count,                                     *)
(*   head  the position of each event as its owner remembers it (the field *)
(*         `head` of ndl_proc), which only the swap callback keeps current.*)
(* The elements are clock events [when, pid]; the earliest is on top.      *)
(*                                                                         *)
(* The loops of bubble and sink are given in closed form: the set of slots *)
(* the moving element travels through, and the storage after the trip.     *)
(* HeapLoop.tla runs the loops one iteration at a time and is shown to     *)
(* implement these operators.                                              *)
(*                                                                         *)
(* Slots at and above `size` keep their old contents, as in C: a position  *)
(* that is out of date may still be read through.  Cap is the capacity of  *)
(* the vector, which is taken for large enough: how it grows is modelled   *)
(* in Vector.tla, and what that does to the positions is left out.         *)
(***************************************************************************)
EXTENDS Integers, FiniteSets

CONSTANT Cap
ASSUME CapAssumption == Cap \in Nat \ {0}

Slot == 0 .. Cap - 1

Parent(i) == (i - 1) \div 2
Left(i)   == 2 * i + 1
Right(i)  == 2 * i + 2

(* Each slot with its ancestors, up to the root: what is in every set that *)
(* holds the slot and, with a slot, its parent.                            *)
Upward(S) == \A k \in S : k > 0 => Parent(k) \in S
Lines     == [i \in Slot |-> {j \in Slot :
                \A S \in SUBSET Slot : i \in S /\ Upward(S) => j \in S}]
Line(i)   == Lines[i]

Lowest(S)  == CHOOSE j \in S : \A k \in S : j <= k
Highest(S) == CHOOSE j \in S : \A k \in S : k <= j

(* The slots the element at i passes through on its way up: those below    *)
(* which every ancestor is later than it (no parent in an empty vector).   *)
Climb(h, i) ==
    {j \in Line(i) : \A k \in Line(i) :
        j <= k /\ k < i => h.size > 0 /\ h.slot[i].when < h.slot[k].when}

Top(h, i) == Lowest(Climb(h, i))

(* The end of the trip: bubble goes up, sink goes down.                    *)
Last(S, loop) == IF loop = "bubble" THEN Lowest(S) ELSE Highest(S)

(* The positions the swap callback records while an element travels.  It   *)
(* runs once per swap, so an event's last move wins.                       *)
Track(h, path, slot, loop) ==
    [p \in DOMAIN h.head |->
        LET at == {j \in path : slot[j].pid = p}
        IN  IF path # {Last(path, loop)} /\ at # {} THEN Last(at, loop) ELSE h.head[p]]

Bubble(h, i) ==
    LET path == Climb(h, i)
        slot == [j \in Slot |-> IF j \notin path THEN h.slot[j]
                                ELSE IF Parent(j) \in path THEN h.slot[Parent(j)]
                                ELSE h.slot[i]]
    IN  [h EXCEPT !.slot = slot, !.head = Track(h, path, slot, "bubble")]

(* Mutant: sink always follows the left child.                            *)
BestLeft(h, j) == Left(j)

(* The earlier child of j; the left one on a tie.                          *)
Best(h, j) ==
    IF Right(j) < h.size /\ h.slot[Left(j)].when > h.slot[Right(j)].when
    THEN Right(j) ELSE Left(j)

(* The slots the element at i passes through on its way down: each the     *)
(* best child of the one before and earlier than the sinking element.      *)
Fall(h, i) ==
    {i} \cup {j \in 0 .. h.size - 1 :
                /\ i \in Line(j)
                /\ \A k \in Line(j) :
                     k > i => k = Best(h, Parent(k)) /\ h.slot[i].when > h.slot[k].when}

Sink(h, i) ==
    LET path == Fall(h, i)
        slot == [j \in Slot |-> IF j \notin path THEN h.slot[j]
                                ELSE IF Best(h, j) \in path THEN h.slot[Best(h, j)]
                                ELSE h.slot[i]]
    IN  [h EXCEPT !.slot = slot, !.head = Track(h, path, slot, "sink")]

(* Mutant: the element only moves up.                                     *)
OnlyBubble(h, i) == Bubble(h, i)

(* ndl_heap_readj: the element at i changed.                               *)
Readjust(h, i) == Sink(Bubble(h, i), Top(h, i))

(* ndl_heap_put: the element is pushed at the end and bubbles up.          *)
Pushed(h, e)  == [h EXCEPT !.slot[h.size] = e, !.size = @ + 1]
HeapPut(h, e) == Bubble(Pushed(h, e), h.size)
PutAt(h, e)   == Top(Pushed(h, e), h.size)

(* Mutant: the last element is dropped, not moved.                        *)
Truncated(h, i) == [h EXCEPT !.size = @ - 1]

(* ndl_heap_delete: the last element is moved over slot i by memmove,      *)
(* which tells nobody, and then finds its place.                           *)
Popped(h, i)     == [h EXCEPT !.slot[i] = h.slot[h.size - 1], !.size = @ - 1]
HeapDelete(h, i) == Readjust(Popped(h, i), i)

(* No live slot is earlier than its parent.                                *)
Ordered(h) == \A i \in 1 .. h.size - 1 : h.slot[Parent(i)].when <= h.slot[i].when

=============================================================================
