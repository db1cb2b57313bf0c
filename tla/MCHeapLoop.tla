----------------------------- MODULE MCHeapLoop -----------------------------
(* Instance of HeapLoop for TLC.  The view tells two states apart unless   *)
(* one is the other with the owners renamed: times and positions of the    *)
(* live elements, and which element of the copy each of them was.  What is *)
(* above the live slots, and the positions of owners with nothing in the   *)
(* heap, are overwritten before they are read.                             *)
EXTENDS HeapLoop
LiveIn(h) == 0 .. h.size - 1
Shape(h)  == [i \in LiveIn(h) |-> <<h.slot[i].when, h.head[h.slot[i].pid]>>]
Origin(i) == {j \in LiveIn(pre[1]) : pre[1].slot[j].pid = heap.slot[i].pid}
Seen == <<Shape(heap), heap.slot[node].when, pc, node, Shape(pre[1]),
          [i \in LiveIn(heap) |-> Origin(i)], out = None>>
=============================================================================
