-------------------------------- MODULE Heap --------------------------------
(***************************************************************************)
(* The heap of container/heap.c under a client that puts, pops, deletes    *)
(* and readjusts elements.  `head` is the client's table of positions,     *)
(* written when put returns and by the swap callback, as runtime.c does    *)
(* for its processes.  A careless client deletes through positions that    *)
(* are out of date, which the runtime turns out to do.                     *)
(***************************************************************************)
EXTENDS HeapOps

CONSTANTS Ids, Times, None,
          Careless  \* the client also deletes through positions out of date

VARIABLES heap,  \* [slot, size, head], see HeapOps
          out    \* the element that the last operation took from the top

vars == <<heap, out>>

Blank == [when |-> 0, pid |-> None]

Live     == 0 .. heap.size - 1
Held(id) == {i \in Live : heap.slot[i].pid = id}

(* The slots a client may delete: the live ones, and those it once had an  *)
(* element in, as long as there is something to delete.                    *)
Deletable == Live \cup {i \in Slot : Careless /\ heap.size > 0 /\ heap.slot[i].pid # None}

Init == /\ heap = [slot |-> [i \in Slot |-> Blank],
                   size |-> 0,
                   head |-> [id \in Ids |-> 0]]
        /\ out = None

(* Put one more event; the client keeps the pointer put returns.           *)
Put(id, t) ==
    LET e == [when |-> t, pid |-> id] IN
    /\ heap.size < Cap
    /\ Held(id) = {}
    /\ heap' = [HeapPut(heap, e) EXCEPT !.head[id] = PutAt(heap, e)]
    /\ out' = None

(* Peek at the top and pop it.                                             *)
Pop ==
    /\ heap.size > 0
    /\ out' = heap.slot[0]
    /\ heap' = HeapDelete(heap, 0)

(* Delete the element at a slot.  At a slot above the live ones the last   *)
(* element is copied there, and the loops start outside the heap.          *)
Del(i) ==
    /\ heap' = HeapDelete(heap, i)
    /\ out' = None

(* Write a new time into the element at a live slot and readjust.          *)
Readj(i, t) ==
    /\ heap' = Readjust([heap EXCEPT !.slot[i].when = t], i)
    /\ out' = None

Next == \/ \E id \in Ids, t \in Times : Put(id, t)
        \/ Pop
        \/ \E i \in Deletable : Del(i)
        \/ \E i \in Live, t \in Times : Readj(i, t)

Spec == Init /\ [][Next]_vars

-----------------------------------------------------------------------------
(* The client's position of an event is right.                             *)
Tracked(id) == Held(id) = {heap.head[id]}

(* What the swap callback can and cannot do for a client that remembers    *)
(* positions.  An operation that does not shrink the heap keeps every      *)
(* right position right; one that does, every one but that of the event    *)
(* that was last in the vector, which memmove carries away silently.       *)
KeepsPositions ==
    \A id \in Ids :
        /\ Tracked(id) /\ Held(id)' # {}
        /\ heap'.size < heap.size => heap.slot[heap.size - 1].pid # id
        => Tracked(id)'

(* The contents as a priority queue.                                       *)
Queue == INSTANCE PriorityQueue WITH contents <- {heap.slot[i] : i \in Live}
=============================================================================
