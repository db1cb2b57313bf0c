------------------------------ MODULE HeapLoop ------------------------------
(***************************************************************************)
(* The heap of container/heap.c with the loops of ndl_heap_bubble and      *)
(* ndl_heap_sink run one iteration per step: a comparison, then a swap     *)
(* through the client's callback or the end of the loop.  Nothing may use  *)
(* the heap in the middle of an operation; the module is there to show     *)
(* that the closed forms of HeapOps are what the loops compute, and to     *)
(* state the invariant that makes the loops right.                         *)
(***************************************************************************)
EXTENDS HeapOps

CONSTANTS Ids, Times, None,
          Careless  \* the client also deletes through positions out of date
ASSUME LoopAssumption == Times \subseteq Nat /\ Careless \in BOOLEAN

VARIABLES heap,  \* [slot, size, head], see HeapOps
          out,   \* the element that the last operation took from the top
          pc,    \* "idle", or the loop that is running
          node,  \* the slot of the element that is finding its place
          pre    \* heap and out when the operation was called (history)

vars == <<heap, out, pc, node, pre>>

Live     == 0 .. heap.size - 1
Held(id) == {i \in Live : heap.slot[i].pid = id}

(* The slots a client may delete: the live ones, and those it once had an  *)
(* element in, as long as there is something to delete.                    *)
Deletable == Live \cup {i \in Slot : Careless /\ heap.size > 0 /\ heap.slot[i].pid # None}

Init == /\ heap = [slot |-> [i \in Slot |-> [when |-> 0, pid |-> None]],
                   size |-> 0,
                   head |-> [id \in Ids |-> 0]]
        /\ out = None
        /\ pc = "idle" /\ node = 0
        /\ pre = <<heap, out>>

(* Mutant: the callback tells nobody.                                     *)
SwapUntold(h, a, b) == [h EXCEPT !.slot = [@ EXCEPT ![a] = h.slot[b], ![b] = h.slot[a]]]

(* ndl_runtime_clockevent_swap on the slots a and b: the contents change   *)
(* places, then the two owners are told, the one now at a first.           *)
Swap(h, a, b) ==
    LET slot == [h.slot EXCEPT ![a] = h.slot[b], ![b] = h.slot[a]]
        Tell(head, i) == [id \in DOMAIN head |-> IF id = slot[i].pid THEN i ELSE head[id]]
    IN  [h EXCEPT !.slot = slot, !.head = Tell(Tell(@, a), b)]

Begin(loop, h, i, o) ==
    /\ pc = "idle" /\ pc' = loop
    /\ heap' = h /\ node' = i /\ out' = o
    /\ pre' = <<heap, out>>

(* The push of put; the client's pointer is the slot pushed to for now.    *)
PushFor(h, id, t) ==
    [Pushed(h, [when |-> t, pid |-> id]) EXCEPT !.head[id] = h.size]

Put(id, t) ==
    /\ heap.size < Cap /\ Held(id) = {}
    /\ Begin("put", PushFor(heap, id, t), heap.size, None)

Pop == heap.size > 0 /\ Begin("bubble", Popped(heap, 0), 0, heap.slot[0])

Del(i) == Begin("bubble", Popped(heap, i), i, None)

Readj(i, t) == Begin("bubble", [heap EXCEPT !.slot[i].when = t], i, None)

Return == pc' = "idle" /\ node' = 0 /\ pre' = <<heap, out>> /\ UNCHANGED heap

(* Mutant: the element below the top is never compared with it.           *)
HasParentBelow(i) == i > 2 /\ heap.size > 0

(* ndl_heap_parent finds one.                                              *)
HasParent(i) == i > 0 /\ heap.size > 0

(* One iteration of ndl_heap_bubble.  Where it stops, put returns; delete  *)
(* and readj sink.                                                         *)
BubbleStep ==
    /\ pc \in {"put", "bubble"}
    /\ IF HasParent(node) /\ heap.slot[node].when < heap.slot[Parent(node)].when
       THEN /\ heap' = Swap(heap, node, Parent(node))
            /\ node' = Parent(node)
            /\ UNCHANGED <<pc, pre>>
       ELSE \/ pc = "put" /\ Return
            \/ pc = "bubble" /\ pc' = "sink" /\ UNCHANGED <<heap, node, pre>>
    /\ UNCHANGED out

(* One iteration of ndl_heap_sink.                                         *)
SinkStep ==
    /\ pc = "sink"
    /\ LET best == Best(heap, node) IN
       IF Left(node) < heap.size /\ heap.slot[node].when > heap.slot[best].when
       THEN /\ heap' = Swap(heap, node, best)
            /\ node' = best
            /\ UNCHANGED <<pc, pre>>
       ELSE Return
    /\ UNCHANGED out

Next == \/ \E id \in Ids, t \in Times : Put(id, t)
        \/ Pop
        \/ \E i \in Deletable : Del(i)
        \/ \E i \in Live, t \in Times : Readj(i, t)
        \/ BubbleStep \/ SinkStep

Spec == Init /\ [][Next]_vars

-----------------------------------------------------------------------------
Heaps == [slot : [Slot -> [when : Nat, pid : Ids \cup {None}]],
          size : 0 .. Cap, head : [Ids -> Slot]]

TypeOK ==
    /\ heap \in Heaps
    /\ pc \in {"idle", "put", "bubble", "sink"}
    /\ node \in Slot

(* The loops' invariant: the order is broken at most at the element that   *)
(* is moving, above it while it bubbles and below it while it sinks, and   *)
(* what is above it is in order with what is below it.                     *)
OrderedButNode ==
    \A i \in 1 .. heap.size - 1 :
        LET up == Parent(i)
            W(j) == heap.slot[j].when
        IN  /\ \/ W(up) <= W(i)
               \/ up = node /\ pc \in {"bubble", "sink"}
               \/ i = node /\ pc \in {"put", "bubble"}
            /\ pc # "idle" /\ up = node /\ node > 0 => W(Parent(node)) <= W(i)

(* What a client sees: operations, which change heap and out together when *)
(* the loops have ended.                                                   *)
Whole == INSTANCE Heap WITH heap <- pre[1], out <- pre[2]

(* One run of the loops is one atomic operation of Heap.                   *)
ImplementsHeap == Whole!Init /\ [][pre' = pre \/ Whole!Next]_pre

(* What the swap callback can and cannot do for a client that remembers    *)
(* positions.  An operation that does not shrink the heap keeps every      *)
(* right position right; one that does, every one but that of the event    *)
(* that was last in the vector, which memmove carries away silently.       *)
OnlyTheLastIsLost == [][pre' = pre \/ Whole!KeepsPositions]_pre

(* The heap is the priority queue that heap.h promises: no operation loses,*)
(* duplicates or retimes another element, and pop takes an earliest one.   *)
IsPriorityQueue == Whole!Queue!Init /\ [][pre' = pre \/ Whole!Queue!Next]_pre
=============================================================================
