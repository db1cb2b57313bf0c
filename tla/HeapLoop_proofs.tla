-------------------------- MODULE HeapLoop_proofs --------------------------
(***************************************************************************)
(* The loops of heap.c, for every capacity, times and owners: they keep    *)
(* the heap ordered but for the element that is moving (LoopsKeepOrder),   *)
(* they serve a priority queue (LoopsServe), they compute the closed forms *)
(* of HeapOps (LoopsRefine) and they keep the positions of every owner but *)
(* the one memmove carries away (LoopsKeepPositions).  The order and the   *)
(* closed forms hold for a client that deletes through positions out of    *)
(* date as well, the other two for one that deletes what is there.         *)
(***************************************************************************)
EXTENDS HeapLoop, HeapOps_proofs, TLAPS

(* A swap keeps the shape of the heap, and changes places of two contents. *)
LEMMA SwapFacts ==
    \A h \in Heaps : \A a, b \in Slot :
        /\ Swap(h, a, b) \in Heaps
        /\ Swap(h, a, b).size = h.size
        /\ \A i \in Slot : Swap(h, a, b).slot[i] = IF i = b THEN h.slot[a]
                                                  ELSE IF i = a THEN h.slot[b]
                                                  ELSE h.slot[i]
<1> TAKE h \in Heaps
<1> TAKE a, b \in Slot
<1> QED BY DEF Swap, Heaps

LEMMA PoppedFacts ==
    ASSUME NEW h \in Heaps, NEW i \in Slot, h.size > 0
    PROVE  /\ Popped(h, i) \in Heaps
           /\ Popped(h, i).size = h.size - 1
           /\ \A j \in Slot : Popped(h, i).slot[j] =
                               IF j = i THEN h.slot[h.size - 1] ELSE h.slot[j]
<1>1. h.size - 1 \in Slot /\ h.size - 1 \in 0 .. Cap
  BY CapAssumption DEF Heaps, Slot
<1> QED BY <1>1 DEF Popped, Heaps

LEMMA PushedFacts ==
    \A h \in Heaps : \A id \in Ids : \A t \in Nat : h.size < Cap =>
        /\ h.size \in Slot
        /\ PushFor(h, id, t) \in Heaps
        /\ PushFor(h, id, t).size = h.size + 1
        /\ \A j \in Slot : j # h.size => PushFor(h, id, t).slot[j] = h.slot[j]
<1> SUFFICES ASSUME NEW h \in Heaps, NEW id \in Ids, NEW t \in Nat, h.size < Cap
             PROVE  /\ h.size \in Slot
                    /\ PushFor(h, id, t) \in Heaps
                    /\ PushFor(h, id, t).size = h.size + 1
                    /\ \A j \in Slot : j # h.size => PushFor(h, id, t).slot[j] = h.slot[j]
  OBVIOUS
<1>1. h.size \in Slot /\ h.size + 1 \in 0 .. Cap
  BY CapAssumption DEF Heaps, Slot
<1>2. [when |-> t, pid |-> id] \in [when : Nat, pid : Ids \cup {None}]
  OBVIOUS
<1> QED BY <1>1, <1>2 DEF PushFor, Pushed, Heaps

LEMMA RetimedFacts ==
    ASSUME NEW h \in Heaps, NEW i \in Slot, NEW t \in Nat
    PROVE  /\ [h EXCEPT !.slot[i].when = t] \in Heaps
           /\ [h EXCEPT !.slot[i].when = t].size = h.size
           /\ \A j \in Slot \ {i} : [h EXCEPT !.slot[i].when = t].slot[j] = h.slot[j]
BY DEF Heaps

LEMMA BestFacts ==
    ASSUME NEW h \in Heaps, NEW i \in Nat, Left(i) < h.size
    PROVE  /\ Best(h, i) \in Slot /\ Best(h, i) < h.size
           /\ Best(h, i) \in {Left(i), Right(i)}
           /\ h.slot[Best(h, i)].when <= h.slot[Left(i)].when
           /\ Right(i) < h.size => h.slot[Best(h, i)].when <= h.slot[Right(i)].when
<1>1. h.size \in Nat /\ h.size <= Cap
  BY CapAssumption DEF Heaps
<1>2. Left(i) \in Slot /\ Right(i) \in Nat /\ (Right(i) < h.size => Right(i) \in Slot)
  BY <1>1, CapAssumption DEF Left, Right, Slot
<1>3. \A j \in Slot : h.slot[j].when \in Nat
  BY DEF Heaps
<1> QED BY <1>1, <1>2, <1>3 DEF Best

(* Live slots are slots.                                                   *)
LEMMA LiveFacts ==
    ASSUME TypeOK
    PROVE  /\ heap.size \in 0 .. Cap
           /\ \A i \in 0 .. heap.size - 1 : i \in Slot
           /\ \A i \in Slot : heap.slot[i].when \in Nat
           /\ \A i \in Deletable : i \in Slot /\ heap.size > 0
<1>1. heap.size \in 0 .. Cap /\ \A i \in Slot : heap.slot[i].when \in Nat
  BY DEF TypeOK, Heaps
<1>2. \A i \in 0 .. heap.size - 1 : i \in Slot /\ heap.size > 0
  BY <1>1, CapAssumption DEF Slot
<1> QED BY <1>1, <1>2 DEF Deletable, Live

(***************************************************************************)
(* The types.                                                              *)
(***************************************************************************)
LEMMA TypeCorrect == Spec => []TypeOK
<1>1. Init => TypeOK
  <2> SUFFICES ASSUME Init PROVE TypeOK
    OBVIOUS
  <2>1. heap.slot = [i \in Slot |-> [when |-> 0, pid |-> None]]
        /\ heap.size = 0 /\ heap.head = [id \in Ids |-> 0]
    BY DEF Init
  <2>2. 0 \in 0 .. Cap
    BY CapAssumption
  <2> QED BY <2>1, <2>2, SlotFacts DEF Init, TypeOK, Heaps
<1>2. TypeOK /\ [Next]_vars => TypeOK'
  <2> SUFFICES ASSUME TypeOK, [Next]_vars PROVE TypeOK'
    OBVIOUS
  <2>1. ASSUME NEW id \in Ids, NEW t \in Times, Put(id, t) PROVE TypeOK'
    <3>1. t \in Nat /\ heap \in Heaps /\ heap.size < Cap
      BY <2>1, LoopAssumption DEF Put, TypeOK
    <3>2. heap' = PushFor(heap, id, t) /\ node' = heap.size /\ pc' = "put"
      BY <2>1 DEF Put, Begin
    <3>3. PushFor(heap, id, t) \in Heaps
      BY <3>1, PushedFacts
    <3>4. heap.size \in Slot
      BY <3>1, PushedFacts
    <3>5. heap' \in Heaps /\ node' \in Slot
      BY <3>2, <3>3, <3>4
    <3> QED BY <3>2, <3>5 DEF TypeOK
  <2>2. CASE Pop
    <3>1. heap.size > 0 /\ 0 \in Slot
      BY <2>2, SlotFacts DEF Pop
    <3> QED BY <2>2, <3>1, PoppedFacts DEF Pop, Begin, TypeOK
  <2>3. ASSUME NEW i \in Deletable, Del(i) PROVE TypeOK'
    BY <2>3, LiveFacts, PoppedFacts DEF Del, Begin, TypeOK
  <2>4. ASSUME NEW i \in Live, NEW t \in Times, Readj(i, t) PROVE TypeOK'
    <3>1. i \in Slot /\ t \in Nat
      BY LiveFacts, LoopAssumption DEF Live
    <3> QED BY <2>4, <3>1, RetimedFacts DEF Readj, Begin, TypeOK
  <2>5. CASE BubbleStep
    <3>1. heap \in Heaps /\ node \in Slot /\ (node > 0 => Parent(node) \in Slot)
      BY SlotFacts DEF TypeOK
    <3>2. node > 0 => Swap(heap, node, Parent(node)) \in Heaps
      BY <3>1, SwapFacts
    <3>3. /\ heap' = heap \/ (node > 0 /\ heap' = Swap(heap, node, Parent(node)))
          /\ node' \in {node, 0} \/ (node > 0 /\ node' = Parent(node))
          /\ pc' \in {"idle", "put", "bubble", "sink"}
      BY <2>5 DEF BubbleStep, HasParent, Return
    <3> QED BY <3>1, <3>2, <3>3, SlotFacts DEF TypeOK
  <2>6. CASE SinkStep
    <3> DEFINE best == Best(heap, node)
    <3>1. heap \in Heaps /\ node \in Slot /\ (Left(node) < heap.size => best \in Slot)
      BY BestFacts, SlotFacts DEF TypeOK
    <3>2. /\ heap' = heap \/ (Left(node) < heap.size /\ heap' = Swap(heap, node, best))
          /\ node' \in {node, 0} \/ (Left(node) < heap.size /\ node' = best)
          /\ pc' \in {"idle", "sink"}
      BY <2>6 DEF SinkStep, Return
    <3> HIDE DEF best
    <3>3. Left(node) < heap.size => Swap(heap, node, best) \in Heaps
      BY <3>1, SwapFacts
    <3> QED BY <3>1, <3>2, <3>3, SlotFacts DEF TypeOK
  <2>7. CASE UNCHANGED vars
    BY <2>7 DEF vars, TypeOK
  <2> QED BY <2>1, <2>2, <2>3, <2>4, <2>5, <2>6, <2>7 DEF Next
<1> QED BY <1>1, <1>2, PTL DEF Spec

(***************************************************************************)
(* The order.  OrderedButNode speaks of the live slots only.  It is        *)
(* inductive with the types: each step is read off the contents the facts  *)
(* above give for the storage it leaves.                                   *)
(***************************************************************************)
LEMMA OrderInductive == TypeOK /\ TypeOK' /\ OrderedButNode /\ [Next]_vars => OrderedButNode'
<1> SUFFICES ASSUME TypeOK, TypeOK', OrderedButNode, [Next]_vars
             PROVE  OrderedButNode'
  OBVIOUS
<1> DEFINE W(j) == heap.slot[j].when
<1>a. /\ heap.size \in Nat /\ node \in Slot /\ node \in Nat
      /\ \A j \in Slot : W(j) \in Nat
      /\ \A j \in 1 .. heap.size - 1 :
            j \in Slot /\ Parent(j) \in Slot /\ Parent(j) \in Nat /\ Parent(j) < j
  BY LiveFacts, SlotFacts, ParentFacts DEF TypeOK
(* An operation starts from an ordered heap and may disturb one slot.      *)
<1>1. ASSUME NEW id \in Ids, NEW t \in Times, Put(id, t) PROVE OrderedButNode'
  <2>1. t \in Nat /\ heap \in Heaps /\ heap.size < Cap
    BY <1>1, LoopAssumption DEF Put, TypeOK
  <2>2. heap' = PushFor(heap, id, t) /\ node' = heap.size /\ pc' = "put" /\ pc = "idle"
    BY <1>1 DEF Put, Begin
  <2> DEFINE h == PushFor(heap, id, t)
  <2>a. h.size = heap.size + 1 /\ \A j \in Slot : j # heap.size => h.slot[j] = heap.slot[j]
    BY <2>1, PushedFacts
  <2>3. heap'.size = heap.size + 1
        /\ \A j \in Slot : j # heap.size => heap'.slot[j] = heap.slot[j]
    <3> HIDE DEF h
    <3>1. heap' = h
      BY <2>2 DEF h
    <3> QED BY <3>1, <2>a
  <2>4. \A i \in 1 .. heap.size : Parent(i) \in Nat /\ Parent(i) < i /\ i \in Slot /\ Parent(i) \in Slot
    BY <1>a, <2>1, SlotFacts, ParentFacts, CapAssumption DEF Slot
  <2> QED BY <1>a, <2>2, <2>3, <2>4 DEF OrderedButNode
<1>2. ASSUME NEW i \in Slot, heap.size > 0, pc = "idle", pc' = "bubble",
             node' = i, heap' = Popped(heap, i)
      PROVE  OrderedButNode'
  <2>1. heap'.size = heap.size - 1
        /\ \A j \in Slot : j # i => heap'.slot[j] = heap.slot[j]
    BY <1>2, PoppedFacts DEF TypeOK
  <2> QED BY <1>2, <1>a, <2>1, SlotFacts, ParentFacts DEF OrderedButNode
<1>3. ASSUME NEW i \in Live, NEW t \in Times, Readj(i, t) PROVE OrderedButNode'
  <2>1. i \in Slot /\ t \in Nat
    BY LiveFacts, LoopAssumption DEF Live
  <2>2. /\ heap'.size = heap.size /\ \A j \in Slot : j # i => heap'.slot[j] = heap.slot[j]
        /\ pc = "idle" /\ pc' = "bubble" /\ node' = i
    BY <1>3, <2>1, RetimedFacts DEF Readj, Begin, TypeOK
  <2> QED BY <1>a, <2>1, <2>2, SlotFacts, ParentFacts DEF OrderedButNode
<1>4. CASE BubbleStep
  <2>1. CASE node > 0 /\ heap.size > 0 /\ W(node) < W(Parent(node))
    <3> DEFINE up == Parent(node)
    <3>1. up \in Slot /\ up \in Nat /\ up < node
      BY <2>1, <1>a, SlotFacts, ParentFacts
    <3>0. /\ heap' = Swap(heap, node, up) /\ heap \in Heaps
          /\ pc' = pc /\ pc \in {"put", "bubble"} /\ node' = up
      BY <1>4, <2>1 DEF BubbleStep, HasParent, TypeOK
    <3>2. /\ pc' = pc /\ pc \in {"put", "bubble"} /\ node' = up
          /\ heap'.size = heap.size
          /\ \A j \in Slot : heap'.slot[j] = IF j = up THEN heap.slot[node]
                                             ELSE IF j = node THEN heap.slot[up]
                                             ELSE heap.slot[j]
      <4>1. heap \in Heaps /\ node \in Slot /\ up \in Slot
        BY <3>0, <3>1, <1>a
      <4> DEFINE h == Swap(heap, node, up)
      <4>2. /\ h.size = heap.size
            /\ \A j \in Slot : h.slot[j] = IF j = up THEN heap.slot[node]
                                           ELSE IF j = node THEN heap.slot[up]
                                           ELSE heap.slot[j]
        <5> HIDE DEF up
        <5> QED BY <4>1, SwapFacts
      <4>3. heap' = h
        BY <3>0
      <4> HIDE DEF h
      <4> QED BY <3>0, <4>2, <4>3
    <3> QED BY <1>a, <2>1, <3>1, <3>2, SlotFacts, ParentFacts DEF OrderedButNode
  <2>2. CASE ~ (node > 0 /\ heap.size > 0 /\ W(node) < W(Parent(node)))
    <3>1. /\ heap' = heap
          /\ \/ pc = "put" /\ pc' = "idle"
             \/ pc = "bubble" /\ pc' = "sink" /\ node' = node
      BY <1>4, <2>2 DEF BubbleStep, HasParent, Return
    <3> QED BY <1>a, <2>2, <3>1, SlotFacts, ParentFacts DEF OrderedButNode
  <2> QED BY <2>1, <2>2
<1>5. CASE SinkStep
  <2> DEFINE best == Best(heap, node)
  <2>1. CASE Left(node) < heap.size
    <3>1. /\ best \in Slot /\ best < heap.size /\ best \in {Left(node), Right(node)}
          /\ W(best) <= W(Left(node))
          /\ Right(node) < heap.size => W(best) <= W(Right(node))
      BY <2>1, <1>a, BestFacts DEF TypeOK
    <3>2. best > node /\ Parent(best) = node /\ best \in Nat
      BY <3>1, <1>a, ParentFacts DEF Left, Right
    <3>3. CASE W(node) > W(best)
      <4>0. /\ heap' = Swap(heap, node, best) /\ heap \in Heaps
            /\ pc' = "sink" /\ pc = "sink" /\ node' = best
        BY <1>5, <2>1, <3>3 DEF SinkStep, TypeOK
      <4>1. /\ pc' = "sink" /\ pc = "sink" /\ node' = best
            /\ heap'.size = heap.size
            /\ \A j \in Slot : heap'.slot[j] = IF j = best THEN heap.slot[node]
                                               ELSE IF j = node THEN heap.slot[best]
                                               ELSE heap.slot[j]
        <5>1. heap \in Heaps /\ node \in Slot /\ best \in Slot
          BY <4>0, <3>1, <1>a
        <5> DEFINE h == Swap(heap, node, best)
        <5>2. /\ h.size = heap.size
              /\ \A j \in Slot : h.slot[j] = IF j = best THEN heap.slot[node]
                                             ELSE IF j = node THEN heap.slot[best]
                                             ELSE heap.slot[j]
          <6> HIDE DEF best
          <6> QED BY <5>1, SwapFacts
        <5>3. heap' = h
          BY <4>0
        <5> HIDE DEF h
        <5> QED BY <4>0, <5>2, <5>3
      <4> QED BY <1>a, <3>1, <3>2, <3>3, <4>1, SlotFacts, ParentFacts DEF OrderedButNode
    <3>4. CASE ~ (W(node) > W(best))
      <4>1. heap' = heap /\ pc = "sink" /\ pc' = "idle"
        BY <1>5, <2>1, <3>4 DEF SinkStep, Return
      <4> QED BY <1>a, <3>1, <3>2, <3>4, <4>1, SlotFacts, ParentFacts DEF OrderedButNode
    <3> QED BY <3>3, <3>4
  <2>2. CASE ~ (Left(node) < heap.size)
    <3>1. heap' = heap /\ pc = "sink" /\ pc' = "idle"
      BY <1>5, <2>2 DEF SinkStep, Return
    <3>2. \A i \in 1 .. heap.size - 1 : Parent(i) # node
      BY <1>a, <2>2, ParentFacts DEF Left, Right
    <3> QED BY <1>a, <3>1, <3>2 DEF OrderedButNode
  <2> QED BY <2>1, <2>2
<1>6. CASE UNCHANGED vars
  BY <1>6 DEF vars, OrderedButNode
<1>7. CASE Pop
  BY <1>7, <1>2, SlotFacts DEF Pop, Begin
<1>8. ASSUME NEW i \in Deletable, Del(i) PROVE OrderedButNode'
  BY <1>8, <1>2, LiveFacts DEF Del, Begin
<1> QED BY <1>1, <1>3, <1>4, <1>5, <1>6, <1>7, <1>8 DEF Next

(* Whatever the client does, the heap is in order but for the element that *)
(* a running loop is moving.                                               *)
THEOREM LoopsKeepOrder == Spec => []OrderedButNode
<1>1. Init => OrderedButNode
  BY DEF Init, OrderedButNode
<1>2. TypeOK /\ TypeOK' /\ OrderedButNode /\ [Next]_vars => OrderedButNode'
  BY OrderInductive
<1> QED BY <1>1, <1>2, TypeCorrect, PTL DEF Spec

(***************************************************************************)
(* The priority queue.  A running operation has done to the contents what  *)
(* it promises before its loops begin; the loops only permute them.        *)
(***************************************************************************)
Contents(h) == {h.slot[i] : i \in 0 .. h.size - 1}

(* No owner has two events in the heap.                                    *)
Owned(h) == \A i, j \in 0 .. h.size - 1 : h.slot[i].pid = h.slot[j].pid => i = j

(* The contents c become d, and o is what was taken: an operation of the   *)
(* queue.                                                                  *)
Served(c, d, o) ==
    \/ \E id \in Ids, t \in Times : /\ \A e \in c : e.pid # id
                                    /\ d = c \cup {[when |-> t, pid |-> id]} /\ o = None
    \/ \E e \in c : (\A f \in c : e.when <= f.when) /\ d = c \ {e} /\ o = e
    \/ \E e \in c : d = c \ {e} /\ o = None
    \/ \E e \in c, t \in Times : d = (c \ {e}) \cup {[e EXCEPT !.when = t]} /\ o = None

(* The moving element is in the heap, or where it is it has nowhere to go. *)
MovesWithin(h, n, p) ==
    p \in {"put", "bubble"} /\ n >= h.size /\ n > 0 =>
        h.slot[Parent(n)].when <= h.slot[n].when

ServeInv ==
    /\ Owned(heap) /\ MovesWithin(heap, node, pc)
    /\ IF pc = "idle" THEN pre = <<heap, out>>
       ELSE Served(Contents(pre[1]), Contents(heap), out)

LEMMA Unlike ==
    ASSUME NEW h, Owned(h), NEW i \in 0 .. h.size - 1, NEW j \in 0 .. h.size - 1
    PROVE  h.slot[i] = h.slot[j] <=> i = j
BY DEF Owned

LEMMA SwapServes ==
    ASSUME NEW h \in Heaps, NEW a \in 0 .. h.size - 1, NEW b \in 0 .. h.size - 1, Owned(h),
           NEW s, s = Swap(h, a, b)
    PROVE  Contents(s) = Contents(h) /\ Owned(s) /\ s.size = h.size
<1>1. h.size \in 0 .. Cap /\ 0 .. h.size - 1 \subseteq Slot
  BY CapAssumption DEF Heaps, Slot
<1>2. s.size = h.size /\ \A i \in Slot : s.slot[i] = IF i = b THEN h.slot[a]
                                                    ELSE IF i = a THEN h.slot[b]
                                                    ELSE h.slot[i]
  <2>1. a \in Slot /\ b \in Slot
    BY <1>1
  <2>2. /\ Swap(h, a, b).size = h.size
        /\ \A i \in Slot : Swap(h, a, b).slot[i] = IF i = b THEN h.slot[a]
                                                  ELSE IF i = a THEN h.slot[b]
                                                  ELSE h.slot[i]
    <3>1. PICK x \in Slot, y \in Slot : x = a /\ y = b
      BY <2>1
    <3>2. /\ Swap(h, x, y).size = h.size
          /\ \A i \in Slot : Swap(h, x, y).slot[i] = IF i = y THEN h.slot[x]
                                                    ELSE IF i = x THEN h.slot[y]
                                                    ELSE h.slot[i]
      BY SwapFacts
    <3> QED BY <3>1, <3>2, Zenon
  <2> QED BY <2>2
<1>3. \A i \in 0 .. h.size - 1 : s.slot[i] = IF i = b THEN h.slot[a]
                                             ELSE IF i = a THEN h.slot[b]
                                             ELSE h.slot[i]
  BY <1>1, <1>2
<1>4. Contents(s) = Contents(h)
  <2>1. \A x \in Contents(s) : x \in Contents(h)
    BY <1>2, <1>3 DEF Contents
  <2>2. ASSUME NEW i \in 0 .. h.size - 1 PROVE h.slot[i] \in Contents(s)
    <3>1. h.slot[i] = s.slot[IF i = a THEN b ELSE IF i = b THEN a ELSE i]
      BY <1>3
    <3> QED BY <1>2, <3>1 DEF Contents
  <2> QED BY <2>1, <2>2 DEF Contents
<1>5. Owned(s)
  BY <1>2, <1>3 DEF Owned
<1> QED BY <1>2, <1>4, <1>5

(* The last element is moved over one that leaves.                         *)
LEMMA PoppedServes ==
    ASSUME NEW h \in Heaps, NEW i \in 0 .. h.size - 1, Owned(h), NEW s, s = Popped(h, i)
    PROVE  /\ Contents(s) = Contents(h) \ {h.slot[i]} /\ Owned(s) /\ s.size = h.size - 1
           /\ i = h.size - 1 => \A j \in 0 .. h.size - 1 : s.slot[j] = h.slot[j]
<1>1. h.size \in 0 .. Cap /\ 0 .. h.size - 1 \subseteq Slot /\ h.size > 0 /\ h.size \in Nat
  BY CapAssumption DEF Heaps, Slot
<1>2. PICK last \in 0 .. h.size - 1 : last = h.size - 1
  BY <1>1
<1>3. s.size = h.size - 1 /\ \A j \in Slot : s.slot[j] = IF j = i THEN h.slot[h.size - 1] ELSE h.slot[j]
  BY <1>1, PoppedFacts
<1>4. \A j \in 0 .. h.size - 1 : s.slot[j] = IF j = i THEN h.slot[last] ELSE h.slot[j]
  BY <1>1, <1>2, <1>3
<1>5. \A j : j \in 0 .. s.size - 1 <=> j \in 0 .. h.size - 1 /\ j # last
  BY <1>1, <1>2, <1>3
<1>6. Contents(s) = Contents(h) \ {h.slot[i]}
  <2>1. ASSUME NEW j \in 0 .. s.size - 1 PROVE s.slot[j] \in Contents(h) \ {h.slot[i]}
    <3>1. j \in 0 .. h.size - 1 /\ j # last
      BY <1>5
    <3>2. CASE j = i
      BY <1>2, <1>4, <3>1, <3>2, Unlike DEF Contents
    <3>3. CASE j # i
      BY <1>4, <3>1, <3>3, Unlike DEF Contents
    <3> QED BY <3>2, <3>3
  <2>2. ASSUME NEW j \in 0 .. h.size - 1, j # i PROVE h.slot[j] \in Contents(s)
    <3>1. CASE j = last
      <4>1. i \in 0 .. s.size - 1 /\ s.slot[i] = h.slot[j]
        BY <1>4, <1>5, <2>2, <3>1
      <4> QED BY <4>1 DEF Contents
    <3>2. CASE j # last
      <4>1. j \in 0 .. s.size - 1 /\ s.slot[j] = h.slot[j]
        BY <1>4, <1>5, <2>2, <3>2
      <4> QED BY <4>1 DEF Contents
    <3> QED BY <3>1, <3>2
  <2>3. \A x : x \in Contents(s) => x \in Contents(h) \ {h.slot[i]}
    BY <2>1 DEF Contents
  <2>4. \A x : x \in Contents(h) \ {h.slot[i]} => x \in Contents(s)
    BY <2>2 DEF Contents
  <2> QED BY <2>3, <2>4
<1>7. Owned(s)
  BY <1>4, <1>5 DEF Owned
<1>8. i = h.size - 1 => \A j \in 0 .. h.size - 1 : s.slot[j] = h.slot[j]
  BY <1>2, <1>4
<1> QED BY <1>3, <1>6, <1>7, <1>8

LEMMA PushedServes ==
    ASSUME NEW h \in Heaps, NEW id \in Ids, NEW t \in Nat, h.size < Cap, Owned(h),
           \A j \in 0 .. h.size - 1 : h.slot[j].pid # id, NEW s, s = PushFor(h, id, t)
    PROVE  /\ Contents(s) = Contents(h) \cup {[when |-> t, pid |-> id]} /\ Owned(s)
           /\ s.size = h.size + 1
<1>1. h.size \in 0 .. Cap /\ 0 .. h.size - 1 \subseteq Slot /\ h.size \in Slot /\ h.size \in Nat
  BY CapAssumption DEF Heaps, Slot
<1>2. PICK n \in Nat : n = h.size
  BY <1>1
<1>3. PICK e : e = [when |-> t, pid |-> id]
  OBVIOUS
<1>4. s.size = n + 1 /\ s.slot[n] = e /\ \A j \in Slot : j # n => s.slot[j] = h.slot[j]
  <2>1. s.slot[n] = e
    BY <1>1, <1>2, <1>3 DEF PushFor, Pushed, Heaps
  <2> QED BY <1>2, <2>1, PushedFacts
<1>5. \A j : j \in 0 .. s.size - 1 <=> j \in 0 .. n - 1 \/ j = n
  BY <1>4
<1>6. \A j \in 0 .. n - 1 : s.slot[j] = h.slot[j] /\ j # n
  BY <1>1, <1>2, <1>4
<1>7. Contents(s) = Contents(h) \cup {e}
  BY <1>2, <1>4, <1>5, <1>6 DEF Contents
<1>8. Owned(s)
  <2>1. e.pid = id
    BY <1>3
  <2> QED BY <1>2, <1>4, <1>5, <1>6, <2>1 DEF Owned
<1> QED BY <1>2, <1>3, <1>4, <1>7, <1>8

Retimed(h, i, t) == [h EXCEPT !.slot[i].when = t]

LEMMA RetimedServes ==
    ASSUME NEW h \in Heaps, NEW i \in 0 .. h.size - 1, NEW t \in Nat, Owned(h),
           NEW s, s = Retimed(h, i, t)
    PROVE  /\ Contents(s) = (Contents(h) \ {h.slot[i]}) \cup {[h.slot[i] EXCEPT !.when = t]}
           /\ Owned(s) /\ s.size = h.size
<1>1. h.size \in 0 .. Cap /\ 0 .. h.size - 1 \subseteq Slot
  BY CapAssumption DEF Heaps, Slot
<1>2. PICK e : e = [h.slot[i] EXCEPT !.when = t]
  OBVIOUS
<1>3. s.size = h.size /\ \A j \in Slot : s.slot[j] = IF j = i THEN e ELSE h.slot[j]
  BY <1>1, <1>2 DEF Retimed, Heaps
<1>4. e.pid = h.slot[i].pid
  BY <1>1, <1>2 DEF Heaps
<1>5. \A j \in 0 .. h.size - 1 : s.slot[j] = IF j = i THEN e ELSE h.slot[j]
  BY <1>1, <1>3
<1>6. Owned(s)
  BY <1>3, <1>4, <1>5 DEF Owned
<1>7. Contents(s) = (Contents(h) \ {h.slot[i]}) \cup {e}
  <2>1. \A j \in 0 .. h.size - 1 : h.slot[j] = h.slot[i] <=> j = i
    BY Unlike
  <2> QED BY <1>3, <1>5, <2>1 DEF Contents
<1> QED BY <1>2, <1>3, <1>6, <1>7

(* The root of an ordered heap is earliest.                                *)
LEMMA RootEarliest ==
    ASSUME NEW h \in Heaps, h.size > 0, Ordered(h)
    PROVE  \A e \in Contents(h) : h.slot[0].when <= e.when
<1> DEFINE Bad == {i \in 0 .. h.size - 1 : ~ (h.slot[0].when <= h.slot[i].when)}
<1>1. h.size \in Nat /\ \A i \in 0 .. h.size - 1 : h.slot[i].when \in Nat
  BY CapAssumption DEF Heaps, Slot
<1>2. ASSUME Bad # {} PROVE FALSE
  <2>1. PICK i \in Bad : \A j \in Bad : i <= j
    <3>1. Bad \in SUBSET Nat
      OBVIOUS
    <3> QED BY <1>2, <3>1, LowestFacts
  <2>2. i \in Nat /\ i \in 0 .. h.size - 1 /\ ~ (h.slot[0].when <= h.slot[i].when)
    OBVIOUS
  <2>3. i > 0
    BY <1>1, <2>2
  <2>4. Parent(i) \in 0 .. h.size - 1 /\ Parent(i) < i
    BY <1>1, <2>2, <2>3, ParentFacts
  <2>5. Parent(i) \notin Bad
    BY <2>1, <2>4
  <2>6. h.slot[0].when <= h.slot[Parent(i)].when
    BY <2>4, <2>5
  <2>7. h.slot[Parent(i)].when <= h.slot[i].when
    BY <2>2, <2>3 DEF Ordered
  <2>8. 0 \in 0 .. h.size - 1
    BY <1>1
  <2>9. h.slot[0].when \in Nat /\ h.slot[Parent(i)].when \in Nat /\ h.slot[i].when \in Nat
    BY <1>1, <2>2, <2>4, <2>8
  <2> QED BY <2>2, <2>6, <2>7, <2>9
<1> QED BY <1>2 DEF Contents

LEMMA ServeStep ==
    ASSUME ~ Careless, TypeOK, TypeOK', OrderedButNode, ServeInv, [Next]_vars
    PROVE  ServeInv'
<1> PICK h, g, n, m, o, p, c : /\ h = heap /\ g = heap' /\ n = node /\ m = node'
                               /\ o = out /\ p = out' /\ c = Contents(pre[1])
  OBVIOUS
<1>1. /\ h \in Heaps /\ n \in Slot /\ h.size \in Nat /\ n \in Nat
      /\ Owned(h) /\ MovesWithin(h, n, pc)
      /\ \A i \in 0 .. h.size - 1 : i \in Slot
  BY SlotFacts, LiveFacts DEF TypeOK, ServeInv
<1>2. pc = "idle" => pre = <<h, o>> /\ Ordered(h)
  BY DEF ServeInv, OrderedButNode, Ordered
<1>3. pc # "idle" => Served(c, Contents(h), o)
  BY DEF ServeInv
(* An operation begins: it leaves pre as it is and serves the contents.    *)
<1>4. ASSUME pc = "idle", pc' # "idle", pre' = <<h, o>>, Owned(g), MovesWithin(g, m, pc'),
             Served(Contents(h), Contents(g), p)
      PROVE  ServeInv'
  <2>1. Contents(pre'[1]) = Contents(h)
    BY <1>4
  <2>2. Served(Contents(pre'[1]), Contents(heap'), out')
    BY <1>4, <2>1, Zenon
  <2>3. Owned(heap') /\ MovesWithin(heap', node', pc')
    BY <1>4, Zenon
  <2> QED BY <1>4, <2>2, <2>3, Zenon DEF ServeInv
(* A loop goes on: it changes neither pre nor the contents.                *)
<1>5. ASSUME pc # "idle", pc' # "idle", pre' = pre, Owned(g), MovesWithin(g, m, pc'),
             Contents(g) = Contents(h), p = o
      PROVE  ServeInv'
  <2>1. Served(Contents(pre'[1]), Contents(heap'), out')
    BY <1>3, <1>5, Zenon
  <2>2. Owned(heap') /\ MovesWithin(heap', node', pc')
    BY <1>5, Zenon
  <2> QED BY <1>5, <2>1, <2>2, Zenon DEF ServeInv
<1>6. ASSUME NEW id \in Ids, NEW t \in Times, Put(id, t) PROVE ServeInv'
  <2>1. t \in Nat /\ h.size < Cap
    BY <1>6, LoopAssumption DEF Put
  <2>2. \A i \in 0 .. h.size - 1 : h.slot[i].pid # id
    BY <1>6 DEF Put, Held, Live
  <2>3. g = PushFor(h, id, t) /\ m = h.size /\ p = None
        /\ pc = "idle" /\ pc' = "put" /\ pre' = <<h, o>>
    BY <1>6 DEF Put, Begin
  <2>4. Contents(g) = Contents(h) \cup {[when |-> t, pid |-> id]} /\ Owned(g) /\ g.size = h.size + 1
    BY <1>1, <2>1, <2>2, <2>3, PushedServes
  <2>5. MovesWithin(g, m, "put")
    BY <1>1, <2>3, <2>4 DEF MovesWithin
  <2>6. Served(Contents(h), Contents(g), p)
    <3>1. \A e \in Contents(h) : e.pid # id
      BY <2>2 DEF Contents
    <3> QED BY <2>3, <2>4, <3>1, Zenon DEF Served
  <2> QED BY <1>4, <2>3, <2>4, <2>5, <2>6
(* The last element leaves its place; where it was its copy cannot move.   *)
<1>7. ASSUME NEW i \in 0 .. h.size - 1, g = Popped(h, i), pc = "idle"
      PROVE  /\ Contents(g) = Contents(h) \ {h.slot[i]} /\ Owned(g)
             /\ MovesWithin(g, i, "bubble") /\ h.slot[i] \in Contents(h)
  <2>1. /\ Contents(g) = Contents(h) \ {h.slot[i]} /\ Owned(g) /\ g.size = h.size - 1
        /\ i = h.size - 1 => \A j \in 0 .. h.size - 1 : g.slot[j] = h.slot[j]
    BY <1>1, <1>7, PoppedServes
  <2>2. MovesWithin(g, i, "bubble")
    <3> SUFFICES ASSUME i >= g.size, i > 0 PROVE g.slot[Parent(i)].when <= g.slot[i].when
      BY <1>1 DEF MovesWithin
    <3>1. i = h.size - 1 /\ Parent(i) \in 0 .. h.size - 1
      BY <1>1, <2>1, ParentFacts
    <3>2. h.slot[Parent(i)].when <= h.slot[i].when
      BY <1>1, <1>2, <1>7, <3>1 DEF Ordered
    <3> QED BY <2>1, <3>1, <3>2
  <2>3. h.slot[i] \in Contents(h)
    BY DEF Contents
  <2> QED BY <2>1, <2>2, <2>3
<1>8. ASSUME Pop PROVE ServeInv'
  <2>1. h.size > 0 /\ g = Popped(h, 0) /\ m = 0 /\ p = h.slot[0]
        /\ pc = "idle" /\ pc' = "bubble" /\ pre' = <<h, o>>
    BY <1>8 DEF Pop, Begin
  <2>2. 0 \in 0 .. h.size - 1
    BY <1>1, <2>1
  <2>3. \A f \in Contents(h) : h.slot[0].when <= f.when
    BY <1>1, <1>2, <2>1, RootEarliest
  <2>4. /\ Contents(g) = Contents(h) \ {h.slot[0]} /\ Owned(g)
        /\ MovesWithin(g, 0, "bubble") /\ h.slot[0] \in Contents(h)
    BY <1>7, <2>1, <2>2
  <2>5. Served(Contents(h), Contents(g), p)
    BY <2>1, <2>3, <2>4, Zenon DEF Served
  <2> QED BY <1>4, <2>1, <2>4, <2>5
<1>9. ASSUME NEW i \in Deletable, Del(i) PROVE ServeInv'
  <2>1. i \in 0 .. h.size - 1
    BY DEF Deletable, Live
  <2>2. g = Popped(h, i) /\ m = i /\ p = None /\ pc = "idle" /\ pc' = "bubble" /\ pre' = <<h, o>>
    BY <1>9 DEF Del, Begin
  <2>3. /\ Contents(g) = Contents(h) \ {h.slot[i]} /\ Owned(g)
        /\ MovesWithin(g, i, "bubble") /\ h.slot[i] \in Contents(h)
    BY <1>7, <2>1, <2>2
  <2>4. Served(Contents(h), Contents(g), p)
    BY <2>2, <2>3, Zenon DEF Served
  <2> QED BY <1>4, <2>2, <2>3, <2>4
<1>10. ASSUME NEW i \in Live, NEW t \in Times, Readj(i, t) PROVE ServeInv'
  <2>1. i \in 0 .. h.size - 1 /\ t \in Nat
    BY LoopAssumption DEF Live
  <2>2. g = Retimed(h, i, t) /\ m = i /\ p = None
        /\ pc = "idle" /\ pc' = "bubble" /\ pre' = <<h, o>>
    BY <1>10 DEF Readj, Begin, Retimed
  <2>3. /\ Contents(g) = (Contents(h) \ {h.slot[i]}) \cup {[h.slot[i] EXCEPT !.when = t]}
        /\ Owned(g) /\ g.size = h.size
    BY <1>1, <2>1, <2>2, RetimedServes
  <2>4. MovesWithin(g, i, "bubble") /\ h.slot[i] \in Contents(h)
    BY <1>1, <2>1, <2>3 DEF MovesWithin, Contents
  <2>5. Served(Contents(h), Contents(g), p)
    BY <2>2, <2>3, <2>4, Zenon DEF Served
  <2> QED BY <1>4, <2>2, <2>3, <2>4, <2>5
<1>11. ASSUME BubbleStep PROVE ServeInv'
  <2>1. pc \in {"put", "bubble"} /\ p = o
    BY <1>11 DEF BubbleStep
  <2>2. CASE HasParent(n) /\ h.slot[n].when < h.slot[Parent(n)].when
    <3>1. g = Swap(h, n, Parent(n)) /\ m = Parent(n) /\ pc' = pc /\ pre' = pre
      BY <1>11, <2>2 DEF BubbleStep
    <3>2. n > 0 /\ Parent(n) \in Slot /\ Parent(n) < n /\ Parent(n) \in Nat
      BY <1>1, <2>2, SlotFacts, ParentFacts DEF HasParent
    <3>3. h.slot[n].when \in Nat /\ h.slot[Parent(n)].when \in Nat
      BY <1>1, <3>2 DEF Heaps
    <3>4. ~ (h.slot[Parent(n)].when <= h.slot[n].when)
      BY <2>2, <3>3
    <3>5. n \in 0 .. h.size - 1 /\ Parent(n) \in 0 .. h.size - 1
      BY <1>1, <2>1, <2>2, <3>2, <3>4 DEF MovesWithin
    <3>6. Contents(g) = Contents(h) /\ Owned(g) /\ g.size = h.size
      BY <1>1, <3>1, <3>5, SwapServes
    <3>7. MovesWithin(g, m, pc)
      BY <1>1, <3>1, <3>5, <3>6 DEF MovesWithin
    <3> QED BY <1>5, <2>1, <3>1, <3>6, <3>7
  <2>3. CASE ~ (HasParent(n) /\ h.slot[n].when < h.slot[Parent(n)].when)
    <3>1. g = h
      BY <1>11, <2>3 DEF BubbleStep, Return
    <3>2. CASE pc = "put" /\ pc' = "idle" /\ pre' = <<h, o>>
      BY <1>1, <2>1, <3>1, <3>2 DEF ServeInv, MovesWithin
    <3>3. CASE pc' = "sink" /\ pre' = pre
      <4>1. MovesWithin(g, m, "sink")
        BY DEF MovesWithin
      <4> QED BY <1>1, <1>5, <2>1, <3>1, <3>3, <4>1
    <3> QED BY <1>11, <2>3, <3>2, <3>3 DEF BubbleStep, Return
  <2> QED BY <2>2, <2>3
<1>12. ASSUME SinkStep PROVE ServeInv'
  <2>1. pc = "sink" /\ p = o
    BY <1>12 DEF SinkStep
  <2>2. PICK b : b = Best(h, n)
    OBVIOUS
  <2>3. CASE Left(n) < h.size /\ h.slot[n].when > h.slot[b].when
    <3>1. g = Swap(h, n, b) /\ pc' = pc /\ pre' = pre
      BY <1>12, <2>2, <2>3 DEF SinkStep
    <3>2. b \in Slot /\ b < h.size
      BY <1>1, <2>2, <2>3, BestFacts
    <3>3. n \in 0 .. h.size - 1 /\ b \in 0 .. h.size - 1
      <4>1. 2 * n + 1 < h.size
        BY <2>3 DEF Left
      <4>2. n \in 0 .. h.size - 1
        BY <1>1, <4>1
      <4>3. b \in 0 .. h.size - 1
        BY <1>1, <3>2, SlotFacts
      <4> QED BY <4>2, <4>3
    <3>4. Contents(g) = Contents(h) /\ Owned(g)
      BY <1>1, <3>1, <3>3, SwapServes
    <3>5. MovesWithin(g, m, "sink")
      BY DEF MovesWithin
    <3> QED BY <1>5, <2>1, <3>1, <3>4, <3>5
  <2>4. CASE ~ (Left(n) < h.size /\ h.slot[n].when > h.slot[b].when)
    <3>1. g = h /\ pc' = "idle" /\ pre' = <<h, o>>
      BY <1>12, <2>2, <2>4 DEF SinkStep, Return
    <3> QED BY <1>1, <2>1, <3>1 DEF ServeInv, MovesWithin
  <2> QED BY <2>3, <2>4
<1>13. ASSUME UNCHANGED vars PROVE ServeInv'
  <2>1. heap' = heap /\ node' = node /\ pc' = pc /\ pre' = pre /\ out' = out
    BY <1>13 DEF vars
  <2>2. Owned(heap') /\ MovesWithin(heap', node', pc')
    BY <1>1, <2>1, Zenon
  <2>3. Contents(pre'[1]) = Contents(pre[1]) /\ Contents(heap') = Contents(heap)
    BY <2>1, Zenon
  <2>4. CASE pc = "idle"
    <3>1. pre' = <<heap', out'>>
      BY <1>2, <2>1, <2>4, Zenon
    <3> QED BY <2>1, <2>2, <2>4, <3>1, Zenon DEF ServeInv
  <2>5. CASE pc # "idle"
    <3>1. Served(Contents(pre'[1]), Contents(heap'), out')
      BY <1>3, <2>1, <2>3, <2>5, Zenon
    <3> QED BY <2>1, <2>2, <2>5, <3>1, Zenon DEF ServeInv
  <2> QED BY <2>4, <2>5
<1> QED BY <1>6, <1>8, <1>9, <1>10, <1>11, <1>12, <1>13 DEF Next

(* The client sees a change when the loops have ended, and at no other     *)
(* time; an operation that begins remembers what is there.                 *)
LEMMA WhenPreChanges ==
    ASSUME [Next]_vars
    PROVE  \/ pre' = pre
           \/ pc = "idle" /\ pre' = <<heap, out>>
           \/ pc # "idle" /\ pre' = <<heap, out>>
<1>1. \A id, t : Put(id, t) => pc = "idle" /\ pre' = <<heap, out>>
  BY DEF Put, Begin
<1>2. Pop => pc = "idle" /\ pre' = <<heap, out>>
  BY DEF Pop, Begin
<1>3. \A i : Del(i) => pc = "idle" /\ pre' = <<heap, out>>
  BY DEF Del, Begin
<1>4. \A i, t : Readj(i, t) => pc = "idle" /\ pre' = <<heap, out>>
  BY DEF Readj, Begin
<1>5. BubbleStep => pre' = pre \/ (pc # "idle" /\ pre' = <<heap, out>>)
  BY DEF BubbleStep, Return
<1>6. SinkStep => pre' = pre \/ (pc # "idle" /\ pre' = <<heap, out>>)
  BY DEF SinkStep, Return
<1>7. UNCHANGED vars => pre' = pre
  BY DEF vars
<1> QED BY <1>1, <1>2, <1>3, <1>4, <1>5, <1>6, <1>7 DEF Next

(* An operation that ends has changed the queue as heap.h promises: until  *)
(* then the client sees what was there before.                             *)
LEMMA ServedIsNext ==
    ASSUME TypeOK, ServeInv, [Next]_vars
    PROVE  pre' = pre \/ Whole!Queue!Next
<1> PICK c, d, o : c = Contents(pre[1]) /\ d = Contents(heap) /\ o = out
  OBVIOUS
<1>1. ASSUME pc # "idle", pre' = <<heap, out>> PROVE Whole!Queue!Next
  <2>1. Served(c, d, o)
    BY <1>1 DEF ServeInv
  <2>2. c = Contents(pre[1]) /\ d = Contents(pre'[1]) /\ o = pre'[2]
    BY <1>1
  <2>3. ASSUME NEW id \in Ids, NEW t \in Times, \A e \in c : e.pid # id,
               d = c \cup {[when |-> t, pid |-> id]}, o = None
        PROVE  Whole!Queue!Next
    BY <2>2, <2>3, Zenon DEF Whole!Queue!Next, Whole!Queue!Add, Whole!Live, Contents
  <2>4. ASSUME NEW e \in c, \A f \in c : e.when <= f.when, d = c \ {e}, o = e
        PROVE  Whole!Queue!Next
    BY <2>2, <2>4, Zenon DEF Whole!Queue!Next, Whole!Queue!TakeEarliest, Whole!Live, Contents
  <2>5. ASSUME NEW e \in c, d = c \ {e}, o = None
        PROVE  Whole!Queue!Next
    BY <2>2, <2>5, Zenon DEF Whole!Queue!Next, Whole!Queue!Remove, Whole!Live, Contents
  <2>6. ASSUME NEW e \in c, NEW t \in Times, d = (c \ {e}) \cup {[e EXCEPT !.when = t]}, o = None
        PROVE  Whole!Queue!Next
    BY <2>2, <2>6, Zenon DEF Whole!Queue!Next, Whole!Queue!Retime, Whole!Live, Contents
  <2> QED BY <2>1, <2>3, <2>4, <2>5, <2>6, Zenon DEF Served
<1>2. pc = "idle" => pre = <<heap, out>>
  BY DEF ServeInv
<1> QED BY <1>1, <1>2, WhenPreChanges

(* A client that deletes what is there has the priority queue that heap.h  *)
(* promises, from loops that compare and swap: nothing is lost, doubled or *)
(* retimed but what it asked for, and pop takes an earliest element.       *)
THEOREM LoopsServe == ASSUME ~ Careless PROVE Spec => IsPriorityQueue
<1>1. Init => ServeInv
  <2> SUFFICES ASSUME Init PROVE ServeInv
    OBVIOUS
  <2>1. heap.size = 0 /\ pc = "idle" /\ pre = <<heap, out>>
    BY DEF Init
  <2> QED BY <2>1 DEF ServeInv, Owned, MovesWithin
<1>2. TypeOK /\ TypeOK' /\ OrderedButNode /\ ServeInv /\ [Next]_vars => ServeInv'
  BY ServeStep
<1>3. Init => Whole!Queue!Init
  <2> SUFFICES ASSUME Init PROVE Whole!Queue!Init
    OBVIOUS
  <2>1. heap.size = 0 /\ out = None /\ pre = <<heap, out>>
    BY DEF Init
  <2> QED BY <2>1 DEF Whole!Queue!Init, Whole!Live
<1>4. TypeOK /\ ServeInv /\ [Next]_vars => [pre' = pre \/ Whole!Queue!Next]_pre
  BY ServedIsNext
<1> QED BY <1>1, <1>2, <1>3, <1>4, TypeCorrect, LoopsKeepOrder, PTL DEF Spec, IsPriorityQueue

(***************************************************************************)
(* The refinement of Heap.  A loop has moved its element along a part of   *)
(* the path that the closed form gives in one piece; a swap makes the part *)
(* longer by a slot, and where the loop ends the part is the path.  `from` *)
(* says from which slot each slot of the path gets its content.            *)
(***************************************************************************)
Shifted(h, path, i, from) ==
    [j \in Slot |-> IF j \notin path THEN h.slot[j]
                    ELSE IF from[j] \in path THEN h.slot[from[j]]
                    ELSE h.slot[i]]

Trip(h, path, i, from, loop) ==
    [h EXCEPT !.slot = Shifted(h, path, i, from),
              !.head = Track(h, path, Shifted(h, path, i, from), loop)]

(* Two heaps are the same if their fields are.                             *)
LEMMA SameHeap ==
    ASSUME NEW g \in Heaps, NEW h \in Heaps, g.size = h.size,
           \A j \in Slot : g.slot[j] = h.slot[j], \A p \in Ids : g.head[p] = h.head[p]
    PROVE  g = h
<1>1. g.slot = h.slot /\ g.head = h.head
  BY DEF Heaps
<1> QED BY <1>1 DEF Heaps

MovedAlong(s, h, path, i, from) ==
    /\ s \in [Slot -> [when : Nat, pid : Ids \cup {None}]]
    /\ \A j \in Slot : j \notin path => s[j] = h.slot[j]
    /\ \A j \in path : from[j] \in path => s[j] = h.slot[from[j]]
    /\ \A j \in path : from[j] \notin path => s[j] = h.slot[i]

LEMMA ShiftedFacts ==
    ASSUME NEW h \in Heaps, NEW path \in SUBSET Slot, NEW i \in Slot, NEW from,
           NEW s, s = Shifted(h, path, i, from)
    PROVE  MovedAlong(s, h, path, i, from)
<1>1. \A j \in Slot : h.slot[j] \in [when : Nat, pid : Ids \cup {None}]
  BY DEF Heaps
<1> QED BY <1>1 DEF Shifted, MovedAlong

(* The last slot of a set of slots on a path that is gone in a direction.  *)
Ends(S, loop, n) == n \in S /\ \A X \in SUBSET S : n \in X => Last(X, loop) = n

Theirs(path, slot, p) == {j \in path : slot[j].pid = p}

Told(path, slot, loop, p) == path # {Last(path, loop)} /\ Theirs(path, slot, p) # {}

LEMMA TrackIs ==
    ASSUME NEW h \in Heaps, NEW path, NEW slot, NEW loop, NEW p \in Ids
    PROVE  Track(h, path, slot, loop)[p] =
             IF Told(path, slot, loop, p) THEN Last(Theirs(path, slot, p), loop) ELSE h.head[p]
<1>1. p \in DOMAIN h.head
  BY DEF Heaps
<1> QED BY <1>1 DEF Track, Theirs, Told

LEMMA TripFacts ==
    ASSUME NEW h \in Heaps, NEW path \in SUBSET Slot, NEW i \in Slot, NEW from,
           NEW loop \in {"bubble", "sink"}, NEW t, t = Trip(h, path, i, from, loop),
           NEW s, s = Shifted(h, path, i, from)
    PROVE  /\ t \in Heaps /\ t.size = h.size /\ t.slot = s
           /\ t.head = Track(h, path, s, loop)
<1> DEFINE E == [when : Nat, pid : Ids \cup {None}]
<1>1. IsHeap(h, E, Ids)
  BY DEF IsHeap, Heaps
<1>2. PICK k : k = Track(h, path, s, loop)
  OBVIOUS
<1>3. k \in [Ids -> Slot]
  BY <1>1, <1>2, TrackFacts
<1>4. s \in [Slot -> E]
  BY ShiftedFacts DEF MovedAlong
<1>5. t = [h EXCEPT !.slot = s, !.head = k]
  BY <1>2 DEF Trip
<1> QED BY <1>2, <1>3, <1>4, <1>5 DEF Heaps

(* The callback tells the two owners, the one at the second slot last.     *)
LEMMA SwapHeads ==
    ASSUME NEW h \in Heaps, NEW a \in Slot, NEW b \in Slot, NEW p \in Ids
    PROVE  Swap(h, a, b).head[p] = IF p = h.slot[a].pid THEN b
                                   ELSE IF p = h.slot[b].pid THEN a
                                   ELSE h.head[p]
BY DEF Swap, Heaps

(* Where the part ends a swap with the next slot of the path makes it one  *)
(* slot longer: the owner of what was there is told where it is now, and   *)
(* the owner of the moving element last.                                   *)
Grows(path, wider, loop, n, m) ==
    /\ n \in path /\ m \notin path /\ wider = path \cup {m}
    /\ Ends(path, loop, n) /\ Ends(wider, loop, m)

Swapped(path, n, m, s, z) ==
    z[m] = s[n] /\ z[n] = s[m] /\ \A j \in path : j # n => z[j] = s[j]

Retold(y, x, s, n, m, p) == y = IF p = s[n].pid THEN m ELSE IF p = s[m].pid THEN n ELSE x

LEMMA TrackStep ==
    ASSUME NEW h \in Heaps, NEW path \in SUBSET Slot, NEW wider, NEW loop, NEW n,
           NEW m \in Slot, Grows(path, wider, loop, n, m),
           NEW s, NEW z, Swapped(path, n, m, s, z), NEW p \in Ids
    PROVE  Retold(Track(h, wider, z, loop)[p], Track(h, path, s, loop)[p], s, n, m, p)
<1> /\ n \in path /\ m \notin path /\ wider = path \cup {m}
    /\ Ends(path, loop, n) /\ Ends(wider, loop, m)
  BY DEF Grows
<1>0. PICK e : /\ e = s[n] /\ z[m] = e /\ z[n] = s[m]
               /\ \A j \in path : j # n => z[j] = s[j]
  BY DEF Swapped
<1>b. PICK at, now : at = Theirs(path, s, p) /\ now = Theirs(wider, z, p)
  OBVIOUS
<1>c. /\ at \in SUBSET path /\ \A j \in path : j \in at <=> s[j].pid = p
      /\ now \in SUBSET wider /\ \A j \in wider : j \in now <=> z[j].pid = p
  BY <1>b DEF Theirs
<1>1. PICK x : x = Track(h, path, s, loop)[p]
  OBVIOUS
<1>2. x = IF Told(path, s, loop, p) THEN Last(at, loop) ELSE h.head[p]
  BY <1>b, <1>1, TrackIs
<1>3. PICK y : y = Track(h, wider, z, loop)[p]
  OBVIOUS
<1>4. y = IF now # {} THEN Last(now, loop) ELSE h.head[p]
  <2>1. y = IF Told(wider, z, loop, p) THEN Last(now, loop) ELSE h.head[p]
    BY <1>b, <1>3, TrackIs
  <2>2. wider # {Last(wider, loop)}
    OBVIOUS
  <2>3. Told(wider, z, loop, p) <=> now # {}
    BY <1>b, <2>2 DEF Told
  <2> QED BY <2>1, <2>3
<1>5. ASSUME p = e.pid PROVE y = m
  <2>1. m \in now /\ now \in SUBSET wider
    BY <1>0, <1>c, <1>5
  <2>2. Last(now, loop) = m
    BY <2>1 DEF Ends
  <2> QED BY <1>0, <1>3, <1>4, <1>5, <2>1, <2>2
<1>6. ASSUME p # e.pid, p = z[n].pid PROVE y = n
  <2>1. n \in now /\ now \in SUBSET path
    BY <1>0, <1>c, <1>6
  <2>2. Last(now, loop) = n
    BY <2>1 DEF Ends
  <2> QED BY <1>0, <1>3, <1>4, <1>6, <2>1, <2>2
<1>7. ASSUME p # e.pid, p # z[n].pid PROVE y = x
  <2>1. now = at /\ n \notin at
    <3>1. \A j \in path : j \in now <=> j \in at
      BY <1>0, <1>c, <1>7
    <3>2. m \notin now /\ n \notin at
      BY <1>0, <1>c, <1>7
    <3> QED BY <1>c, <3>1, <3>2
  <2>2. path = {Last(path, loop)} => at = {}
    BY <1>c, <2>1 DEF Ends
  <2>3. Told(path, s, loop, p) <=> at # {}
    BY <1>b, <2>2 DEF Told
  <2>4. y = x
    BY <1>2, <1>4, <2>1, <2>3
  <2> QED BY <1>0, <1>1, <1>3, <1>7, <2>4
<1> QED BY <1>0, <1>1, <1>3, <1>5, <1>6, <1>7 DEF Retold

Follows(from, path, wider, n, m) ==
    from[n] = m /\ from[m] \notin wider /\ \A j \in path : j # n => from[j] # m

GoesOn(h, path, wider, i, from, loop, n, m) ==
    /\ h \in Heaps /\ path \in SUBSET Slot /\ i \in Slot /\ loop \in {"bubble", "sink"} /\ m \in Slot
    /\ Grows(path, wider, loop, n, m) /\ Follows(from, path, wider, n, m)

LEMMA TripGoesOn ==
    ASSUME NEW h, NEW path, NEW wider, NEW i, NEW from, NEW loop, NEW n, NEW m,
           GoesOn(h, path, wider, i, from, loop, n, m)
    PROVE  Swap(Trip(h, path, i, from, loop), n, m) = Trip(h, wider, i, from, loop)
<1> /\ h \in Heaps /\ path \in SUBSET Slot /\ i \in Slot /\ loop \in {"bubble", "sink"} /\ m \in Slot
    /\ Grows(path, wider, loop, n, m) /\ Follows(from, path, wider, n, m)
  BY DEF GoesOn
<1>t. PICK t : t = Trip(h, path, i, from, loop)
  OBVIOUS
<1>0. wider = path \cup {m} /\ wider \in SUBSET Slot
  BY DEF Grows
<1>a. /\ n \in path /\ m \notin path /\ from[n] = m /\ from[m] \notin wider
      /\ \A j \in path : j # n => from[j] # m
  BY DEF Grows, Follows
<1>1. PICK s, z, g, u : /\ s = Shifted(h, path, i, from) /\ z = Shifted(h, wider, i, from)
                        /\ g = Swap(t, n, m) /\ u = Trip(h, wider, i, from, loop)
  OBVIOUS
<1>2. t \in Heaps /\ t.size = h.size /\ t.slot = s /\ t.head = Track(h, path, s, loop)
  BY <1>t, <1>1, TripFacts
<1>3. u \in Heaps /\ u.size = h.size /\ u.slot = z /\ u.head = Track(h, wider, z, loop)
  BY <1>0, <1>1, TripFacts
<1>4. g \in Heaps /\ g.size = h.size
      /\ \A j \in Slot : g.slot[j] = IF j = m THEN s[n] ELSE IF j = n THEN s[m] ELSE s[j]
  <2>1. n \in Slot
    BY <1>a
  <2>2. /\ Swap(t, n, m) \in Heaps /\ Swap(t, n, m).size = t.size
        /\ \A j \in Slot : Swap(t, n, m).slot[j] = IF j = m THEN t.slot[n]
                                                  ELSE IF j = n THEN t.slot[m]
                                                  ELSE t.slot[j]
    <3>1. PICK x \in Heaps, a \in Slot, b \in Slot : x = t /\ a = n /\ b = m
      BY <1>2, <2>1
    <3>2. /\ Swap(x, a, b) \in Heaps /\ Swap(x, a, b).size = x.size
          /\ \A j \in Slot : Swap(x, a, b).slot[j] = IF j = b THEN x.slot[a]
                                                    ELSE IF j = a THEN x.slot[b]
                                                    ELSE x.slot[j]
      BY SwapFacts
    <3> QED BY <3>1, <3>2, Zenon
  <2> QED BY <1>1, <1>2, <2>2
<1>5. \A p \in Ids : g.head[p] = IF p = s[n].pid THEN m
                                 ELSE IF p = s[m].pid THEN n
                                 ELSE t.head[p]
  BY <1>1, <1>2, <1>a, SwapHeads
<1>6. s[n] = h.slot[i] /\ s[m] = h.slot[m] /\ \A j \in Slot : j \notin path => s[j] = h.slot[j]
  <2>1. /\ \A j \in Slot : j \notin path => s[j] = h.slot[j]
        /\ \A j \in path : from[j] \notin path => s[j] = h.slot[i]
    <3>1. MovedAlong(s, h, path, i, from)
      BY <1>1, ShiftedFacts
    <3> QED BY <3>1 DEF MovedAlong
  <2> QED BY <1>a, <2>1
<1>7. /\ z[m] = h.slot[i] /\ z[n] = h.slot[m]
      /\ \A j \in Slot : j \notin wider => z[j] = h.slot[j]
  <2>1. wider \in SUBSET Slot /\ m \in wider /\ n \in wider
    BY <1>0, <1>a
  <2>2. /\ \A j \in Slot : j \notin wider => z[j] = h.slot[j]
        /\ \A j \in wider : from[j] \in wider => z[j] = h.slot[from[j]]
        /\ \A j \in wider : from[j] \notin wider => z[j] = h.slot[i]
    <3>1. MovedAlong(z, h, wider, i, from)
      BY <1>1, <2>1, ShiftedFacts
    <3> QED BY <3>1 DEF MovedAlong
  <2> QED BY <1>0, <1>a, <2>1, <2>2
<1>8. \A j \in path : j # n => z[j] = s[j]
  <2>1. MovedAlong(s, h, path, i, from) /\ MovedAlong(z, h, wider, i, from)
    BY <1>0, <1>1, ShiftedFacts
  <2> QED BY <1>0, <1>a, <2>1 DEF MovedAlong
<1>9. \A j \in Slot : g.slot[j] = u.slot[j]
  BY <1>0, <1>3, <1>4, <1>6, <1>7, <1>8
<1>10. \A p \in Ids : g.head[p] = u.head[p]
  <2> TAKE p \in Ids
  <2>1. Swapped(path, n, m, s, z)
    BY <1>6, <1>7, <1>8 DEF Swapped
  <2>2. Retold(Track(h, wider, z, loop)[p], Track(h, path, s, loop)[p], s, n, m, p)
    BY <2>1, TrackStep
  <2>3. u.head[p] = IF p = s[n].pid THEN m ELSE IF p = s[m].pid THEN n ELSE t.head[p]
    BY <1>2, <1>3, <2>2 DEF Retold
  <2> QED BY <1>5, <2>3
<1>11. g = u
  BY <1>3, <1>4, <1>9, <1>10, SameHeap
<1> QED BY <1>t, <1>1, <1>11

(* A loop that has not swapped anything has left the heap as it was.       *)
LEMMA TripStart ==
    ASSUME NEW h \in Heaps, NEW i \in Slot, NEW from, NEW loop \in {"bubble", "sink"},
           Ends({i}, loop, i), from[i] # i
    PROVE  Trip(h, {i}, i, from, loop) = h
<1>0. PICK path, s, u : path = {i} /\ s = Shifted(h, path, i, from)
                        /\ u = Trip(h, path, i, from, loop)
  OBVIOUS
<1>1. u \in Heaps /\ u.size = h.size /\ u.slot = s /\ u.head = Track(h, path, s, loop)
  BY <1>0, TripFacts
<1>2. \A j \in Slot : u.slot[j] = h.slot[j]
  BY <1>0, <1>1, ShiftedFacts DEF MovedAlong
<1>3. path = {Last(path, loop)}
  BY <1>0 DEF Ends
<1>4. \A p \in Ids : u.head[p] = h.head[p]
  <2> TAKE p \in Ids
  <2>1. Track(h, path, s, loop)[p] = h.head[p]
    BY <1>3, TrackIs DEF Told
  <2> QED BY <1>1, <2>1
<1>5. u = h
  BY <1>1, <1>2, <1>4, SameHeap
<1> QED BY <1>0, <1>5

(* The element at i on its way up, come to n.                              *)
Up == [j \in Slot |-> Parent(j)]
Rise(h, i, n) == Trip(h, {j \in Line(i) : n <= j}, i, Up, "bubble")

LEMMA RiseEnds ==
    ASSUME NEW i \in Slot, NEW n \in Line(i), NEW path, path = {j \in Line(i) : n <= j}
    PROVE  path \in SUBSET Slot /\ n \in path /\ n \in Slot /\ Ends(path, "bubble", n)
<1>1. path \in SUBSET Slot /\ path \in SUBSET Nat /\ n \in Slot /\ n \in Nat
  BY LineFacts, SlotFacts
<1>2. n \in path
  BY <1>1
<1>3. ASSUME NEW X \in SUBSET path, n \in X PROVE Last(X, "bubble") = n
  <2>1. PICK l : l = Lowest(X)
    OBVIOUS
  <2>2. l \in X /\ l <= n
    BY <1>1, <1>3, <2>1, LowestFacts
  <2>3. l = n
    BY <1>1, <2>2
  <2> QED BY <2>1, <2>3 DEF Last
<1> QED BY <1>1, <1>2, <1>3 DEF Ends

LEMMA RiseStarts ==
    ASSUME NEW h \in Heaps, NEW i \in Slot
    PROVE  i \in Climb(h, i) /\ Rise(h, i, i) = h
<1>1. i \in Line(i) /\ i \in Nat
  BY LineFacts, SlotFacts
<1>2. {j \in Line(i) : i <= j} = {i}
  <2>1. \A j \in Line(i) : j \in Nat /\ j <= i
    BY LineFacts, SlotFacts
  <2>2. \A j \in Line(i) : i <= j => j = i
    BY <1>1, <2>1
  <2>3. i <= i
    BY <1>1
  <2> QED BY <1>1, <2>2, <2>3
<1>3. Ends({i}, "bubble", i)
  BY <1>1, <1>2, RiseEnds
<1>4. Up[i] # i
  BY <1>1 DEF Up, Parent
<1>5. Trip(h, {i}, i, Up, "bubble") = h
  BY <1>3, <1>4, TripStart
<1> QED BY <1>2, <1>5, ClimbFacts DEF Rise

(* The closed form is the whole trip.                                      *)
LEMMA BubbleIsTrip ==
    ASSUME NEW h, NEW i \in Slot
    PROVE  Bubble(h, i) = Trip(h, Climb(h, i), i, Up, "bubble")
<1>1. PICK path : path = Climb(h, i)
  OBVIOUS
<1>2. PICK s : s = [j \in Slot |-> IF j \notin path THEN h.slot[j]
                                  ELSE IF Parent(j) \in path THEN h.slot[Parent(j)]
                                  ELSE h.slot[i]]
  OBVIOUS
<1>3. \A j \in Slot : Up[j] = Parent(j)
  BY DEF Up
<1>4. Shifted(h, path, i, Up) = s
  BY <1>2, <1>3 DEF Shifted
<1>5. Bubble(h, i) = [h EXCEPT !.slot = s, !.head = Track(h, path, s, "bubble")]
  BY <1>1, <1>2 DEF Bubble
<1> QED BY <1>1, <1>4, <1>5 DEF Trip

LEMMA RiseSteps ==
    ASSUME NEW h \in Heaps, NEW i \in Slot, NEW n \in Climb(h, i), NEW g, g = Rise(h, i, n),
           NEW on, on = (n > 0 /\ g.size > 0 /\ g.slot[n].when < g.slot[Parent(n)].when)
    PROVE  /\ g \in Heaps
           /\ on => Parent(n) \in Climb(h, i) /\ Swap(g, n, Parent(n)) = Rise(h, i, Parent(n))
           /\ ~ on => n = Top(h, i) /\ g = Bubble(h, i)
<1>0. PICK path, s, m : /\ path = {j \in Line(i) : n <= j} /\ s = Shifted(h, path, i, Up)
                        /\ m = Parent(n)
  OBVIOUS
<1>1. n \in Line(i) /\ n \in Slot /\ n \in Nat /\ i \in Nat
  BY LineFacts, SlotFacts DEF Climb
<1>2. path \in SUBSET Slot /\ n \in path /\ Ends(path, "bubble", n)
  BY <1>0, <1>1, RiseEnds
<1>3. g \in Heaps /\ g.size = h.size /\ g.slot = s
  BY <1>0, <1>2, TripFacts DEF Rise
<1>4. \A k \in Line(i) : n <= k /\ k < i => h.size > 0 /\ h.slot[i].when < h.slot[k].when
  BY DEF Climb
<1>5. n > 0 => m \in Slot /\ m \in Nat /\ m < n /\ m \in Line(i) /\ m \notin path
  BY <1>0, <1>1, SlotFacts, ParentFacts, LineFacts DEF Upward
<1>6. m \notin path
  <2>1. ~ (n <= Parent(n))
    BY <1>1 DEF Parent
  <2> QED BY <1>0, <2>1
<1>7. s[n] = h.slot[i] /\ (n > 0 => s[m] = h.slot[m])
  <2>1. Up[n] = m
    BY <1>0, <1>1 DEF Up
  <2>2. MovedAlong(s, h, path, i, Up)
    BY <1>0, <1>2, ShiftedFacts
  <2> QED BY <1>0, <1>2, <1>5, <1>6, <2>1, <2>2 DEF MovedAlong
<1>8. on = (n > 0 /\ h.size > 0 /\ h.slot[i].when < h.slot[m].when)
  BY <1>0, <1>3, <1>7
<1>9. ASSUME on PROVE Parent(n) \in Climb(h, i) /\ Swap(g, n, Parent(n)) = Rise(h, i, Parent(n))
  <2>1. m \in Slot /\ m \in Nat /\ m < n /\ m \in Line(i) /\ n > 0
    BY <1>5, <1>8, <1>9
  <2>2. \A k \in Line(i) : m <= k /\ k < n => k = m
    <3> SUFFICES ASSUME NEW k \in Line(i), m <= k, k < n PROVE k = m
      OBVIOUS
    <3>1. k \in Slot /\ k \in Nat
      BY LineFacts, SlotFacts
    <3>2. k \in Line(n)
      BY <1>1, <3>1, LineLinear
    <3>3. k \in Line(m)
      BY <1>0, <1>1, <2>1, <3>1, <3>2, LineStep
    <3>4. k <= m
      BY <2>1, <3>3, LineFacts
    <3> QED BY <2>1, <3>1, <3>4
  <2>3. m \in Climb(h, i)
    <3> SUFFICES ASSUME NEW k \in Line(i), m <= k, k < i
                 PROVE  h.size > 0 /\ h.slot[i].when < h.slot[k].when
      BY <2>1 DEF Climb
    <3>1. k \in Nat
      BY LineFacts, SlotFacts
    <3>2. CASE n <= k
      BY <1>4, <3>2
    <3>3. CASE k < n
      BY <1>8, <1>9, <2>2, <3>3
    <3> QED BY <1>1, <3>1, <3>2, <3>3
  <2>4. {j \in Line(i) : m <= j} = path \cup {m}
    <3>1. \A j \in Line(i) : j \in Nat
      BY LineFacts, SlotFacts
    <3>2. \A j \in Line(i) : m <= j <=> n <= j \/ j = m
      <4> TAKE j \in Line(i)
      <4>1. n <= j => m <= j
        BY <1>1, <2>1, <3>1
      <4>2. m <= j /\ ~ (n <= j) => j = m
        BY <1>1, <2>2, <3>1
      <4>3. j = m => m <= j
        BY <2>1
      <4> QED BY <4>1, <4>2, <4>3
    <3> QED BY <1>0, <2>1, <3>2
  <2>5. Ends(path \cup {m}, "bubble", m)
    BY <2>1, <2>4, RiseEnds
  <2>6. Up[n] = m
    BY <1>0, <1>1 DEF Up
  <2>7. Up[m] \notin path \cup {m}
    <3>1. ~ (m <= Parent(m))
      BY <2>1 DEF Parent
    <3>2. Up[m] = Parent(m)
      BY <2>1 DEF Up
    <3>3. \A j \in path \cup {m} : m <= j
      BY <2>4
    <3> QED BY <3>1, <3>2, <3>3
  <2>8. \A j \in path : j # n => Up[j] # m
    <3> SUFFICES ASSUME NEW j \in path, j # n, Parent(j) = m PROVE FALSE
      BY <1>2 DEF Up
    <3>1. j \in Slot /\ j \in Nat /\ j \in Line(i) /\ n < j
      BY <1>0, <1>1, <1>2, SlotFacts
    <3>2. n \in Line(j)
      BY <1>1, <3>1, LineLinear
    <3>3. n \in Line(m)
      BY <1>1, <3>1, <3>2, LineStep
    <3>4. n <= m
      BY <2>1, <3>3, LineFacts
    <3> QED BY <1>1, <2>1, <3>4
  <2>9. PICK wider : wider = path \cup {m}
    OBVIOUS
  <2>10. Grows(path, wider, "bubble", n, m)
    BY <1>2, <1>6, <2>5, <2>9 DEF Grows
  <2>11. Follows(Up, path, wider, n, m)
    BY <2>6, <2>7, <2>8, <2>9 DEF Follows
  <2>12. g = Trip(h, path, i, Up, "bubble")
    BY <1>0 DEF Rise
  <2>13. Swap(g, n, m) = Trip(h, wider, i, Up, "bubble")
    <3>1. GoesOn(h, path, wider, i, Up, "bubble", n, m)
      BY <1>2, <2>1, <2>10, <2>11 DEF GoesOn
    <3> QED BY <2>12, <3>1, TripGoesOn
  <2> QED BY <1>0, <2>3, <2>4, <2>9, <2>13 DEF Rise
<1>10. ASSUME ~ on PROVE n = Top(h, i) /\ g = Bubble(h, i)
  <2>1. ASSUME NEW j \in Climb(h, i), j < n PROVE FALSE
    <3>1. j \in Line(i) /\ j \in Nat /\ n > 0
      <4>1. j \in Line(i)
        BY DEF Climb
      <4>2. j \in Nat
        BY <4>1, LineFacts, SlotFacts
      <4> QED BY <1>1, <2>1, <4>1, <4>2
    <3>2. j \in Line(n)
      BY <1>1, <2>1, <3>1, LineLinear
    <3>3. j \in Line(m)
      BY <1>0, <1>1, <2>1, <3>1, <3>2, LineStep
    <3>4. j <= m /\ m < i
      <4>1. n <= i
        BY <1>1, LineFacts
      <4> QED BY <1>1, <1>5, <3>1, <3>3, <4>1, LineFacts
    <3>5. h.size > 0 /\ h.slot[i].when < h.slot[m].when
      BY <1>5, <3>1, <3>4 DEF Climb
    <3> QED BY <1>8, <1>10, <3>1, <3>5
  <2>2. Climb(h, i) \in SUBSET Slot /\ Climb(h, i) \in SUBSET Nat
    BY ClimbFacts, SlotFacts
  <2>3. n = Top(h, i)
    <3>1. PICK t : t = Top(h, i)
      OBVIOUS
    <3>2. t \in Climb(h, i) /\ t <= n /\ t \in Nat
      BY <2>2, <3>1, LowestFacts DEF Top
    <3> QED BY <1>1, <2>1, <3>1, <3>2
  <2>4. Climb(h, i) = path
    <3>1. \A j \in Climb(h, i) : j \in path
      BY <1>0, <1>1, <2>1, <2>2 DEF Climb
    <3>2. ASSUME NEW j \in path PROVE j \in Climb(h, i)
      <4>1. j \in Slot /\ j \in Line(i) /\ n <= j /\ j \in Nat /\ \A k \in Line(i) : k \in Nat
        BY <1>0, <1>2, LineFacts, SlotFacts
      <4>2. \A k \in Line(i) : j <= k => n <= k
        BY <1>1, <4>1
      <4> QED BY <1>4, <4>1, <4>2 DEF Climb
    <3> QED BY <3>1, <3>2
  <2>5. g = Bubble(h, i)
    BY <1>0, <2>4, BubbleIsTrip DEF Rise
  <2> QED BY <2>3, <2>5
<1> QED BY <1>3, <1>9, <1>10

(* The element at i on its way down, come to n.                            *)
Down(h) == [j \in Slot |-> Best(h, j)]
Descent(i, n) == {j \in Line(n) : i <= j}
Sunk(h, i, n) == Trip(h, Descent(i, n), i, Down(h), "sink")

LEMMA DescentEnds ==
    ASSUME NEW i \in Slot, NEW n \in Slot, i \in Line(n), NEW path, path = Descent(i, n)
    PROVE  path \in SUBSET Slot /\ n \in path /\ Ends(path, "sink", n) /\ \A j \in path : j <= n
<1>1. path \in SUBSET Slot /\ \A j \in path : j <= n /\ j \in Nat
  BY LineFacts, SlotFacts DEF Descent
<1>2. n \in path
  BY LineFacts, SlotFacts DEF Descent
<1>3. ASSUME NEW X \in SUBSET path, n \in X PROVE Last(X, "sink") = n
  <2>1. PICK l : l = Highest(X)
    OBVIOUS
  <2>2. l \in X /\ n <= l
    <3>1. X \in SUBSET Slot /\ X # {}
      BY <1>1, <1>3
    <3> QED BY <1>3, <2>1, <3>1, HighestFacts
  <2>3. l = n
    BY <1>1, <1>2, <2>2
  <2> QED BY <2>1, <2>3 DEF Last
<1> QED BY <1>1, <1>2, <1>3 DEF Ends

LEMMA SunkStarts ==
    ASSUME NEW h \in Heaps, NEW i \in Slot
    PROVE  i \in Fall(h, i) /\ Sunk(h, i, i) = h
<1>1. i \in Line(i) /\ i \in Nat
  BY LineFacts, SlotFacts
<1>2. Descent(i, i) = {i}
  <2>1. \A j \in Line(i) : j \in Nat /\ j <= i
    BY LineFacts, SlotFacts
  <2>2. \A j \in Line(i) : i <= j => j = i
    BY <1>1, <2>1
  <2>3. i <= i
    BY <1>1
  <2> QED BY <1>1, <2>2, <2>3 DEF Descent
<1>3. Ends({i}, "sink", i)
  BY <1>1, <1>2, DescentEnds
<1>4. Down(h)[i] # i
  BY <1>1 DEF Down, Best, Left, Right
<1>5. Trip(h, {i}, i, Down(h), "sink") = h
  BY <1>3, <1>4, TripStart
<1> QED BY <1>2, <1>5 DEF Sunk, Fall

LEMMA SinkIsTrip ==
    ASSUME NEW h, NEW i \in Slot
    PROVE  Sink(h, i) = Trip(h, Fall(h, i), i, Down(h), "sink")
<1>1. PICK path : path = Fall(h, i)
  OBVIOUS
<1>2. PICK s : s = [j \in Slot |-> IF j \notin path THEN h.slot[j]
                                  ELSE IF Best(h, j) \in path THEN h.slot[Best(h, j)]
                                  ELSE h.slot[i]]
  OBVIOUS
<1>3. \A j \in Slot : Down(h)[j] = Best(h, j)
  BY DEF Down
<1>4. Shifted(h, path, i, Down(h)) = s
  BY <1>2, <1>3 DEF Shifted
<1>5. Sink(h, i) = [h EXCEPT !.slot = s, !.head = Track(h, path, s, "sink")]
  BY <1>1, <1>2 DEF Sink
<1> QED BY <1>1, <1>4, <1>5 DEF Trip

(* A slot on a line is the last of it or the parent of another.            *)
LEMMA LineGoesOn ==
    ASSUME NEW j \in Slot, NEW k \in Line(j), k # j
    PROVE  \E c \in Line(j) : c > 0 /\ Parent(c) = k
<1> DEFINE T == {l \in Line(j) : l = j \/ \E c \in Line(j) : c > 0 /\ Parent(c) = l}
<1>1. T \in SUBSET Slot /\ j \in T
  BY LineFacts
<1>2. Upward(T)
  <2> SUFFICES ASSUME NEW l \in T, l > 0 PROVE Parent(l) \in T
    BY DEF Upward
  <2>1. Parent(l) \in Line(j)
    BY LineFacts DEF Upward
  <2> QED BY <2>1
<1>3. Line(j) \subseteq T
  BY <1>1, <1>2, LineFacts
<1> QED BY <1>3

LEMMA BestIs ==
    ASSUME NEW h, NEW j \in Nat
    PROVE  /\ Best(h, j) \in {Left(j), Right(j)} /\ Best(h, j) \in Nat /\ Best(h, j) > j
           /\ Best(h, j) > 0 /\ Parent(Best(h, j)) = j
<1>1. Best(h, j) \in {Left(j), Right(j)}
  BY DEF Best
<1>2. Best(h, j) \in Nat /\ Best(h, j) > j /\ Best(h, j) > 0
  BY <1>1 DEF Left, Right
<1> QED BY <1>1, <1>2, ParentFacts

(* The element falls where the closed form says, and where it stays the    *)
(* closed form ends.                                                       *)
LEMMA FallGoesOn ==
    ASSUME NEW h \in Heaps, NEW i \in Slot, NEW n \in Fall(h, i), NEW b, b = Best(h, n),
           Left(n) < h.size, h.slot[i].when > h.slot[b].when
    PROVE  b \in Fall(h, i) /\ b \in Slot /\ Descent(i, b) = Descent(i, n) \cup {b}
<1>1. h.size \in 0 .. Cap /\ n \in Slot /\ n \in Nat /\ i \in Nat /\ i \in Line(n)
  BY FallFacts, SlotFacts, LineFacts DEF Heaps, Fall
<1>2. b \in Slot /\ b < h.size /\ b \in Nat /\ b > n /\ b > 0 /\ Parent(b) = n
  BY <1>1, BestIs, BestFacts
<1>3. Line(b) = {b} \cup Line(n)
  BY <1>2, LineStep
<1>4. i <= n
  BY <1>1, LineFacts
<1>5. Descent(i, b) = Descent(i, n) \cup {b}
  <2>1. i <= b
    BY <1>1, <1>2, <1>4
  <2> QED BY <1>3, <2>1 DEF Descent
<1>6. ASSUME NEW k \in Line(n), k > i PROVE k = Best(h, Parent(k)) /\ h.slot[i].when > h.slot[k].when
  <2>1. n # i
    BY <1>1, <1>6, LineFacts, SlotFacts
  <2> QED BY <1>6, <2>1 DEF Fall
<1>7. b \in 0 .. h.size - 1
  BY <1>1, <1>2
<1>8. b \in Fall(h, i)
  BY <1>1, <1>2, <1>3, <1>6, <1>7 DEF Fall
<1> QED BY <1>2, <1>5, <1>8

LEMMA FallEnds ==
    ASSUME NEW h \in Heaps, NEW i \in Slot, NEW n \in Fall(h, i), NEW b, b = Best(h, n),
           ~ (Left(n) < h.size /\ h.slot[i].when > h.slot[b].when)
    PROVE  Fall(h, i) = Descent(i, n)
<1>1. h.size \in 0 .. Cap /\ n \in Slot /\ n \in Nat /\ i \in Nat /\ i \in Line(n) /\ h.size \in Nat
  BY CapAssumption, FallFacts, SlotFacts, LineFacts DEF Heaps, Fall
<1>2. \A j \in Fall(h, i) : /\ j \in Slot /\ j \in Nat /\ i \in Line(j)
                            /\ j # i => j < h.size
                            /\ \A k \in Line(j) : k > i => /\ k = Best(h, Parent(k))
                                                          /\ h.slot[i].when > h.slot[k].when
  <2> TAKE j \in Fall(h, i)
  <2>1. j \in Slot /\ j \in Nat
    BY <1>1, FallFacts, SlotFacts
  <2>2. CASE j = i
    <3>1. \A k \in Line(j) : k \in Nat /\ k <= i
      BY <2>1, <2>2, LineFacts, SlotFacts
    <3>2. \A k \in Line(j) : ~ (k > i)
      BY <1>1, <3>1
    <3> QED BY <1>1, <2>1, <2>2, <3>2, LineFacts
  <2>3. CASE j # i
    BY <1>1, <2>1, <2>3 DEF Fall
  <2> QED BY <2>2, <2>3
<1>3. ASSUME NEW j \in Fall(h, i), j \notin Line(n) PROVE FALSE
  <2>1. j \in Slot /\ j \in Nat /\ i \in Line(j) /\ j # i
    <3>1. j # i
      BY <1>1, <1>3
    <3> QED BY <1>2, <3>1
  <2> DEFINE Both == Line(j) \cap Line(n)
  <2>2. PICK k \in Both : \A l \in Both : l <= k
    <3>1. Both \in SUBSET Slot /\ i \in Both
      BY <1>1, <2>1, LineFacts
    <3> QED BY <3>1, HighestFacts
  <2>3. k \in Slot /\ k \in Nat /\ k \in Line(j) /\ k \in Line(n) /\ k # j
    BY <1>1, <1>3, <2>2, LineFacts, SlotFacts
  <2>4. PICK c \in Line(j) : c > 0 /\ Parent(c) = k
    BY <2>1, <2>3, LineGoesOn
  <2>5. c \in Slot /\ c \in Nat /\ c > k /\ c <= j
    BY <2>1, <2>3, <2>4, LineFacts, SlotFacts, ParentFacts
  <2>6. c \notin Line(n)
    BY <2>2, <2>3, <2>5
  <2>7. i <= k
    BY <1>1, <2>1, <2>2
  <2>8. c = Best(h, k) /\ h.slot[i].when > h.slot[c].when /\ c < h.size
    <3>1. c > i
      BY <1>1, <2>3, <2>5, <2>7
    <3>2. j < h.size
      BY <1>2, <2>1
    <3> QED BY <1>1, <1>2, <2>1, <2>4, <2>5, <3>1, <3>2
  <2>9. CASE k = n
    <3>1. Left(n) <= c
      BY <2>3, <2>8, <2>9, BestIs DEF Left, Right
    <3>2. Left(n) \in Nat
      BY <1>1 DEF Left
    <3> QED BY <1>1, <2>5, <2>8, <2>9, <3>1, <3>2
  <2>10. CASE k # n
    <3>1. PICK d \in Line(n) : d > 0 /\ Parent(d) = k
      BY <1>1, <2>3, <2>10, LineGoesOn
    <3>2. d \in Nat /\ d > k
      BY <1>1, <2>3, <3>1, LineFacts, SlotFacts, ParentFacts
    <3>3. d > i
      BY <1>1, <2>3, <2>7, <3>2
    <3>4. d = Best(h, k)
      BY <1>2, <3>1, <3>3
    <3> QED BY <2>6, <2>8, <3>1, <3>4
  <2> QED BY <2>9, <2>10
<1>4. \A j \in Fall(h, i) : j \in Descent(i, n)
  <2> TAKE j \in Fall(h, i)
  <2>1. j \in Line(n)
    BY <1>3
  <2>2. i <= j
    <3>1. j \in Slot /\ i \in Line(j)
      BY <1>2
    <3> QED BY <3>1, LineFacts
  <2> QED BY <2>1, <2>2 DEF Descent
<1>5. ASSUME NEW j \in Descent(i, n) PROVE j \in Fall(h, i)
  <2>1. j \in Line(n) /\ i <= j /\ j \in Slot /\ j \in Nat /\ j <= n
    BY <1>1, LineFacts, SlotFacts DEF Descent
  <2>2. i \in Line(j)
    BY <1>1, <2>1, LineLinear
  <2>3. Line(j) \subseteq Line(n)
    BY <1>1, <2>1, LineFacts
  <2>4. CASE j = i
    BY <2>4 DEF Fall
  <2>5. CASE j # i
    <3>1. n # i /\ n < h.size
      BY <1>1, <1>2, <2>1, <2>5
    <3>2. j \in 0 .. h.size - 1
      BY <1>1, <2>1, <3>1
    <3>3. \A k \in Line(j) : k > i => k = Best(h, Parent(k)) /\ h.slot[i].when > h.slot[k].when
      BY <1>2, <2>3
    <3> QED BY <2>2, <3>2, <3>3 DEF Fall
  <2> QED BY <2>4, <2>5
<1> QED BY <1>4, <1>5

LEMMA SunkSteps ==
    ASSUME NEW h \in Heaps, NEW i \in Slot, NEW n \in Fall(h, i), NEW g, g = Sunk(h, i, n),
           NEW b, b = Best(g, n), NEW on, on = (Left(n) < g.size /\ g.slot[n].when > g.slot[b].when)
    PROVE  /\ g \in Heaps
           /\ on => b \in Fall(h, i) /\ Swap(g, n, b) = Sunk(h, i, b)
           /\ ~ on => g = Sink(h, i)
<1>1. h.size \in 0 .. Cap /\ h.size \in Nat /\ n \in Slot /\ n \in Nat /\ i \in Line(n)
  BY CapAssumption, FallFacts, SlotFacts, LineFacts DEF Heaps, Fall
<1>2. PICK path, s, from : path = Descent(i, n) /\ from = Down(h) /\ s = Shifted(h, path, i, from)
  OBVIOUS
<1>3. path \in SUBSET Slot /\ n \in path /\ Ends(path, "sink", n) /\ \A j \in path : j <= n
  <2>1. PICK k \in Slot : k = n
    BY <1>1
  <2>2. i \in Line(k) /\ path = Descent(i, k)
    BY <1>1, <1>2, <2>1
  <2>3. path \in SUBSET Slot /\ k \in path /\ Ends(path, "sink", k) /\ \A j \in path : j <= k
    BY <2>2, DescentEnds
  <2> QED BY <2>1, <2>3
<1>4. g = Trip(h, path, i, from, "sink")
  BY <1>2 DEF Sunk
<1>5. g \in Heaps /\ g.size = h.size /\ g.slot = s
  BY <1>2, <1>3, <1>4, TripFacts
<1>6. MovedAlong(s, h, path, i, from)
  BY <1>2, <1>3, ShiftedFacts
<1>7. \A j \in Slot : from[j] = Best(h, j)
  BY <1>2 DEF Down
<1>8. \A j \in Nat : j > n => j \notin path
  BY <1>1, <1>3
<1>9. s[n] = h.slot[i]
  <2>1. from[n] \notin path
    BY <1>1, <1>7, <1>8, BestIs
  <2> QED BY <1>3, <1>6, <2>1 DEF MovedAlong
<1>10. \A j \in Slot : j > n => s[j] = h.slot[j]
  BY <1>6, <1>8, SlotFacts DEF MovedAlong
<1>11. b = Best(h, n) /\ b \in {Left(n), Right(n)} /\ b \in Nat /\ b > n
  <2>1. Left(n) \in Nat /\ Right(n) \in Nat /\ Left(n) > n /\ Right(n) > n /\ Left(n) < Right(n)
    BY <1>1 DEF Left, Right
  <2>2. ASSUME Right(n) < h.size
        PROVE  g.slot[Left(n)] = h.slot[Left(n)] /\ g.slot[Right(n)] = h.slot[Right(n)]
    <3>1. Left(n) \in Slot /\ Right(n) \in Slot
      BY <1>1, <2>1, <2>2, CapAssumption DEF Slot
    <3> QED BY <1>5, <1>10, <2>1, <3>1
  <2>3. Best(g, n) = Best(h, n)
    BY <1>5, <2>2 DEF Best
  <2> QED BY <1>1, <2>3, BestIs
<1>12. Left(n) < h.size => b \in Slot /\ s[b] = h.slot[b]
  BY <1>1, <1>10, <1>11, BestFacts
<1>13. on <=> Left(n) < h.size /\ h.slot[i].when > h.slot[b].when
  BY <1>5, <1>9, <1>12
<1>14. ASSUME on PROVE b \in Fall(h, i) /\ Swap(g, n, b) = Sunk(h, i, b)
  <2>1. PICK wider : wider = Descent(i, b)
    OBVIOUS
  <2>2. b \in Fall(h, i) /\ b \in Slot /\ wider = path \cup {b}
    BY <1>2, <1>11, <1>13, <1>14, <2>1, FallGoesOn
  <2>3. i \in Line(b)
    BY <2>2, LineFacts DEF Fall
  <2>4. Ends(wider, "sink", b) /\ \A j \in wider : j <= b
    BY <2>1, <2>2, <2>3, DescentEnds
  <2>5. Grows(path, wider, "sink", n, b)
    BY <1>3, <1>8, <1>11, <2>2, <2>4 DEF Grows
  <2>6. from[n] = b
    BY <1>1, <1>7, <1>11
  <2>7. from[b] \notin wider
    <3>1. from[b] \in Nat /\ from[b] > b
      BY <1>7, <1>11, <2>2, BestIs
    <3> QED BY <1>11, <2>4, <3>1
  <2>8. \A j \in path : j # n => from[j] # b
    <3> SUFFICES ASSUME NEW j \in path, from[j] = b PROVE j = n
      OBVIOUS
    <3>1. j \in Slot /\ j \in Nat
      BY <1>3, SlotFacts
    <3>2. Parent(b) = j
      BY <1>7, <3>1, BestIs
    <3>3. Parent(b) = n
      BY <1>1, <1>11, BestIs
    <3> QED BY <3>2, <3>3
  <2>9. Follows(from, path, wider, n, b)
    BY <2>6, <2>7, <2>8 DEF Follows
  <2>10. Swap(g, n, b) = Trip(h, wider, i, from, "sink")
    <3>1. GoesOn(h, path, wider, i, from, "sink", n, b)
      BY <1>3, <2>2, <2>5, <2>9 DEF GoesOn
    <3> QED BY <1>4, <3>1, TripGoesOn
  <2> QED BY <1>2, <2>1, <2>2, <2>10 DEF Sunk
<1>15. ASSUME ~ on PROVE g = Sink(h, i)
  <2>1. Fall(h, i) = path
    BY <1>2, <1>11, <1>13, <1>15, FallEnds
  <2> QED BY <1>2, <1>4, <2>1, SinkIsTrip
<1> QED BY <1>5, <1>14, <1>15

(* Heap has the operators of HeapOps from an instance of its own.          *)
LEMMA SameLines ==
    /\ Whole!Slot = Slot /\ Whole!Lines = Lines
    /\ \A i : /\ Whole!Parent(i) = Parent(i) /\ Whole!Left(i) = Left(i) /\ Whole!Right(i) = Right(i)
              /\ Whole!Line(i) = Line(i)
    /\ \A S : Whole!Lowest(S) = Lowest(S) /\ Whole!Highest(S) = Highest(S)
    /\ \A S, loop : Whole!Last(S, loop) = Last(S, loop)
<1>1. Whole!Slot = Slot
  BY DEF Slot, Whole!Slot
<1>2. \A i : Whole!Parent(i) = Parent(i) /\ Whole!Left(i) = Left(i) /\ Whole!Right(i) = Right(i)
  BY Zenon DEF Parent, Left, Right, Whole!Parent, Whole!Left, Whole!Right
<1>3. \A S : Whole!Upward(S) <=> Upward(S)
  BY <1>2, Zenon DEF Upward, Whole!Upward
<1>4. Whole!Lines = Lines
  <2> DEFINE In(S) == {j \in Slot : \A T \in SUBSET Slot : S \in T /\ Upward(T) => j \in T}
             Too(S) == {j \in Slot : \A T \in SUBSET Slot : S \in T /\ Whole!Upward(T) => j \in T}
  <2>1. \A i : In(i) = Too(i)
    BY <1>3
  <2>2. Lines = [i \in Slot |-> In(i)] /\ Whole!Lines = [i \in Slot |-> Too(i)]
    BY <1>1, Zenon DEF Lines, Whole!Lines
  <2> HIDE DEF In, Too
  <2> QED BY <2>1, <2>2
<1>5. \A i : Whole!Line(i) = Line(i)
  BY <1>4, Zenon DEF Line, Whole!Line
<1>6. \A S : Whole!Lowest(S) = Lowest(S) /\ Whole!Highest(S) = Highest(S)
  BY Zenon DEF Lowest, Highest, Whole!Lowest, Whole!Highest
<1>7. \A S, loop : Whole!Last(S, loop) = Last(S, loop)
  BY <1>6, Zenon DEF Last, Whole!Last
<1> QED BY <1>1, <1>2, <1>4, <1>5, <1>6, <1>7

LEMMA SameTrips ==
    /\ \A h, i : Whole!Bubble(h, i) = Bubble(h, i) /\ Whole!Top(h, i) = Top(h, i)
    /\ \A h, i : Whole!Sink(h, i) = Sink(h, i)
<1>1. \A h, i : Whole!Climb(h, i) = Climb(h, i)
  <2> TAKE h, i
  <2>1. PICK line : line = Line(i) /\ line = Whole!Line(i)
    BY SameLines
  <2> QED BY <2>1 DEF Climb, Whole!Climb
<1>2. \A h, i : Whole!Top(h, i) = Top(h, i)
  BY <1>1, SameLines, Zenon DEF Top, Whole!Top
<1>3. \A h, path, slot, loop : Whole!Track(h, path, slot, loop) = Track(h, path, slot, loop)
  <2> TAKE h, path, slot, loop
  <2> DEFINE At(p) == {j \in path : slot[j].pid = p}
             One(p) == IF path # {Last(path, loop)} /\ At(p) # {} THEN Last(At(p), loop)
                       ELSE h.head[p]
             Two(p) == IF path # {Whole!Last(path, loop)} /\ At(p) # {}
                       THEN Whole!Last(At(p), loop) ELSE h.head[p]
  <2>1. \A p : One(p) = Two(p)
    <3> HIDE DEF At
    <3> QED BY SameLines, Zenon
  <2>2. /\ Track(h, path, slot, loop) = [p \in DOMAIN h.head |-> One(p)]
        /\ Whole!Track(h, path, slot, loop) = [p \in DOMAIN h.head |-> Two(p)]
    BY Zenon DEF Track, Whole!Track
  <2> HIDE DEF One, Two
  <2> QED BY <2>1, <2>2
<1>4. \A h, i : Whole!Bubble(h, i) = Bubble(h, i)
  <2> TAKE h, i
  <2>1. PICK path : path = Climb(h, i) /\ path = Whole!Climb(h, i)
    BY <1>1
  <2>2. PICK s : /\ s = [j \in Slot |-> IF j \notin path THEN h.slot[j]
                                        ELSE IF Parent(j) \in path THEN h.slot[Parent(j)]
                                        ELSE h.slot[i]]
                 /\ s = [j \in Whole!Slot |-> IF j \notin path THEN h.slot[j]
                                        ELSE IF Whole!Parent(j) \in path THEN h.slot[Whole!Parent(j)]
                                        ELSE h.slot[i]]
    BY SameLines
  <2>3. PICK k : k = Track(h, path, s, "bubble") /\ k = Whole!Track(h, path, s, "bubble")
    BY <1>3
  <2>4. Bubble(h, i) = [h EXCEPT !.slot = s, !.head = k]
    BY <2>1, <2>2, <2>3 DEF Bubble
  <2>5. Whole!Bubble(h, i) = [h EXCEPT !.slot = s, !.head = k]
    BY <2>1, <2>2, <2>3 DEF Whole!Bubble
  <2> QED BY <2>4, <2>5
<1>5. \A h, j : Whole!Best(h, j) = Best(h, j)
  BY SameLines, Zenon DEF Best, Whole!Best
<1>6. \A h, i : Whole!Fall(h, i) = Fall(h, i)
  <2> TAKE h, i
  <2>1. \A j : Whole!Line(j) = Line(j) /\ Whole!Parent(j) = Parent(j)
    BY SameLines
  <2> QED BY <1>5, <2>1 DEF Fall, Whole!Fall
<1>7. \A h, i : Whole!Sink(h, i) = Sink(h, i)
  <2> TAKE h, i
  <2>1. PICK path : path = Fall(h, i) /\ path = Whole!Fall(h, i)
    BY <1>6
  <2>2. PICK s : /\ s = [j \in Slot |-> IF j \notin path THEN h.slot[j]
                                        ELSE IF Best(h, j) \in path THEN h.slot[Best(h, j)]
                                        ELSE h.slot[i]]
                 /\ s = [j \in Whole!Slot |-> IF j \notin path THEN h.slot[j]
                                        ELSE IF Whole!Best(h, j) \in path THEN h.slot[Whole!Best(h, j)]
                                        ELSE h.slot[i]]
    BY <1>5, SameLines
  <2>3. PICK k : k = Track(h, path, s, "sink") /\ k = Whole!Track(h, path, s, "sink")
    BY <1>3
  <2>4. Sink(h, i) = [h EXCEPT !.slot = s, !.head = k]
    BY <2>1, <2>2, <2>3 DEF Sink
  <2>5. Whole!Sink(h, i) = [h EXCEPT !.slot = s, !.head = k]
    BY <2>1, <2>2, <2>3 DEF Whole!Sink
  <2> QED BY <2>4, <2>5
<1> QED BY <1>2, <1>4, <1>7

LEMMA SameOperations ==
    /\ \A h, e : Whole!HeapPut(h, e) = HeapPut(h, e) /\ Whole!PutAt(h, e) = PutAt(h, e)
    /\ \A h, i : Whole!HeapDelete(h, i) = HeapDelete(h, i) /\ Whole!Readjust(h, i) = Readjust(h, i)
<1>1. \A h, e : Whole!Pushed(h, e) = Pushed(h, e)
  BY Zenon DEF Pushed, Whole!Pushed
<1>2. \A h, e : Whole!HeapPut(h, e) = HeapPut(h, e) /\ Whole!PutAt(h, e) = PutAt(h, e)
  BY <1>1, SameTrips, Zenon DEF HeapPut, PutAt, Whole!HeapPut, Whole!PutAt
<1>3. \A h, i : Whole!Readjust(h, i) = Readjust(h, i)
  BY SameTrips, Zenon DEF Readjust, Whole!Readjust
<1>4. \A h, i : Whole!Popped(h, i) = Popped(h, i)
  BY Zenon DEF Popped, Whole!Popped
<1>5. \A h, i : Whole!HeapDelete(h, i) = HeapDelete(h, i)
  BY <1>3, <1>4, Zenon DEF HeapDelete, Whole!HeapDelete
<1> QED BY <1>2, <1>3, <1>5

LEMMA BubbleTyped ==
    ASSUME NEW h \in Heaps, NEW i \in Slot
    PROVE  Bubble(h, i) \in Heaps
<1>1. Climb(h, i) \in SUBSET Slot
  BY ClimbFacts
<1>2. Bubble(h, i) = Trip(h, Climb(h, i), i, Up, "bubble")
  BY BubbleIsTrip
<1>3. PICK path \in SUBSET Slot : path = Climb(h, i)
  BY <1>1
<1>4. PICK loop \in {"bubble", "sink"} : loop = "bubble"
  OBVIOUS
<1>5. PICK t, s : t = Trip(h, path, i, Up, loop) /\ s = Shifted(h, path, i, Up)
  OBVIOUS
<1>6. t \in Heaps
  BY <1>5, TripFacts
<1> QED BY <1>2, <1>3, <1>4, <1>5, <1>6

(* put sets the owner's pointer where it pushes, before the loop, and the  *)
(* closed form where the element came to.                                  *)
LEMMA PutEnds ==
    ASSUME NEW q \in Heaps, NEW id \in Ids, NEW t \in Nat, q.size < Cap,
           NEW e, e = [when |-> t, pid |-> id]
    PROVE  Bubble(PushFor(q, id, t), q.size) = [HeapPut(q, e) EXCEPT !.head[id] = PutAt(q, e)]
<1>1. PICK h, g, i : h = PushFor(q, id, t) /\ g = Pushed(q, e) /\ i = q.size
  OBVIOUS
<1>2. /\ i \in Slot /\ i + 1 \in 0 .. Cap /\ e \in [when : Nat, pid : Ids \cup {None}]
  BY <1>1, CapAssumption DEF Heaps, Slot
<1>3. g \in Heaps /\ g.size = i + 1 /\ g.slot[i] = e /\ g.head = q.head
  BY <1>1, <1>2 DEF Pushed, Heaps
<1>4. h = [g EXCEPT !.head[id] = i]
  BY <1>1 DEF PushFor
<1>5. /\ h \in Heaps /\ h.slot = g.slot /\ h.size = g.size /\ h.head[id] = i
      /\ \A p \in Ids : p # id => h.head[p] = g.head[p]
  BY <1>2, <1>3, <1>4 DEF Heaps
<1>6. PICK path, top : path = Climb(g, i) /\ top = Top(g, i)
  OBVIOUS
<1>7. path = Climb(h, i)
  BY <1>5, <1>6 DEF Climb
<1>8. path \in SUBSET Slot /\ i \in path /\ path \in SUBSET Nat
  BY <1>2, <1>6, ClimbFacts, SlotFacts
<1>9. top \in path /\ \A k \in path : top <= k
  BY <1>6, <1>8, LowestFacts DEF Top
<1>10. PICK s : s = Shifted(g, path, i, Up)
  OBVIOUS
<1>11. s = Shifted(h, path, i, Up)
  BY <1>5, <1>10 DEF Shifted
<1>12. s[top] = e
  <2>1. MovedAlong(s, g, path, i, Up)
    BY <1>2, <1>3, <1>8, <1>10, ShiftedFacts
  <2>2. Up[top] \notin path
    <3>1. top \in Slot /\ top \in Nat
      BY <1>8, <1>9
    <3>2. Up[top] = Parent(top) /\ ~ (top <= Parent(top))
      BY <3>1 DEF Up, Parent
    <3> QED BY <1>9, <3>2
  <2> QED BY <1>3, <1>9, <2>1, <2>2 DEF MovedAlong
<1>13. PICK b, u : b = Bubble(h, i) /\ u = Bubble(g, i)
  OBVIOUS
<1>14. /\ b \in Heaps /\ b.size = h.size /\ b.slot = s /\ b.head = Track(h, path, s, "bubble")
       /\ u \in Heaps /\ u.size = g.size /\ u.slot = s /\ u.head = Track(g, path, s, "bubble")
  <2>1. b = Trip(h, path, i, Up, "bubble") /\ u = Trip(g, path, i, Up, "bubble")
    BY <1>2, <1>6, <1>7, <1>13, BubbleIsTrip
  <2>2. PICK loop \in {"bubble", "sink"} : loop = "bubble"
    OBVIOUS
  <2>3. b \in Heaps /\ b.size = h.size /\ b.slot = s /\ b.head = Track(h, path, s, loop)
    BY <1>2, <1>5, <1>8, <1>11, <2>1, <2>2, TripFacts
  <2>4. u \in Heaps /\ u.size = g.size /\ u.slot = s /\ u.head = Track(g, path, s, loop)
    BY <1>2, <1>3, <1>8, <1>10, <2>1, <2>2, TripFacts
  <2> QED BY <2>2, <2>3, <2>4
<1>15. \A p \in Ids : p # id => b.head[p] = u.head[p]
  <2> TAKE p \in Ids
  <2>1. Track(h, path, s, "bubble")[p] =
          IF Told(path, s, "bubble", p) THEN Last(Theirs(path, s, p), "bubble") ELSE h.head[p]
    BY <1>5, TrackIs
  <2>2. Track(g, path, s, "bubble")[p] =
          IF Told(path, s, "bubble", p) THEN Last(Theirs(path, s, p), "bubble") ELSE g.head[p]
    BY <1>3, TrackIs
  <2> QED BY <1>5, <1>14, <2>1, <2>2
<1>16. b.head[id] = top
  <2>1. Track(h, path, s, "bubble")[id] =
          IF Told(path, s, "bubble", id) THEN Last(Theirs(path, s, id), "bubble") ELSE h.head[id]
    BY <1>5, TrackIs
  <2>2. PICK at : at = Theirs(path, s, id)
    OBVIOUS
  <2>3. at \in SUBSET path /\ top \in at
    BY <1>9, <1>12, <2>2 DEF Theirs
  <2>4. PICK low : low = Lowest(at)
    OBVIOUS
  <2>5. low \in at /\ low <= top
    BY <1>8, <2>3, <2>4, LowestFacts
  <2>6. low = top
    BY <1>8, <1>9, <2>3, <2>5
  <2>7. Last(at, "bubble") = top
    BY <2>4, <2>6 DEF Last
  <2>8. ~ Told(path, s, "bubble", id) => top = i
    BY <1>8, <1>9, <2>2, <2>3 DEF Told
  <2> QED BY <1>5, <1>14, <2>1, <2>2, <2>7, <2>8
<1>17. PICK v : v = [u EXCEPT !.head[id] = top]
  OBVIOUS
<1>18. /\ v \in Heaps /\ v.size = u.size /\ v.slot = u.slot
       /\ \A p \in Ids : v.head[p] = IF p = id THEN top ELSE u.head[p]
  BY <1>8, <1>9, <1>14, <1>17 DEF Heaps
<1>19. b = v
  BY <1>5, <1>14, <1>15, <1>16, <1>18, SameHeap
<1>20. u = HeapPut(q, e) /\ top = PutAt(q, e)
  BY <1>1, <1>6, <1>13 DEF HeapPut, PutAt
<1> QED BY <1>1, <1>13, <1>17, <1>19, <1>20

-----------------------------------------------------------------------------
(* What runs is an operation: it began from q with the element at i in h,  *)
(* and promised o.                                                         *)
BegunPut(h, i, q, o) ==
    \E id \in Ids, t \in Times :
        /\ q.size < Cap /\ \A j \in 0 .. q.size - 1 : q.slot[j].pid # id
        /\ h = PushFor(q, id, t) /\ i = q.size /\ o = None

BegunPop(h, i, q, o) == q.size > 0 /\ h = Popped(q, 0) /\ i = 0 /\ o = q.slot[0]

BegunDel(h, i, q, o) ==
    /\ \/ i \in 0 .. q.size - 1
       \/ Careless /\ q.size > 0 /\ q.slot[i].pid # None
    /\ h = Popped(q, i) /\ o = None

BegunReadj(h, i, q, o) ==
    \E t \in Times : i \in 0 .. q.size - 1 /\ h = Retimed(q, i, t) /\ o = None

BegunElse(h, i, q, o) == BegunPop(h, i, q, o) \/ BegunDel(h, i, q, o) \/ BegunReadj(h, i, q, o)

Rising(h, i, g, n)  == n \in Climb(h, i) /\ g = Rise(h, i, n)
Sinking(h, i, g, n) == n \in Fall(Bubble(h, i), Top(h, i))
                       /\ g = Sunk(Bubble(h, i), Top(h, i), n)

AtWork(h, i, q, o, g, n, loop) ==
    \/ loop = "put" /\ BegunPut(h, i, q, o) /\ Rising(h, i, g, n)
    \/ loop = "bubble" /\ BegunElse(h, i, q, o) /\ Rising(h, i, g, n)
    \/ loop = "sink" /\ BegunElse(h, i, q, o) /\ Sinking(h, i, g, n)

(* The invariant behind the refinement: while a loop runs, it has carried  *)
(* its element along a part of the way that the closed form describes.     *)
LoopInv ==
    /\ pre[1] \in Heaps
    /\ pc = "idle" => pre = <<heap, out>>
    /\ pc # "idle" => \E h \in Heaps, i \in Slot : AtWork(h, i, pre[1], out, heap, node, pc)

(* Where the loops of an operation end, the operation is one of Heap's.    *)
LEMMA PutReturns ==
    ASSUME NEW h \in Heaps, NEW i \in Slot, pre[1] \in Heaps, BegunPut(h, i, pre[1], out),
           heap = Bubble(h, i), pre' = <<heap, out>>
    PROVE  Whole!Next
<1>1. PICK q \in Heaps : q = pre[1]
  OBVIOUS
<1>2. PICK id \in Ids, t \in Times :
         /\ q.size < Cap /\ \A j \in 0 .. q.size - 1 : q.slot[j].pid # id
         /\ h = PushFor(q, id, t) /\ i = q.size /\ out = None
  BY <1>1 DEF BegunPut
<1>3. PICK e : e = [when |-> t, pid |-> id]
  OBVIOUS
<1>4. t \in Nat
  BY LoopAssumption
<1>5. heap = [HeapPut(q, e) EXCEPT !.head[id] = PutAt(q, e)]
  BY <1>2, <1>3, <1>4, PutEnds
<1>6. heap = [Whole!HeapPut(q, e) EXCEPT !.head[id] = Whole!PutAt(q, e)]
  BY <1>5, SameOperations
<1>7. Whole!Held(id) = {}
  BY <1>1, <1>2 DEF Whole!Held, Whole!Live
<1>8. Whole!Put(id, t)
  BY <1>1, <1>2, <1>3, <1>6, <1>7 DEF Whole!Put
<1> QED BY <1>8 DEF Whole!Next

LEMMA ElseReturns ==
    ASSUME NEW h \in Heaps, NEW i \in Slot, pre[1] \in Heaps, BegunElse(h, i, pre[1], out),
           heap = Sink(Bubble(h, i), Top(h, i)), pre' = <<heap, out>>
    PROVE  Whole!Next
<1>1. PICK q \in Heaps : q = pre[1]
  OBVIOUS
<1>2. heap = Readjust(h, i)
  BY DEF Readjust
<1>3. CASE BegunPop(h, i, q, out)
  <2>1. heap = HeapDelete(q, 0)
    BY <1>2, <1>3 DEF BegunPop, HeapDelete
  <2>2. Whole!Pop
    BY <1>1, <1>3, <2>1, SameOperations DEF BegunPop, Whole!Pop
  <2> QED BY <2>2 DEF Whole!Next
<1>4. CASE BegunDel(h, i, q, out)
  <2>1. heap = HeapDelete(q, i)
    BY <1>2, <1>4 DEF BegunDel, HeapDelete
  <2>2. Whole!Del(i)
    BY <1>1, <1>4, <2>1, SameOperations DEF BegunDel, Whole!Del
  <2>3. i \in Whole!Deletable
    BY <1>1, <1>4, SameLines DEF BegunDel, Whole!Deletable, Whole!Live
  <2> QED BY <2>2, <2>3 DEF Whole!Next
<1>5. CASE BegunReadj(h, i, q, out)
  <2>1. PICK t \in Times : i \in 0 .. q.size - 1 /\ h = Retimed(q, i, t) /\ out = None
    BY <1>5 DEF BegunReadj
  <2>2. heap = Whole!Readjust(Retimed(q, i, t), i)
    BY <1>2, <2>1, SameOperations
  <2>3. Whole!Readj(i, t)
    BY <1>1, <2>1, <2>2 DEF Retimed, Whole!Readj
  <2>4. i \in Whole!Live
    BY <1>1, <2>1 DEF Whole!Live
  <2> QED BY <2>3, <2>4 DEF Whole!Next
<1> QED BY <1>1, <1>3, <1>4, <1>5 DEF BegunElse

(* An operation begins with its loop nowhere yet.                          *)
LEMMA BegunIsRising ==
    ASSUME NEW h \in Heaps, NEW i \in Slot, NEW q \in Heaps, NEW o,
           NEW loop, \/ loop = "put" /\ BegunPut(h, i, q, o)
                     \/ loop = "bubble" /\ BegunElse(h, i, q, o)
    PROVE  AtWork(h, i, q, o, h, i, loop)
<1>1. Rising(h, i, h, i)
  BY RiseStarts DEF Rising
<1> QED BY <1>1, Zenon DEF AtWork

LEMMA LoopsBegin ==
    ASSUME NEW h, NEW i, NEW o, NEW loop \in {"put", "bubble"}, heap \in Heaps,
           Begin(loop, h, i, o), h \in Heaps, i \in Slot,
           \/ loop = "put" /\ BegunPut(h, i, heap, o)
           \/ loop = "bubble" /\ BegunElse(h, i, heap, o)
    PROVE  LoopInv' /\ pc = "idle"
<1>1. /\ pc = "idle" /\ pc' = loop /\ heap' = h /\ node' = i /\ out' = o
      /\ pre' = <<heap, out>> /\ pre'[1] = heap
  BY DEF Begin
<1>2. PICK q \in Heaps : q = heap
  OBVIOUS
<1>3. PICK hh \in Heaps, ii \in Slot : hh = h /\ ii = i
  OBVIOUS
<1>4. AtWork(hh, ii, q, o, hh, ii, loop)
  BY <1>2, <1>3, BegunIsRising
<1> QED BY <1>1, <1>2, <1>3, <1>4 DEF LoopInv

LEMMA BegunHeaps ==
    ASSUME NEW q \in Heaps
    PROVE  /\ \A id \in Ids, t \in Times : q.size < Cap => PushFor(q, id, t) \in Heaps /\ q.size \in Slot
           /\ \A i \in Slot : q.size > 0 => Popped(q, i) \in Heaps
           /\ \A i \in Slot, t \in Times : Retimed(q, i, t) \in Heaps
<1>1. ASSUME NEW id \in Ids, NEW t \in Times, q.size < Cap
      PROVE  PushFor(q, id, t) \in Heaps /\ q.size \in Slot
  <2>1. q.size \in Slot /\ t \in Nat /\ q.size + 1 \in 0 .. Cap
    BY <1>1, CapAssumption, LoopAssumption DEF Heaps, Slot
  <2>2. PICK e \in [when : Nat, pid : Ids \cup {None}] : e = [when |-> t, pid |-> id]
    BY <2>1
  <2>3. PICK g \in Heaps : g = Pushed(q, e)
    BY <2>1 DEF Pushed, Heaps
  <2> QED BY <2>1, <2>2, <2>3 DEF PushFor, Heaps
<1>2. ASSUME NEW i \in Slot, q.size > 0
      PROVE  Popped(q, i) \in Heaps
  <2>1. q.size - 1 \in Slot /\ q.size - 1 \in 0 .. Cap
    BY <1>2, CapAssumption DEF Heaps, Slot
  <2> QED BY <2>1 DEF Popped, Heaps
<1>3. ASSUME NEW i \in Slot, NEW t \in Times
      PROVE  Retimed(q, i, t) \in Heaps
  <2>1. t \in Nat
    BY LoopAssumption
  <2> QED BY <2>1 DEF Retimed, Heaps
<1> QED BY <1>1, <1>2, <1>3

(* One iteration carries the element on, or ends the loop.                 *)
LEMMA BubbleWorks ==
    ASSUME heap \in Heaps, LoopInv, BubbleStep
    PROVE  LoopInv' /\ (pre' = pre \/ Whole!Next)
<1>1. pc \in {"put", "bubble"} /\ out' = out
  BY DEF BubbleStep
<1>2. PICK h \in Heaps, i \in Slot : AtWork(h, i, pre[1], out, heap, node, pc)
  BY <1>1 DEF LoopInv
<1>3. PICK q \in Heaps : q = pre[1]
  BY DEF LoopInv
<1>4. PICK g, n, o, loop : g = heap /\ n = node /\ o = out /\ loop = pc
  OBVIOUS
<1>5. /\ Rising(h, i, g, n)
      /\ \/ loop = "put" /\ BegunPut(h, i, q, o)
         \/ loop = "bubble" /\ BegunElse(h, i, q, o)
  BY <1>1, <1>2, <1>3, <1>4 DEF AtWork
<1>6. PICK m \in Climb(h, i) : m = n
  BY <1>5 DEF Rising
<1>7. PICK on : on = (n > 0 /\ g.size > 0 /\ g.slot[n].when < g.slot[Parent(n)].when)
  OBVIOUS
<1>8. /\ g \in Heaps
      /\ on => Parent(n) \in Climb(h, i) /\ Swap(g, n, Parent(n)) = Rise(h, i, Parent(n))
      /\ ~ on => n = Top(h, i) /\ g = Bubble(h, i)
  BY <1>5, <1>6, <1>7, RiseSteps DEF Rising
<1>9. (HasParent(node) /\ heap.slot[node].when < heap.slot[Parent(node)].when) <=> on
  BY <1>4, <1>7 DEF HasParent
<1>10. CASE on
  <2>1. heap' = Swap(heap, node, Parent(node)) /\ node' = Parent(node) /\ pc' = pc /\ pre' = pre
    BY <1>9, <1>10 DEF BubbleStep
  <2>2. PICK gg, nn : gg = Swap(g, n, Parent(n)) /\ nn = Parent(n)
    OBVIOUS
  <2>3. Rising(h, i, gg, nn)
    BY <1>8, <1>10, <2>2 DEF Rising
  <2>4. AtWork(h, i, q, o, gg, nn, loop)
    BY <1>5, <2>3 DEF AtWork
  <2>5. heap' = gg /\ node' = nn /\ pc' = loop /\ out' = o /\ pre'[1] = q /\ pc' # "idle"
    BY <1>1, <1>3, <1>4, <2>1, <2>2
  <2> QED BY <2>1, <2>4, <2>5 DEF LoopInv
<1>11. CASE ~ on /\ pc = "put"
  <2>1. Return
    BY <1>9, <1>11 DEF BubbleStep
  <2>2. pre' = <<heap, out>> /\ pc' = "idle" /\ heap' = heap
    BY <2>1 DEF Return
  <2>3. Whole!Next
    BY <1>3, <1>4, <1>5, <1>8, <1>11, <2>2, PutReturns
  <2> QED BY <1>1, <2>2, <2>3 DEF LoopInv
<1>12. CASE ~ on /\ pc = "bubble"
  <2>1. pc' = "sink" /\ heap' = heap /\ node' = node /\ pre' = pre
    BY <1>9, <1>12 DEF BubbleStep
  <2>2. n = Top(h, i) /\ g = Bubble(h, i) /\ BegunElse(h, i, q, o)
    BY <1>4, <1>5, <1>8, <1>12
  <2>3. PICK b \in Heaps, k \in Slot : b = Bubble(h, i) /\ k = Top(h, i)
    BY ClimbFacts, BubbleTyped
  <2>4. k \in Fall(b, k) /\ Sunk(b, k, k) = b
    BY SunkStarts
  <2>5. Sinking(h, i, g, n)
    BY <2>2, <2>3, <2>4 DEF Sinking
  <2>6. AtWork(h, i, q, o, g, n, "sink")
    BY <2>2, <2>5 DEF AtWork
  <2>7. heap' = g /\ node' = n /\ pc' = "sink" /\ out' = o /\ pre'[1] = q
    BY <1>1, <1>3, <1>4, <2>1
  <2> QED BY <2>1, <2>6, <2>7 DEF LoopInv
<1> QED BY <1>1, <1>10, <1>11, <1>12

LEMMA SinkWorks ==
    ASSUME heap \in Heaps, LoopInv, SinkStep
    PROVE  LoopInv' /\ (pre' = pre \/ Whole!Next)
<1>1. pc = "sink" /\ out' = out
  BY DEF SinkStep
<1>2. PICK h \in Heaps, i \in Slot : AtWork(h, i, pre[1], out, heap, node, pc)
  BY <1>1 DEF LoopInv
<1>3. PICK q \in Heaps : q = pre[1]
  BY DEF LoopInv
<1>4. PICK g, n, o : g = heap /\ n = node /\ o = out
  OBVIOUS
<1>5. Sinking(h, i, g, n) /\ BegunElse(h, i, q, o)
  BY <1>1, <1>2, <1>3, <1>4 DEF AtWork
<1>6. PICK f, k : f = Bubble(h, i) /\ k = Top(h, i)
  OBVIOUS
<1>7. f \in Heaps /\ k \in Slot
  BY <1>6, ClimbFacts, BubbleTyped
<1>8. PICK ff \in Heaps, kk \in Slot : ff = f /\ kk = k
  BY <1>7
<1>9. PICK m \in Fall(ff, kk) : m = n /\ g = Sunk(ff, kk, m)
  BY <1>5, <1>6, <1>8 DEF Sinking
<1>10. PICK b : b = Best(g, n)
  OBVIOUS
<1>11. PICK on : on = (Left(n) < g.size /\ g.slot[n].when > g.slot[b].when)
  OBVIOUS
<1>12. /\ on => b \in Fall(ff, kk) /\ Swap(g, n, b) = Sunk(ff, kk, b)
       /\ ~ on => g = Sink(ff, kk)
  BY <1>9, <1>10, <1>11, SunkSteps
<1>13. (Left(node) < heap.size /\ heap.slot[node].when > heap.slot[Best(heap, node)].when) <=> on
  BY <1>4, <1>10, <1>11
<1>14. CASE on
  <2>1. heap' = Swap(heap, node, Best(heap, node)) /\ node' = Best(heap, node)
        /\ pc' = pc /\ pre' = pre
    BY <1>13, <1>14 DEF SinkStep
  <2>2. PICK gg : gg = Swap(g, n, b)
    OBVIOUS
  <2>3. Sinking(h, i, gg, b)
    BY <1>6, <1>8, <1>12, <1>14, <2>2 DEF Sinking
  <2>4. AtWork(h, i, q, o, gg, b, "sink")
    BY <1>5, <2>3 DEF AtWork
  <2>5. heap' = gg /\ node' = b /\ pc' = "sink" /\ out' = o /\ pre'[1] = q
    BY <1>1, <1>3, <1>4, <1>10, <2>1, <2>2
  <2> QED BY <2>1, <2>4, <2>5 DEF LoopInv
<1>15. CASE ~ on
  <2>1. Return
    BY <1>13, <1>15 DEF SinkStep
  <2>2. pre' = <<heap, out>> /\ pc' = "idle" /\ heap' = heap
    BY <2>1 DEF Return
  <2>3. heap = Sink(Bubble(h, i), Top(h, i))
    BY <1>4, <1>6, <1>8, <1>12, <1>15
  <2>4. Whole!Next
    BY <1>3, <1>4, <1>5, <2>2, <2>3, ElseReturns
  <2> QED BY <1>1, <2>2, <2>4 DEF LoopInv
<1> QED BY <1>14, <1>15

LEMMA OneLoopsStep ==
    ASSUME TypeOK, LoopInv, [Next]_vars
    PROVE  LoopInv' /\ (pre' = pre \/ Whole!Next)
<1>1. heap \in Heaps
  BY DEF TypeOK
<1>2. PICK q \in Heaps : q = heap
  BY <1>1
<1>4. pc = "idle" => pre = <<heap, out>>
  BY DEF LoopInv
<1>5. CASE UNCHANGED vars
  <2>1. pre' = pre /\ heap' = heap /\ out' = out /\ pc' = pc /\ node' = node
    BY <1>5 DEF vars
  <2> QED BY <2>1 DEF LoopInv
<1>6. ASSUME NEW id \in Ids, NEW t \in Times, Put(id, t)
      PROVE  LoopInv' /\ pre' = pre
  <2>1. heap.size < Cap /\ Held(id) = {} /\ Begin("put", PushFor(heap, id, t), heap.size, None)
    BY <1>6 DEF Put
  <2>2. PushFor(q, id, t) \in Heaps /\ q.size \in Slot
    BY <1>2, <2>1, BegunHeaps
  <2>3. BegunPut(PushFor(heap, id, t), heap.size, heap, None)
    BY <2>1 DEF BegunPut, Held, Live
  <2>4. LoopInv' /\ pc = "idle"
    BY <1>1, <1>2, <2>1, <2>2, <2>3, LoopsBegin
  <2> QED BY <1>4, <2>1, <2>4 DEF Begin
<1>7. ASSUME Pop
      PROVE  LoopInv' /\ pre' = pre
  <2>1. heap.size > 0 /\ Begin("bubble", Popped(heap, 0), 0, heap.slot[0])
    BY <1>7 DEF Pop
  <2>2. Popped(q, 0) \in Heaps /\ 0 \in Slot
    BY <1>2, <2>1, BegunHeaps, SlotFacts
  <2>3. BegunElse(Popped(heap, 0), 0, heap, heap.slot[0])
    BY <2>1 DEF BegunElse, BegunPop
  <2>4. LoopInv' /\ pc = "idle"
    BY <1>1, <1>2, <2>1, <2>2, <2>3, LoopsBegin
  <2> QED BY <1>4, <2>1, <2>4 DEF Begin
<1>8. ASSUME NEW i \in Deletable, Del(i)
      PROVE  LoopInv' /\ pre' = pre
  <2>1. Begin("bubble", Popped(heap, i), i, None)
    BY <1>8 DEF Del
  <2>2. /\ \/ i \in 0 .. q.size - 1
           \/ Careless /\ q.size > 0 /\ q.slot[i].pid # None
        /\ i \in Slot /\ q.size > 0
    BY <1>2, CapAssumption DEF Deletable, Live, Heaps, Slot
  <2>3. Popped(q, i) \in Heaps
    BY <2>2, BegunHeaps
  <2>4. BegunElse(Popped(heap, i), i, heap, None)
    BY <1>2, <2>2 DEF BegunElse, BegunDel
  <2>5. LoopInv' /\ pc = "idle"
    BY <1>1, <1>2, <2>1, <2>2, <2>3, <2>4, LoopsBegin
  <2> QED BY <1>4, <2>1, <2>5 DEF Begin
<1>9. ASSUME NEW i \in Live, NEW t \in Times, Readj(i, t)
      PROVE  LoopInv' /\ pre' = pre
  <2>1. Begin("bubble", Retimed(heap, i, t), i, None)
    BY <1>9 DEF Readj, Retimed
  <2>2. i \in 0 .. q.size - 1 /\ i \in Slot
    BY <1>2, CapAssumption DEF Live, Heaps, Slot
  <2>3. Retimed(q, i, t) \in Heaps
    BY <2>2, BegunHeaps
  <2>4. BegunElse(Retimed(heap, i, t), i, heap, None)
    BY <1>2, <2>2 DEF BegunElse, BegunReadj
  <2>5. LoopInv' /\ pc = "idle"
    BY <1>1, <1>2, <2>1, <2>2, <2>3, <2>4, LoopsBegin
  <2> QED BY <1>4, <2>1, <2>5 DEF Begin
<1> QED BY <1>1, <1>5, <1>6, <1>7, <1>8, <1>9, BubbleWorks, SinkWorks DEF Next

(* One run of the loops of heap.c is one atomic operation in the closed    *)
(* form of HeapOps: the same storage, dead slots included, and the same    *)
(* positions told to the owners, for a careless client too.                *)
THEOREM LoopsRefine == Spec => ImplementsHeap
<1>1. Init => LoopInv /\ Whole!Init
  <2> SUFFICES ASSUME Init PROVE LoopInv /\ Whole!Init
    OBVIOUS
  <2>1. heap = [slot |-> [i \in Slot |-> [when |-> 0, pid |-> None]],
                size |-> 0, head |-> [id \in Ids |-> 0]]
        /\ out = None /\ pc = "idle" /\ pre = <<heap, out>>
    BY DEF Init
  <2>2. heap \in Heaps
    BY <2>1, CapAssumption DEF Heaps, Slot
  <2>3. Whole!Init
    BY <2>1, SameLines DEF Whole!Init, Whole!Blank
  <2> QED BY <2>1, <2>2, <2>3 DEF LoopInv
<1>2. TypeOK /\ LoopInv /\ [Next]_vars => LoopInv' /\ [pre' = pre \/ Whole!Next]_pre
  BY OneLoopsStep
<1> QED BY <1>1, <1>2, TypeCorrect, PTL DEF Spec, ImplementsHeap

(***************************************************************************)
(* The positions.  A running operation has kept, at every iteration, the   *)
(* positions that it promises to keep.                                     *)
(***************************************************************************)
HeldIn(h, id)    == {i \in 0 .. h.size - 1 : h.slot[i].pid = id}
TrackedIn(h, id) == HeldIn(h, id) = {h.head[id]}
Passed(g, h, id) == h.size < g.size /\ g.slot[g.size - 1].pid = id

Keeps(g, h) ==
    \A id \in Ids : TrackedIn(g, id) /\ HeldIn(h, id) # {} /\ ~ Passed(g, h, id) => TrackedIn(h, id)

KeepInv == pc # "idle" => Keeps(pre[1], heap)

LEMMA SwapTracks ==
    ASSUME NEW h \in Heaps, NEW a \in 0 .. h.size - 1, NEW b \in 0 .. h.size - 1, Owned(h),
           NEW p \in Ids, NEW s, s = Swap(h, a, b)
    PROVE  /\ HeldIn(s, p) # {} => HeldIn(h, p) # {}
           /\ TrackedIn(h, p) => TrackedIn(s, p)
<1>1. h.size \in 0 .. Cap /\ 0 .. h.size - 1 \subseteq Slot
  BY CapAssumption DEF Heaps, Slot
<1>2. PICK x \in Slot, y \in Slot : x = a /\ y = b
  BY <1>1
<1>3. /\ s.size = h.size
      /\ \A i \in Slot : s.slot[i] = IF i = y THEN h.slot[x] ELSE IF i = x THEN h.slot[y] ELSE h.slot[i]
      /\ s.head[p] = IF p = h.slot[x].pid THEN y ELSE IF p = h.slot[y].pid THEN x ELSE h.head[p]
  <2>1. /\ Swap(h, x, y).size = h.size
        /\ \A i \in Slot : Swap(h, x, y).slot[i] = IF i = y THEN h.slot[x]
                                                  ELSE IF i = x THEN h.slot[y]
                                                  ELSE h.slot[i]
    BY SwapFacts
  <2>2. Swap(h, x, y).head[p] = IF p = h.slot[x].pid THEN y
                                ELSE IF p = h.slot[y].pid THEN x
                                ELSE h.head[p]
    BY SwapHeads
  <2> QED BY <1>2, <2>1, <2>2, Zenon
<1>4. \A i \in 0 .. h.size - 1 :
         s.slot[i] = IF i = b THEN h.slot[a] ELSE IF i = a THEN h.slot[b] ELSE h.slot[i]
  BY <1>1, <1>2, <1>3
<1>5. \A i \in 0 .. h.size - 1 :
         s.slot[i].pid = p <=> IF i = b THEN h.slot[a].pid = p
                               ELSE IF i = a THEN h.slot[b].pid = p ELSE h.slot[i].pid = p
  BY <1>4
<1>6. CASE h.slot[a].pid = p
  <2>1. HeldIn(h, p) = {a} /\ HeldIn(s, p) = {b}
    BY <1>3, <1>5, <1>6 DEF HeldIn, Owned
  <2>2. s.head[p] = b
    BY <1>2, <1>3, <1>6
  <2> QED BY <2>1, <2>2 DEF TrackedIn
<1>7. CASE h.slot[a].pid # p /\ h.slot[b].pid = p
  <2>1. HeldIn(h, p) = {b} /\ HeldIn(s, p) = {a}
    BY <1>3, <1>5, <1>7 DEF HeldIn, Owned
  <2>2. s.head[p] = a
    BY <1>2, <1>3, <1>7
  <2> QED BY <2>1, <2>2 DEF TrackedIn
<1>8. CASE h.slot[a].pid # p /\ h.slot[b].pid # p
  <2>1. HeldIn(s, p) = HeldIn(h, p)
    BY <1>3, <1>5, <1>8 DEF HeldIn
  <2>2. s.head[p] = h.head[p]
    BY <1>2, <1>3, <1>8
  <2> QED BY <2>1, <2>2 DEF TrackedIn
<1> QED BY <1>6, <1>7, <1>8

LEMMA SwapKeeps ==
    ASSUME NEW g, NEW h \in Heaps, NEW a \in 0 .. h.size - 1, NEW b \in 0 .. h.size - 1, Owned(h),
           NEW s, s = Swap(h, a, b), Keeps(g, h)
    PROVE  Keeps(g, s)
<1>1. s.size = h.size
  BY SwapServes
<1>2. ASSUME NEW id \in Ids, TrackedIn(g, id), HeldIn(s, id) # {}, ~ Passed(g, s, id)
      PROVE  TrackedIn(s, id)
  <2>1. HeldIn(h, id) # {} /\ (TrackedIn(h, id) => TrackedIn(s, id))
    BY <1>2, SwapTracks
  <2>2. ~ Passed(g, h, id)
    BY <1>1, <1>2 DEF Passed
  <2> QED BY <1>2, <2>1, <2>2 DEF Keeps
<1> QED BY <1>2 DEF Keeps

LEMMA PushKeeps ==
    ASSUME NEW h \in Heaps, NEW id \in Ids, NEW t \in Nat, h.size < Cap,
           \A j \in 0 .. h.size - 1 : h.slot[j].pid # id, NEW s, s = PushFor(h, id, t)
    PROVE  Keeps(h, s)
<1>1. h.size \in Nat /\ h.size \in Slot /\ 0 .. h.size - 1 \subseteq Slot
  BY CapAssumption DEF Heaps, Slot
<1>2. PICK e : e = [when |-> t, pid |-> id]
  OBVIOUS
<1>3. s.size = h.size + 1 /\ s.slot[h.size] = e /\ \A j \in Slot : j # h.size => s.slot[j] = h.slot[j]
  <2>1. s.slot[h.size] = e
    BY <1>1, <1>2 DEF PushFor, Pushed, Heaps
  <2> QED BY <2>1, PushedFacts
<1>4. \A p \in Ids : s.head[p] = IF p = id THEN h.size ELSE h.head[p]
  BY DEF PushFor, Pushed, Heaps
<1>5. \A j : j \in 0 .. s.size - 1 <=> j \in 0 .. h.size - 1 \/ j = h.size
  BY <1>1, <1>3
<1>6. \A j \in 0 .. h.size - 1 : s.slot[j].pid = h.slot[j].pid
  BY <1>1, <1>3
<1>7. s.slot[h.size].pid = id
  BY <1>2, <1>3
<1>8. ASSUME NEW p \in Ids, TrackedIn(h, p) PROVE TrackedIn(s, p)
  <2>1. CASE p = id
    <3>1. HeldIn(h, p) = {}
      BY <2>1 DEF HeldIn
    <3> QED BY <1>8, <3>1 DEF TrackedIn
  <2>2. CASE p # id
    <3>1. HeldIn(s, p) = HeldIn(h, p)
      BY <1>1, <1>5, <1>6, <1>7, <2>2 DEF HeldIn
    <3> QED BY <1>4, <1>8, <2>2, <3>1 DEF TrackedIn
  <2> QED BY <2>1, <2>2
<1> QED BY <1>8 DEF Keeps

(* memmove tells nobody: only the event that was last is passed over.      *)
LEMMA PoppedKeeps ==
    ASSUME NEW h \in Heaps, NEW i \in 0 .. h.size - 1, NEW s, s = Popped(h, i)
    PROVE  Keeps(h, s)
<1>1. h.size \in Nat /\ h.size > 0 /\ 0 .. h.size - 1 \subseteq Slot /\ i \in Slot
  BY CapAssumption DEF Heaps, Slot
<1>2. s.size = h.size - 1 /\ s.head = h.head
      /\ \A j \in Slot : s.slot[j] = IF j = i THEN h.slot[h.size - 1] ELSE h.slot[j]
  <2>1. s.head = h.head
    BY DEF Popped
  <2> QED BY <1>1, <2>1, PoppedFacts
<1>3. ASSUME NEW p \in Ids, TrackedIn(h, p), HeldIn(s, p) # {}, ~ Passed(h, s, p)
      PROVE  TrackedIn(s, p)
  <2>1. h.slot[h.size - 1].pid # p
    BY <1>1, <1>2, <1>3 DEF Passed
  <2>2. \A j \in 0 .. s.size - 1 : s.slot[j].pid = p => j \in 0 .. h.size - 1 /\ h.slot[j].pid = p
    BY <1>1, <1>2, <2>1
  <2>3. HeldIn(s, p) \subseteq HeldIn(h, p)
    BY <2>2 DEF HeldIn
  <2> QED BY <1>2, <1>3, <2>3 DEF TrackedIn
<1> QED BY <1>3 DEF Keeps

LEMMA RetimedKeeps ==
    ASSUME NEW h \in Heaps, NEW i \in 0 .. h.size - 1, NEW t \in Nat, NEW s, s = Retimed(h, i, t)
    PROVE  Keeps(h, s)
<1>1. 0 .. h.size - 1 \subseteq Slot
  BY CapAssumption DEF Heaps, Slot
<1>2. s.size = h.size /\ s.head = h.head
  BY DEF Retimed
<1>3. \A j \in 0 .. h.size - 1 : s.slot[j].pid = h.slot[j].pid
  BY <1>1 DEF Retimed, Heaps
<1>4. \A p : HeldIn(s, p) = HeldIn(h, p)
  BY <1>2, <1>3 DEF HeldIn
<1> QED BY <1>2, <1>4 DEF Keeps, TrackedIn

LEMMA KeepStep ==
    ASSUME ~ Careless, TypeOK, ServeInv, KeepInv, [Next]_vars
    PROVE  KeepInv'
<1> PICK h, g, n, q : h = heap /\ g = heap' /\ n = node /\ q = pre[1]
  OBVIOUS
<1>1. /\ h \in Heaps /\ n \in Slot /\ h.size \in Nat /\ n \in Nat
      /\ Owned(h) /\ MovesWithin(h, n, pc)
  BY SlotFacts, LiveFacts DEF TypeOK, ServeInv
<1>2. pc # "idle" => Keeps(q, h)
  BY DEF KeepInv
<1>3. ASSUME pre'[1] = h, Keeps(h, g) PROVE KeepInv'
  <2>1. Keeps(pre'[1], heap')
    BY <1>3, Zenon
  <2> QED BY <2>1 DEF KeepInv
<1>4. ASSUME pre' = pre, pc # "idle", Keeps(q, g) PROVE KeepInv'
  <2>1. Keeps(pre'[1], heap')
    BY <1>4, Zenon
  <2> QED BY <2>1 DEF KeepInv
<1>5. ASSUME NEW id \in Ids, NEW t \in Times, Put(id, t) PROVE KeepInv'
  <2>1. t \in Nat /\ h.size < Cap /\ \A i \in 0 .. h.size - 1 : h.slot[i].pid # id
    BY <1>5, LoopAssumption DEF Put, Held, Live
  <2>2. g = PushFor(h, id, t) /\ pre'[1] = h
    BY <1>5 DEF Put, Begin
  <2> QED BY <1>1, <1>3, <2>1, <2>2, PushKeeps
<1>6. ASSUME Pop PROVE KeepInv'
  <2>1. h.size > 0 /\ g = Popped(h, 0) /\ pre'[1] = h
    BY <1>6 DEF Pop, Begin
  <2>2. 0 \in 0 .. h.size - 1
    BY <1>1, <2>1
  <2> QED BY <1>1, <1>3, <2>1, <2>2, PoppedKeeps
<1>7. ASSUME NEW i \in Deletable, Del(i) PROVE KeepInv'
  <2>1. i \in 0 .. h.size - 1
    BY DEF Deletable, Live
  <2>2. g = Popped(h, i) /\ pre'[1] = h
    BY <1>7 DEF Del, Begin
  <2> QED BY <1>1, <1>3, <2>1, <2>2, PoppedKeeps
<1>8. ASSUME NEW i \in Live, NEW t \in Times, Readj(i, t) PROVE KeepInv'
  <2>1. i \in 0 .. h.size - 1 /\ t \in Nat
    BY LoopAssumption DEF Live
  <2>2. g = Retimed(h, i, t) /\ pre'[1] = h
    BY <1>8 DEF Readj, Begin, Retimed
  <2> QED BY <1>1, <1>3, <2>1, <2>2, RetimedKeeps
<1>9. ASSUME BubbleStep PROVE KeepInv'
  <2>1. pc \in {"put", "bubble"}
    BY <1>9 DEF BubbleStep
  <2>2. CASE HasParent(n) /\ h.slot[n].when < h.slot[Parent(n)].when
    <3>1. g = Swap(h, n, Parent(n)) /\ pre' = pre
      BY <1>9, <2>2 DEF BubbleStep
    <3>2. n > 0 /\ Parent(n) \in Slot /\ Parent(n) < n /\ Parent(n) \in Nat
      BY <1>1, <2>2, SlotFacts, ParentFacts DEF HasParent
    <3>3. h.slot[n].when \in Nat /\ h.slot[Parent(n)].when \in Nat
      BY <1>1, <3>2 DEF Heaps
    <3>4. ~ (h.slot[Parent(n)].when <= h.slot[n].when)
      BY <2>2, <3>3
    <3>5. n \in 0 .. h.size - 1 /\ Parent(n) \in 0 .. h.size - 1
      BY <1>1, <2>1, <2>2, <3>2, <3>4 DEF MovesWithin
    <3>6. Keeps(q, g)
      BY <1>1, <1>2, <2>1, <3>1, <3>5, SwapKeeps
    <3> QED BY <1>4, <2>1, <3>1, <3>6
  <2>3. CASE ~ (HasParent(n) /\ h.slot[n].when < h.slot[Parent(n)].when)
    <3>1. \/ pc' = "idle"
          \/ heap' = heap /\ pre' = pre
      BY <1>9, <2>3 DEF BubbleStep, Return
    <3>2. CASE pc' = "idle"
      BY <3>2 DEF KeepInv
    <3> QED BY <1>2, <1>4, <2>1, <3>1, <3>2
  <2> QED BY <2>2, <2>3
<1>10. ASSUME SinkStep PROVE KeepInv'
  <2>1. pc = "sink"
    BY <1>10 DEF SinkStep
  <2>2. PICK b : b = Best(h, n)
    OBVIOUS
  <2>3. CASE Left(n) < h.size /\ h.slot[n].when > h.slot[b].when
    <3>1. g = Swap(h, n, b) /\ pre' = pre
      BY <1>10, <2>2, <2>3 DEF SinkStep
    <3>2. b \in Slot /\ b < h.size
      BY <1>1, <2>2, <2>3, BestFacts
    <3>3. 2 * n + 1 < h.size
      BY <2>3 DEF Left
    <3>4. n \in 0 .. h.size - 1
      BY <1>1, <3>3
    <3>5. b \in 0 .. h.size - 1
      BY <1>1, <3>2, SlotFacts
    <3>6. Keeps(q, g)
      BY <1>1, <1>2, <2>1, <3>1, <3>4, <3>5, SwapKeeps
    <3> QED BY <1>4, <2>1, <3>1, <3>6
  <2>4. CASE ~ (Left(n) < h.size /\ h.slot[n].when > h.slot[b].when)
    <3>1. pc' = "idle"
      BY <1>10, <2>2, <2>4 DEF SinkStep, Return
    <3> QED BY <3>1 DEF KeepInv
  <2> QED BY <2>3, <2>4
<1>11. ASSUME UNCHANGED vars PROVE KeepInv'
  <2>1. heap' = heap /\ pc' = pc /\ pre' = pre
    BY <1>11 DEF vars
  <2>2. pc # "idle" => Keeps(pre'[1], heap')
    BY <1>2, <2>1, Zenon
  <2> QED BY <2>1, <2>2 DEF KeepInv
<1> QED BY <1>5, <1>6, <1>7, <1>8, <1>9, <1>10, <1>11 DEF Next

(* An operation of a client that deletes what is there keeps every right   *)
(* position right, but for that of the event that was last in the vector   *)
(* when it shrinks: ndl_heap_delete moves that one without the callback.   *)
THEOREM LoopsKeepPositions == ASSUME ~ Careless PROVE Spec => OnlyTheLastIsLost
<1>1. Init => ServeInv /\ KeepInv
  <2> SUFFICES ASSUME Init PROVE ServeInv /\ KeepInv
    OBVIOUS
  <2>1. heap.size = 0 /\ pc = "idle" /\ pre = <<heap, out>>
    BY DEF Init
  <2> QED BY <2>1 DEF ServeInv, KeepInv, Owned, MovesWithin
<1>2. TypeOK /\ TypeOK' /\ OrderedButNode /\ ServeInv /\ KeepInv /\ [Next]_vars
        => ServeInv' /\ KeepInv'
  BY ServeStep, KeepStep
<1>3. ASSUME ServeInv, KeepInv, [Next]_vars
      PROVE  pre' = pre \/ Whole!KeepsPositions
  <2>1. CASE pc # "idle" /\ pre' = <<heap, out>>
    <3>1. PICK q, h : q = pre[1] /\ h = heap
      OBVIOUS
    <3>2. Keeps(q, h) /\ pre'[1] = h
      BY <1>3, <2>1, <3>1 DEF KeepInv
    <3>3. ASSUME NEW id \in Ids, Whole!Tracked(id), Whole!Held(id)' # {},
                 h.size < q.size => q.slot[q.size - 1].pid # id
          PROVE  Whole!Tracked(id)'
      <4>1. TrackedIn(q, id) /\ HeldIn(h, id) # {} /\ ~ Passed(q, h, id)
        BY <3>1, <3>2, <3>3 DEF Whole!Tracked, Whole!Held, Whole!Live, TrackedIn, HeldIn, Passed
      <4>2. HeldIn(h, id) = {h.head[id]}
        BY <3>2, <4>1 DEF Keeps, TrackedIn
      <4> QED BY <3>2, <4>2 DEF Whole!Tracked, Whole!Held, Whole!Live, HeldIn
    <3> QED BY <3>1, <3>2, <3>3 DEF Whole!KeepsPositions
  <2>2. pc = "idle" => pre = <<heap, out>>
    BY <1>3 DEF ServeInv
  <2> QED BY <1>3, <2>1, <2>2, WhenPreChanges
<1>4. ServeInv /\ KeepInv /\ [Next]_vars => [pre' = pre \/ Whole!KeepsPositions]_pre
  BY <1>3
<1> QED BY <1>1, <1>2, <1>4, TypeCorrect, LoopsKeepOrder, PTL DEF Spec, OnlyTheLastIsLost
=============================================================================
