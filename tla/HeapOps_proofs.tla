--------------------------- MODULE HeapOps_proofs ---------------------------
(***************************************************************************)
(* What the operators of HeapOps do to the shape of a heap, for every      *)
(* capacity.  A heap is any record with the three fields of HeapOps (the   *)
(* runtime has more), so each lemma speaks of the fields.                  *)
(***************************************************************************)
EXTENDS HeapOps, WellFoundedInduction, TLAPS

(* Lowest and Highest pick a member.                                       *)
LEMMA LowestFacts ==
    ASSUME NEW S \in SUBSET Nat, S # {}
    PROVE  Lowest(S) \in S /\ \A k \in S : Lowest(S) <= k
<1> DEFINE R == OpToRel(<, Nat)
<1>1. IsWellFoundedOn(R, Nat)
  BY NatLessThanWellFounded
<1>2. PICK x \in S : \A y \in S : ~ (<<y, x>> \in R)
  BY <1>1, WFMin, Zenon
<1>3. \A y \in S : ~ (y < x)
  BY <1>2 DEF OpToRel
<1>4. \A y \in S : x <= y
  BY <1>3
<1> QED BY <1>4 DEF Lowest

LEMMA HighestFacts ==
    ASSUME NEW S \in SUBSET Slot, S # {}
    PROVE  Highest(S) \in S /\ \A k \in S : k <= Highest(S)
<1>1. \A j \in S : j \in Int /\ Cap - j \in Nat
  BY CapAssumption DEF Slot
<1> DEFINE T == {Cap - j : j \in S}
<1>2. T \in SUBSET Nat /\ T # {}
  BY <1>1
<1>3. PICK x \in T : \A y \in T : x <= y
  <2> HIDE DEF T
  <2> QED BY <1>2, LowestFacts
<1>4. PICK j \in S : x = Cap - j
  OBVIOUS
<1>5. \A k \in S : k <= j
  BY <1>1, <1>3, <1>4, CapAssumption
<1> QED BY <1>5 DEF Highest

(* The shape of a heap with elements in E whose owners are P.              *)
IsHeap(h, E, P) == /\ {"slot", "size", "head"} \subseteq DOMAIN h
                   /\ h.slot \in [Slot -> E]
                   /\ h.size \in 0 .. Cap
                   /\ h.head \in [P -> Slot]

(* t differs from h in the fields F at most.                               *)
Alike(h, t, F) == /\ t = [x \in DOMAIN h |-> t[x]]
                  /\ \A x \in DOMAIN h \ F : t[x] = h[x]

LEMMA ParentFacts ==
    ASSUME NEW i \in Nat, i > 0
    PROVE  /\ Parent(i) \in Nat /\ Parent(i) < i
           /\ \A n \in Nat : Parent(i) = n <=> i = Left(n) \/ i = Right(n)
BY DEF Parent, Left, Right

LEMMA SlotFacts ==
    /\ 0 \in Slot
    /\ \A i \in Slot : i \in Nat /\ i < Cap /\ (i > 0 => Parent(i) \in Slot)
BY CapAssumption, ParentFacts DEF Slot

LEMMA ClimbFacts ==
    ASSUME NEW h, NEW i \in Slot
    PROVE  Climb(h, i) \subseteq Slot /\ i \in Climb(h, i) /\ Top(h, i) \in Slot
<1>1. Climb(h, i) \in SUBSET Slot
  BY DEF Climb, Line, Lines
<1>2. i \in Climb(h, i)
  <2>1. i \in Line(i) /\ Line(i) \subseteq Slot
    BY DEF Line, Lines
  <2>2. \A k \in Line(i) : ~ (i <= k /\ k < i)
    BY <2>1, SlotFacts
  <2> QED BY <2>1, <2>2 DEF Climb
<1>3. Climb(h, i) \in SUBSET Nat
  BY <1>1, SlotFacts
<1>4. Lowest(Climb(h, i)) \in Climb(h, i)
  BY <1>2, <1>3, LowestFacts
<1> QED BY <1>1, <1>2, <1>4 DEF Top

LEMMA FallFacts ==
    ASSUME NEW h, NEW i \in Slot, h.size \in 0 .. Cap
    PROVE  Fall(h, i) \subseteq Slot /\ i \in Fall(h, i)
BY CapAssumption DEF Fall, Slot

LEMMA TrackFacts ==
    ASSUME NEW E, NEW P, NEW h, IsHeap(h, E, P), NEW path \in SUBSET Slot, NEW slot
    PROVE  /\ Track(h, path, slot, "bubble") \in [P -> Slot]
           /\ Track(h, path, slot, "sink") \in [P -> Slot]
<1> DEFINE At(p) == {j \in path : slot[j].pid = p}
<1>1. DOMAIN h.head = P /\ \A p \in P : h.head[p] \in Slot
  BY DEF IsHeap
<1>2. \A p : At(p) \in SUBSET Slot
  OBVIOUS
<1>3. \A p : At(p) # {} => Lowest(At(p)) \in Slot /\ Highest(At(p)) \in Slot
  <2> SUFFICES ASSUME NEW S \in SUBSET Slot, S # {}
               PROVE  Lowest(S) \in Slot /\ Highest(S) \in Slot
    BY <1>2
  <2>1. S \in SUBSET Nat
    BY SlotFacts
  <2> QED BY <2>1, LowestFacts, HighestFacts
<1> HIDE DEF At
<1>4. ASSUME NEW p \in P
      PROVE  /\ (IF path # {Lowest(path)} /\ At(p) # {} THEN Lowest(At(p)) ELSE h.head[p]) \in Slot
             /\ (IF path # {Highest(path)} /\ At(p) # {} THEN Highest(At(p)) ELSE h.head[p]) \in Slot
  BY <1>1, <1>3
<1> QED BY <1>1, <1>4 DEF Track, At, Last

LEMMA BubbleFacts ==
    ASSUME NEW E, NEW P, NEW h, IsHeap(h, E, P), NEW i \in Slot
    PROVE  /\ IsHeap(Bubble(h, i), E, P) /\ Bubble(h, i).size = h.size
           /\ Alike(h, Bubble(h, i), {"slot", "head"})
<1> DEFINE path == Climb(h, i)
           slot == [j \in Slot |-> IF j \notin path THEN h.slot[j]
                                ELSE IF Parent(j) \in path THEN h.slot[Parent(j)]
                                ELSE h.slot[i]]
           head == Track(h, path, slot, "bubble")
<1>1. path \in SUBSET Slot
  BY ClimbFacts
<1>2. Bubble(h, i) = [h EXCEPT !.slot = slot, !.head = head]
  BY DEF Bubble
<1>3. head \in [P -> Slot]
  <2> HIDE DEF path, slot
  <2> QED BY <1>1, TrackFacts
<1>4. slot \in [Slot -> E]
  <2> HIDE DEF path
  <2> QED BY <1>1 DEF IsHeap
<1> HIDE DEF path, slot, head
<1> QED BY <1>2, <1>3, <1>4 DEF IsHeap, Alike

LEMMA SinkFacts ==
    ASSUME NEW E, NEW P, NEW h, IsHeap(h, E, P), NEW i \in Slot
    PROVE  /\ IsHeap(Sink(h, i), E, P) /\ Sink(h, i).size = h.size
           /\ Alike(h, Sink(h, i), {"slot", "head"})
<1> DEFINE path == Fall(h, i)
           slot == [j \in Slot |-> IF j \notin path THEN h.slot[j]
                                ELSE IF Best(h, j) \in path THEN h.slot[Best(h, j)]
                                ELSE h.slot[i]]
           head == Track(h, path, slot, "sink")
<1>1. path \in SUBSET Slot
  BY FallFacts DEF IsHeap
<1>2. Sink(h, i) = [h EXCEPT !.slot = slot, !.head = head]
  BY DEF Sink
<1>3. head \in [P -> Slot]
  <2> HIDE DEF path, slot
  <2> QED BY <1>1, TrackFacts
<1>4. slot \in [Slot -> E]
  <2> HIDE DEF path
  <2> QED BY <1>1 DEF IsHeap
<1> HIDE DEF path, slot, head
<1> QED BY <1>2, <1>3, <1>4 DEF IsHeap, Alike

(* The operations: readjusting keeps the size, putting adds one, deleting  *)
(* takes one away, wherever in the storage it is told to delete.           *)
LEMMA ReadjustFacts ==
    ASSUME NEW E, NEW P, NEW h, IsHeap(h, E, P), NEW i \in Slot
    PROVE  /\ IsHeap(Readjust(h, i), E, P) /\ Readjust(h, i).size = h.size
           /\ Alike(h, Readjust(h, i), {"slot", "head"})
<1>1. Top(h, i) \in Slot
  BY ClimbFacts
<1> DEFINE b == Bubble(h, i)
<1>2. IsHeap(b, E, P) /\ b.size = h.size /\ Alike(h, b, {"slot", "head"})
  BY BubbleFacts
<1> HIDE DEF b
<1> DEFINE t == Sink(b, Top(h, i))
<1>3. IsHeap(t, E, P) /\ t.size = b.size /\ Alike(b, t, {"slot", "head"})
  BY <1>1, <1>2, SinkFacts
<1>4. Readjust(h, i) = t
  BY DEF Readjust, b
<1> HIDE DEF t
<1> QED BY <1>2, <1>3, <1>4 DEF Alike

LEMMA PutFacts ==
    ASSUME NEW E, NEW P, NEW h, IsHeap(h, E, P), h.size < Cap, NEW e \in E
    PROVE  /\ IsHeap(HeapPut(h, e), E, P) /\ HeapPut(h, e).size = h.size + 1
           /\ Alike(h, HeapPut(h, e), {"slot", "head", "size"})
           /\ PutAt(h, e) \in Slot
<1>1. h.size \in Slot /\ h.size + 1 \in 0 .. Cap
  BY CapAssumption DEF IsHeap, Slot
<1> DEFINE b == Pushed(h, e)
<1>2. IsHeap(b, E, P) /\ b.size = h.size + 1 /\ Alike(h, b, {"slot", "size"})
  BY <1>1 DEF Pushed, IsHeap, Alike
<1> HIDE DEF b
<1> DEFINE t == Bubble(b, h.size)
<1>3. IsHeap(t, E, P) /\ t.size = b.size /\ Alike(b, t, {"slot", "head"})
  BY <1>1, <1>2, BubbleFacts
<1>4. HeapPut(h, e) = t /\ PutAt(h, e) = Top(b, h.size)
  BY DEF HeapPut, PutAt, b
<1>5. Top(b, h.size) \in Slot
  BY <1>1, ClimbFacts
<1> HIDE DEF t
<1> QED BY <1>2, <1>3, <1>4, <1>5 DEF Alike

LEMMA DeleteFacts ==
    ASSUME NEW E, NEW P, NEW h, IsHeap(h, E, P), h.size > 0, NEW i \in Slot
    PROVE  /\ IsHeap(HeapDelete(h, i), E, P) /\ HeapDelete(h, i).size = h.size - 1
           /\ Alike(h, HeapDelete(h, i), {"slot", "head", "size"})
<1>1. h.size - 1 \in Slot /\ h.size - 1 \in 0 .. Cap
  BY CapAssumption DEF IsHeap, Slot
<1> DEFINE b == Popped(h, i)
<1>2. IsHeap(b, E, P) /\ b.size = h.size - 1 /\ Alike(h, b, {"slot", "size"})
  BY <1>1 DEF Popped, IsHeap, Alike
<1> HIDE DEF b
<1> DEFINE t == Readjust(b, i)
<1>3. IsHeap(t, E, P) /\ t.size = b.size /\ Alike(b, t, {"slot", "head"})
  BY <1>2, ReadjustFacts
<1>4. HeapDelete(h, i) = t
  BY DEF HeapDelete, b
<1> HIDE DEF t
<1> QED BY <1>2, <1>3, <1>4 DEF Alike
(***************************************************************************)
(* Order.  A climb is a stretch of a line, and so is each branch of a fall.*)
(***************************************************************************)
LEMMA LineFacts ==
    ASSUME NEW i \in Slot
    PROVE  /\ Line(i) \in SUBSET Slot /\ i \in Line(i) /\ Upward(Line(i))
           /\ \A S \in SUBSET Slot : i \in S /\ Upward(S) => Line(i) \subseteq S
           /\ \A j \in Line(i) : j <= i
<1>1. Line(i) = {j \in Slot : \A S \in SUBSET Slot : i \in S /\ Upward(S) => j \in S}
  BY DEF Line, Lines
<1>2. Upward(Line(i))
  BY <1>1, SlotFacts DEF Upward
<1>3. \A j \in Line(i) : j <= i
  <2> DEFINE S == {j \in Slot : j <= i}
  <2>1. i \in S /\ Upward(S)
    BY SlotFacts, ParentFacts DEF Upward
  <2> QED BY <1>1, <2>1
<1> QED BY <1>1, <1>2, <1>3

(* The line of a slot is the slot and the line of its parent.              *)
LEMMA LineStep ==
    ASSUME NEW i \in Slot, i > 0
    PROVE  Line(i) = {i} \cup Line(Parent(i))
<1>1. Parent(i) \in Slot
  BY SlotFacts
<1>2. Line(Parent(i)) \subseteq Line(i)
  BY <1>1, LineFacts DEF Upward
<1> DEFINE S == {i} \cup Line(Parent(i))
<1>3. S \in SUBSET Slot /\ i \in S /\ Upward(S)
  BY <1>1, LineFacts DEF Upward
<1> QED BY <1>2, <1>3, LineFacts

(* Of two slots on a line, the higher is on the line of the lower.         *)
LEMMA LineLinear ==
    ASSUME NEW i \in Slot, NEW j \in Line(i), NEW k \in Line(i), j <= k
    PROVE  j \in Line(k)
<1> DEFINE T == {l \in Line(i) : \A m \in Line(i) : m <= l => m \in Line(l)}
<1>1. T \in SUBSET Slot /\ i \in T
  BY LineFacts
<1>2. Upward(T)
  <2> SUFFICES ASSUME NEW l \in T, l > 0, NEW m \in Line(i), m <= Parent(l)
               PROVE  m \in Line(Parent(l)) /\ Parent(l) \in Line(i)
    BY LineFacts DEF Upward
  <2>1. l \in Slot /\ m \in Slot
    BY LineFacts
  <2>2. Parent(l) < l /\ Parent(l) \in Nat
    BY <2>1, SlotFacts, ParentFacts
  <2>3. m \in Line(l)
    BY <2>1, <2>2, SlotFacts
  <2> QED BY <2>1, <2>2, <2>3, SlotFacts, LineStep, LineFacts DEF Upward
<1> QED BY <1>1, <1>2, LineFacts

(* The times of a heap can be compared.                                    *)
Timed(h) == h.size \in 0 .. Cap /\ \A j \in Slot : h.slot[j].when \in Int

Child(h, j) == j \in 1 .. h.size - 1

LEMMA ChildFacts ==
    ASSUME NEW h, Timed(h), NEW j, Child(h, j)
    PROVE  /\ j \in Slot /\ j > 0 /\ Parent(j) \in Slot /\ Parent(j) < j
           /\ Parent(j) > 0 => Parent(Parent(j)) \in Slot /\ Parent(Parent(j)) < Parent(j)
BY CapAssumption, SlotFacts, ParentFacts DEF Timed, Child, Slot

(* Ordered but for the element at i, which may be earlier than its parent  *)
(* and later than its children.                                            *)
Misplaced(h, i) ==
    /\ \A j : Child(h, j) /\ j # i /\ Parent(j) # i => h.slot[Parent(j)].when <= h.slot[j].when
    /\ \A j : Child(h, j) /\ Parent(j) = i /\ i > 0 => h.slot[Parent(i)].when <= h.slot[j].when

(* Ordered but for the children of i.                                      *)
Heavy(h, i) ==
    /\ \A j : Child(h, j) /\ Parent(j) # i => h.slot[Parent(j)].when <= h.slot[j].when
    /\ \A j : Child(h, j) /\ Parent(j) = i /\ i > 0 => h.slot[Parent(i)].when <= h.slot[j].when

LEMMA Transitive ==
    ASSUME NEW x \in Int, NEW y \in Int, NEW z \in Int
    PROVE  /\ x <= y /\ y <= z => x <= z
           /\ x < y /\ y <= z => x <= z
OBVIOUS

(* What bubble does to the storage.                                        *)
LEMMA BubbleMoves ==
    ASSUME NEW h, Timed(h), {"slot", "size", "head"} \subseteq DOMAIN h, NEW i \in Slot,
           NEW path, path = Climb(h, i), NEW t, t = Top(h, i), NEW b, b = Bubble(h, i)
    PROVE  /\ path \in SUBSET Slot /\ i \in path /\ t \in path /\ t <= i
           /\ \A j \in path : t <= j /\ j <= i
           /\ \A j \in path : j # t => j > 0 /\ Parent(j) \in path
           /\ t > 0 => Parent(t) \in Slot /\ Parent(t) \notin path
           /\ h.size > 0 /\ t > 0 => h.slot[Parent(t)].when <= h.slot[i].when
           /\ \A j \in path : j # i => h.slot[i].when < h.slot[j].when
           /\ b.size = h.size
           /\ \A j \in Slot : j \notin path => b.slot[j] = h.slot[j]
           /\ \A j \in path : j # t => b.slot[j] = h.slot[Parent(j)]
           /\ b.slot[t] = h.slot[i]
           /\ \A j \in Slot : b.slot[j].when \in Int
<1>1. path \in SUBSET Slot /\ i \in path
  BY ClimbFacts
<1>2. path \in SUBSET Nat
  BY <1>1, SlotFacts
<1>3. t \in path /\ \A j \in path : t <= j
  BY <1>1, <1>2, LowestFacts DEF Top
<1>4. path \subseteq Line(i) /\ \A j \in path : j <= i
  BY LineFacts DEF Climb
<1>5. \A j \in path : \A k \in Line(i) :
         j <= k /\ k < i => h.size > 0 /\ h.slot[i].when < h.slot[k].when
  BY DEF Climb
<1>6. ASSUME NEW k \in Line(i), t <= k PROVE k \in path
  <2>1. t \in Nat /\ \A l \in Line(i) : l \in Nat
    BY <1>2, <1>3, LineFacts, SlotFacts
  <2>2. \A l \in Line(i) : k <= l => t <= l
    BY <1>6, <2>1
  <2> QED BY <1>3, <1>5, <2>2 DEF Climb
<1>7. ASSUME NEW j \in path, j # t PROVE j > 0 /\ Parent(j) \in path
  <2>1. j \in Slot /\ t \in Slot /\ t \in Nat /\ j \in Nat /\ t < j
    BY <1>1, <1>2, <1>3, <1>7
  <2>2. j > 0 /\ Parent(j) \in Slot /\ Parent(j) \in Line(i)
    BY <1>4, <2>1, SlotFacts, LineFacts DEF Upward
  <2>3. t \in Line(j)
    BY <1>3, <1>4, <2>1, LineLinear
  <2>4. t \in Line(Parent(j))
    BY <2>1, <2>2, <2>3, LineStep
  <2>5. t <= Parent(j)
    BY <2>2, <2>4, LineFacts
  <2> QED BY <1>6, <2>2, <2>5
<1>8. ASSUME t > 0
      PROVE  /\ Parent(t) \in Slot /\ Parent(t) \notin path
             /\ h.size > 0 => h.slot[Parent(t)].when <= h.slot[i].when
  <2>1. t \in Slot /\ i \in Slot /\ Parent(t) \in Slot /\ Parent(t) < t /\ Parent(t) \in Line(i)
    BY <1>1, <1>3, <1>4, <1>8, SlotFacts, ParentFacts, LineFacts DEF Upward
  <2>2. Parent(t) \notin path
    BY <1>3, <2>1, SlotFacts
  <2>3. ASSUME h.size > 0, ~ h.slot[Parent(t)].when <= h.slot[i].when PROVE FALSE
    <3>1. h.slot[i].when < h.slot[Parent(t)].when
      BY <2>1, <2>3 DEF Timed
    <3>2. ASSUME NEW k \in Line(i), Parent(t) <= k, k < i PROVE h.slot[i].when < h.slot[k].when
      <4>1. CASE k = Parent(t)
        BY <3>1, <4>1
      <4>2. CASE k # Parent(t)
        <5>1. CASE t <= k
          BY <1>3, <1>5, <3>2, <5>1
        <5>2. CASE k <= t /\ k # t
          <6>1. k \in Line(t)
            BY <1>3, <1>4, <5>2, LineLinear
          <6>2. k \in Line(Parent(t))
            BY <1>8, <2>1, <5>2, <6>1, LineStep
          <6> QED BY <2>1, <3>2, <4>2, <6>2, LineFacts, SlotFacts
        <5> QED BY <2>1, <5>1, <5>2, LineFacts, SlotFacts
      <4> QED BY <4>1, <4>2
    <3>3. Parent(t) \in path
      BY <2>1, <2>3, <3>2 DEF Climb
    <3> QED BY <2>2, <3>3
  <2> QED BY <2>1, <2>2, <2>3
<1>9. \A j \in path : j # i => h.slot[i].when < h.slot[j].when
  BY <1>1, <1>2, <1>4, <1>5, SlotFacts
<1>10. /\ b.size = h.size
       /\ b.slot = [j \in Slot |-> IF j \notin path THEN h.slot[j]
                                ELSE IF Parent(j) \in path THEN h.slot[Parent(j)]
                                ELSE h.slot[i]]
  BY DEF Bubble
<1>11. Parent(t) \notin path
  <2>1. CASE t = 0
    <3>1. \A k \in Int : Parent(k) \in Int /\ 2 * Parent(k) <= k - 1
      BY DEF Parent
    <3>2. Parent(0) \notin Nat
      BY <3>1
    <3> QED BY <1>2, <2>1, <3>2
  <2>2. CASE t > 0
    BY <2>2, <1>8
  <2> QED BY <1>2, <1>3, <2>1, <2>2
<1>12. \A j \in Slot : b.slot[j].when \in Int
  BY <1>1, <1>10 DEF Timed
<1>13. t <= i
  BY <1>3, <1>4
<1> QED BY <1>1, <1>3, <1>4, <1>7, <1>8, <1>9, <1>10, <1>11, <1>12, <1>13

LEMMA BubbleOrders ==
    ASSUME NEW h, Timed(h), {"slot", "size", "head"} \subseteq DOMAIN h, NEW i \in Slot,
           Misplaced(h, i)
    PROVE  /\ Timed(Bubble(h, i)) /\ Heavy(Bubble(h, i), Top(h, i))
           /\ (\A j : Child(h, j) => Parent(j) # i) => Ordered(Bubble(h, i))
<1>1. PICK path : path = Climb(h, i)
  OBVIOUS
<1>2. PICK t : t = Top(h, i)
  OBVIOUS
<1>3. PICK b : b = Bubble(h, i)
  OBVIOUS
<1>4. /\ path \in SUBSET Slot /\ i \in path /\ t \in path /\ t <= i
      /\ \A j \in path : t <= j /\ j <= i
      /\ \A j \in path : j # t => j > 0 /\ Parent(j) \in path
      /\ t > 0 => Parent(t) \in Slot /\ Parent(t) \notin path
      /\ h.size > 0 /\ t > 0 => h.slot[Parent(t)].when <= h.slot[i].when
      /\ \A j \in path : j # i => h.slot[i].when < h.slot[j].when
      /\ b.size = h.size
      /\ \A j \in Slot : j \notin path => b.slot[j] = h.slot[j]
      /\ \A j \in path : j # t => b.slot[j] = h.slot[Parent(j)]
      /\ b.slot[t] = h.slot[i]
      /\ \A j \in Slot : b.slot[j].when \in Int
  BY <1>1, <1>2, <1>3, BubbleMoves
<1>5. \A j : Child(b, j) <=> Child(h, j)
  BY <1>4 DEF Child
<1>6. Timed(b)
  BY <1>4 DEF Timed
<1>7. ASSUME NEW j, Child(h, j), Parent(j) # t
      PROVE  b.slot[Parent(j)].when <= b.slot[j].when
  <2> DEFINE p == Parent(j)
  <2>1. /\ j \in Slot /\ j > 0 /\ p \in Slot /\ p < j /\ h.size > 0 /\ p \in Nat /\ i \in Nat /\ t \in Nat
        /\ p > 0 => Parent(p) \in Slot /\ Parent(p) < p
    BY <1>4, <1>7, ChildFacts, SlotFacts DEF Child, Timed
  <2>2. p > 0 => Child(h, p)
    BY <1>7, <2>1 DEF Child, Timed
  <2>3. \A k \in Slot : h.slot[k].when \in Int
    BY DEF Timed
  <2>4. CASE j \in path /\ j = t
    <3>1. b.slot[p] = h.slot[p] /\ h.slot[p].when <= h.slot[i].when
      BY <1>4, <2>1, <2>4
    <3> QED BY <1>4, <2>4, <3>1
  <2>5. CASE j \in path /\ j # t
    <3>1. p \in path /\ b.slot[j] = h.slot[p] /\ b.slot[p] = h.slot[Parent(p)] /\ p > 0
      BY <1>4, <1>7, <2>5
    <3>2. p # i /\ Parent(p) # i
      BY <1>4, <2>1, <2>5, <3>1
    <3> QED BY <2>2, <3>1, <3>2 DEF Misplaced
  <2>6. CASE j \notin path /\ p \in path
    <3>1. b.slot[j] = h.slot[j] /\ b.slot[p] = h.slot[Parent(p)] /\ p > 0 /\ j # i
      BY <1>4, <1>7, <2>1, <2>6
    <3>2. CASE p = i
      BY <1>7, <3>1, <3>2 DEF Misplaced
    <3>3. CASE p # i
      <4>1. Parent(p) # i
        BY <1>4, <2>1, <2>6, <3>1
      <4>2. h.slot[Parent(p)].when <= h.slot[p].when /\ h.slot[p].when <= h.slot[j].when
        BY <1>7, <2>2, <3>1, <3>3, <4>1 DEF Misplaced
      <4>3. p > 0 => Parent(p) \in Slot
        BY <2>1
      <4>4. h.slot[Parent(p)].when \in Int /\ h.slot[p].when \in Int /\ h.slot[j].when \in Int
        BY <2>1, <2>3, <3>1, <4>3
      <4>5. h.slot[Parent(p)].when <= h.slot[j].when
        BY <4>2, <4>4, Transitive
      <4> QED BY <3>1, <4>5
    <3> QED BY <3>2, <3>3
  <2>7. CASE j \notin path /\ p \notin path
    BY <1>4, <1>7, <2>1, <2>7 DEF Misplaced
  <2> QED BY <2>4, <2>5, <2>6, <2>7
<1>8. ASSUME NEW j, Child(h, j), Parent(j) = t
      PROVE  /\ t > 0 => b.slot[Parent(t)].when <= b.slot[j].when
             /\ t # i => b.slot[t].when <= b.slot[j].when
  <2>1. /\ j \in Slot /\ j > 0 /\ t \in Slot /\ t < j /\ h.size > 0 /\ i \in Nat /\ t \in Nat
        /\ t > 0 => Parent(t) \in Slot /\ Parent(t) < t
    BY <1>4, <1>8, ChildFacts, SlotFacts DEF Child, Timed
  <2>2. t > 0 => Child(h, t)
    BY <1>8, <2>1 DEF Child, Timed
  <2>3. \A k \in Slot : h.slot[k].when \in Int
    BY DEF Timed
  <2>4. t > 0 => b.slot[Parent(t)] = h.slot[Parent(t)]
    BY <1>4
  <2>5. CASE j \in path
    <3>1. b.slot[j] = h.slot[t] /\ t # i
      BY <1>4, <1>8, <2>1, <2>5
    <3>2. t > 0 => h.slot[Parent(t)].when <= h.slot[t].when
      BY <1>4, <2>1, <2>2, <3>1 DEF Misplaced
    <3>3. h.slot[i].when < h.slot[t].when
      BY <1>4, <3>1
    <3> QED BY <1>4, <2>1, <2>3, <2>4, <3>1, <3>2, <3>3
  <2>6. CASE j \notin path
    <3>1. b.slot[j] = h.slot[j] /\ j # i
      BY <1>4, <2>1, <2>6
    <3>2. CASE t = i
      BY <1>8, <2>4, <3>1, <3>2 DEF Misplaced
    <3>3. CASE t # i
      <4>1. t > 0 => h.slot[Parent(t)].when <= h.slot[t].when
        BY <1>4, <2>1, <2>2, <3>3 DEF Misplaced
      <4>2. h.slot[t].when <= h.slot[j].when
        BY <1>8, <3>1, <3>3 DEF Misplaced
      <4>3. h.slot[i].when < h.slot[t].when
        BY <1>4, <3>3
      <4>4. h.slot[i].when \in Int /\ h.slot[t].when \in Int /\ h.slot[j].when \in Int
        BY <1>4, <2>1, <2>3
      <4>5. h.slot[i].when <= h.slot[j].when
        BY <4>2, <4>3, <4>4, Transitive
      <4>6. t > 0 => h.slot[Parent(t)].when \in Int
        BY <2>1, <2>3
      <4>7. t > 0 => h.slot[Parent(t)].when <= h.slot[j].when
        BY <4>1, <4>2, <4>4, <4>6, Transitive
      <4> QED BY <1>4, <2>4, <3>1, <4>5, <4>7
    <3> QED BY <3>2, <3>3
  <2> QED BY <2>5, <2>6
<1>9. Heavy(b, t)
  BY <1>5, <1>7, <1>8 DEF Heavy
<1>10. ASSUME \A j : Child(h, j) => Parent(j) # i PROVE Ordered(b)
  <2>1. \A j : Child(h, j) => b.slot[Parent(j)].when <= b.slot[j].when
    BY <1>7, <1>8, <1>10
  <2> QED BY <1>4, <2>1 DEF Ordered, Child
<1> QED BY <1>2, <1>3, <1>6, <1>9, <1>10

(* The two children of a slot, and the one that sink chooses.              *)
LEMMA ChosenFacts ==
    ASSUME NEW h, Timed(h), NEW j, Child(h, j), NEW p, p = Parent(j), NEW c, c = Best(h, p)
    PROVE  /\ c \in Slot /\ Child(h, c) /\ Parent(c) = p /\ c > p
           /\ h.slot[c].when <= h.slot[j].when
<1>1. /\ j \in Nat /\ j > 0 /\ p \in Nat /\ p < j /\ j < h.size /\ h.size \in 0 .. Cap
      /\ j = Left(p) \/ j = Right(p)
  BY ChildFacts, ParentFacts, SlotFacts DEF Child, Timed
<1>2. Left(p) \in Nat /\ Right(p) = Left(p) + 1 /\ Left(p) > p
  BY <1>1 DEF Left, Right
<1>3. /\ c = Left(p) \/ c = Right(p)
      /\ c < h.size
  BY <1>1, <1>2 DEF Best
<1>4. c \in Slot /\ Child(h, c) /\ Parent(c) = p /\ c > p
  <2>1. c \in Nat /\ c > 0 /\ c > p
    BY <1>1, <1>2, <1>3
  <2>2. Parent(c) = p
    BY <1>1, <1>3, <2>1, ParentFacts
  <2>3. c \in Slot
    BY <1>1, <1>3, <2>1, CapAssumption DEF Slot
  <2> QED BY <1>1, <1>3, <2>1, <2>2, <2>3 DEF Child
<1>5. h.slot[c].when <= h.slot[j].when
  <2>1. h.slot[c].when \in Int /\ h.slot[j].when \in Int
    BY <1>4, ChildFacts DEF Timed
  <2>2. CASE c = j
    BY <2>1, <2>2
  <2>3. CASE c # j
    BY <1>1, <1>2, <1>3, <2>1, <2>3 DEF Best
  <2> QED BY <2>2, <2>3
<1> QED BY <1>4, <1>5

(* What sink does to the storage.                                          *)
LEMMA SinkMoves ==
    ASSUME NEW h, Timed(h), {"slot", "size", "head"} \subseteq DOMAIN h, NEW i \in Slot,
           NEW path, path = Fall(h, i), NEW b, b = Sink(h, i)
    PROVE  /\ path \in SUBSET Slot /\ i \in path /\ \A j \in path : i <= j
           /\ \A j \in path : j # i => /\ Child(h, j) /\ Parent(j) \in path
                                       /\ j = Best(h, Parent(j))
                                       /\ h.slot[j].when < h.slot[i].when
           /\ \A j \in path : Child(h, Best(h, j)) /\ Parent(Best(h, j)) = j
                              /\ h.slot[Best(h, j)].when < h.slot[i].when => Best(h, j) \in path
           /\ b.size = h.size
           /\ \A j \in Slot : j \notin path => b.slot[j] = h.slot[j]
           /\ \A j \in path : Best(h, j) \in path => b.slot[j] = h.slot[Best(h, j)]
           /\ \A j \in path : Best(h, j) \notin path => b.slot[j] = h.slot[i]
           /\ \A j \in Slot : b.slot[j].when \in Int
<1>1. path \in SUBSET Slot /\ i \in path
  BY FallFacts DEF Timed
<1>2. ASSUME NEW j \in path, j # i
      PROVE  /\ j \in 0 .. h.size - 1 /\ i \in Line(j)
             /\ \A k \in Line(j) : k > i => k = Best(h, Parent(k)) /\ h.slot[i].when > h.slot[k].when
  BY <1>2 DEF Fall
<1>3. \A j \in path : i <= j
  BY <1>1, <1>2, LineFacts, SlotFacts
<1>4. ASSUME NEW j \in path, j # i
      PROVE  /\ Child(h, j) /\ Parent(j) \in path
             /\ j = Best(h, Parent(j)) /\ h.slot[j].when < h.slot[i].when
  <2>1. j \in Slot /\ i \in Nat /\ j \in Nat /\ i < j /\ h.size \in Nat
    BY <1>1, <1>3, <1>4, SlotFacts DEF Timed
  <2>2. Child(h, j)
    BY <1>2, <1>4, <2>1 DEF Child
  <2>3. j \in Line(j) /\ Line(j) = {j} \cup Line(Parent(j)) /\ Parent(j) \in Slot /\ Parent(j) < j
    BY <2>1, <2>2, LineFacts, LineStep, ChildFacts
  <2>4. j = Best(h, Parent(j)) /\ h.slot[j].when < h.slot[i].when
    <3>1. j = Best(h, Parent(j)) /\ h.slot[i].when > h.slot[j].when
      BY <1>2, <1>4, <2>1, <2>3
    <3> QED BY <2>1, <3>1 DEF Timed
  <2>5. Parent(j) \in path
    <3>1. CASE Parent(j) = i
      BY <1>1, <3>1
    <3>2. CASE Parent(j) # i
      <4>1. i \in Line(Parent(j)) /\ Line(Parent(j)) \subseteq Line(j)
        BY <1>2, <1>4, <2>3
      <4>2. Parent(j) \in 0 .. h.size - 1
        <5>1. Parent(j) \in Nat /\ j \in 0 .. h.size - 1
          BY <1>2, <1>4, <2>3, SlotFacts
        <5> QED BY <2>1, <2>3, <5>1
      <4> QED BY <1>2, <1>4, <4>1, <4>2 DEF Fall
    <3> QED BY <3>1, <3>2
  <2> QED BY <2>2, <2>4, <2>5
<1>5. ASSUME NEW j \in path, NEW c, c = Best(h, j), Child(h, c), Parent(c) = j,
             h.slot[c].when < h.slot[i].when
      PROVE  c \in path
  <2>1. /\ c \in Slot /\ c > 0 /\ j \in Slot /\ j < c /\ c \in 0 .. h.size - 1
        /\ h.slot[c].when \in Int /\ h.slot[i].when \in Int
    BY <1>5, ChildFacts DEF Child, Timed
  <2>2. Line(c) = {c} \cup Line(j)
    BY <1>5, <2>1, LineStep
  <2>3. i \in Line(c)
    <3>1. CASE j = i
      BY <2>1, <2>2, <3>1, LineFacts
    <3>2. CASE j # i
      BY <1>2, <2>2, <3>2
    <3> QED BY <3>1, <3>2
  <2>4. ASSUME NEW k \in Line(c), k > i
        PROVE  k = Best(h, Parent(k)) /\ h.slot[i].when > h.slot[k].when
    <3>1. CASE k = c
      BY <1>5, <2>1, <3>1
    <3>2. CASE k \in Line(j)
      <4>1. CASE j = i
        <5>1. k \in Slot /\ k <= i /\ i \in Nat /\ k \in Nat
          BY <3>2, <4>1, LineFacts, SlotFacts
        <5> QED BY <2>4, <5>1
      <4>2. CASE j # i
        BY <1>2, <2>4, <3>2, <4>2
      <4> QED BY <4>1, <4>2
    <3> QED BY <2>2, <2>4, <3>1, <3>2
  <2> QED BY <2>1, <2>3, <2>4 DEF Fall
<1>6. /\ b.size = h.size
      /\ b.slot = [j \in Slot |-> IF j \notin path THEN h.slot[j]
                                ELSE IF Best(h, j) \in path THEN h.slot[Best(h, j)]
                                ELSE h.slot[i]]
  BY DEF Sink
<1>7. \A j \in Slot : b.slot[j].when \in Int
  BY <1>1, <1>6 DEF Timed
<1> QED BY <1>1, <1>3, <1>4, <1>5, <1>6, <1>7

LEMMA SinkOrders ==
    ASSUME NEW h, Timed(h), {"slot", "size", "head"} \subseteq DOMAIN h, NEW i \in Slot,
           Heavy(h, i)
    PROVE  Ordered(Sink(h, i)) /\ Timed(Sink(h, i))
<1>1. PICK path : path = Fall(h, i)
  OBVIOUS
<1>2. PICK b : b = Sink(h, i)
  OBVIOUS
<1>3. /\ path \in SUBSET Slot /\ i \in path /\ \A j \in path : i <= j
      /\ \A j \in path : j # i => /\ Child(h, j) /\ Parent(j) \in path
                                  /\ j = Best(h, Parent(j))
                                  /\ h.slot[j].when < h.slot[i].when
      /\ \A j \in path : Child(h, Best(h, j)) /\ Parent(Best(h, j)) = j
                         /\ h.slot[Best(h, j)].when < h.slot[i].when => Best(h, j) \in path
      /\ b.size = h.size
      /\ \A j \in Slot : j \notin path => b.slot[j] = h.slot[j]
      /\ \A j \in path : Best(h, j) \in path => b.slot[j] = h.slot[Best(h, j)]
      /\ \A j \in path : Best(h, j) \notin path => b.slot[j] = h.slot[i]
      /\ \A j \in Slot : b.slot[j].when \in Int
  BY <1>1, <1>2, SinkMoves
<1>4. \A j \in Slot : h.slot[j].when \in Int
  BY DEF Timed
<1>5. ASSUME NEW j, Child(h, j) PROVE b.slot[Parent(j)].when <= b.slot[j].when
  <2>1. PICK p : p = Parent(j)
    OBVIOUS
  <2>2. PICK c : c = Best(h, p)
    OBVIOUS
  <2>3. /\ j \in Slot /\ p \in Slot /\ p < j /\ j \in Nat /\ p \in Nat /\ i \in Nat
        /\ c \in Slot /\ Child(h, c) /\ Parent(c) = p /\ c > p
        /\ h.slot[c].when <= h.slot[j].when
    BY <1>5, <2>1, <2>2, ChildFacts, ChosenFacts, SlotFacts
  <2>4. CASE p \notin path
    <3>1. b.slot[p] = h.slot[p] /\ p # i /\ (j \in path => j = i)
      BY <1>3, <2>1, <2>3, <2>4
    <3>2. h.slot[p].when <= h.slot[j].when
      BY <1>5, <2>1, <3>1 DEF Heavy
    <3>3. CASE j \notin path
      BY <1>3, <2>1, <2>3, <3>1, <3>2, <3>3
    <3>4. CASE j = i /\ Best(h, i) \notin path
      BY <1>3, <2>1, <3>1, <3>2, <3>4
    <3>5. CASE j = i /\ Best(h, i) \in path
      <4>1. PICK d : d = Best(h, i)
        OBVIOUS
      <4>2. d \in Slot /\ d # i
        <5>1. Left(i) # i /\ Right(i) # i
          BY <2>3 DEF Left, Right
        <5> QED BY <1>3, <3>5, <4>1, <5>1 DEF Best
      <4>3. Child(h, d) /\ Parent(d) \in path /\ d = Best(h, Parent(d))
        BY <1>3, <3>5, <4>1, <4>2
      <4>4. Parent(d) = i
        <5>1. d = Left(i) \/ d = Right(i)
          BY <4>1 DEF Best
        <5> QED BY <2>3, <4>2, <4>3, <5>1, ParentFacts, ChildFacts, SlotFacts
      <4>5. h.slot[Parent(i)].when <= h.slot[d].when
        BY <2>3, <3>5, <4>3, <4>4 DEF Heavy
      <4> QED BY <1>3, <2>1, <3>1, <3>5, <4>1, <4>5
    <3> QED BY <3>1, <3>3, <3>4, <3>5
  <2>5. CASE p \in path /\ c \in path
    <3>1. b.slot[p] = h.slot[c] /\ c # i /\ h.slot[c].when < h.slot[i].when
      BY <1>3, <2>2, <2>3, <2>5
    <3>2. CASE j \notin path
      BY <1>3, <2>1, <2>3, <3>1, <3>2
    <3>3. CASE j \in path /\ Best(h, j) \notin path
      BY <1>3, <1>4, <2>1, <2>3, <3>1, <3>3
    <3>4. CASE j \in path /\ Best(h, j) \in path
      <4>1. PICK d : d = Best(h, j)
        OBVIOUS
      <4>2. j # i /\ j = c
        BY <1>3, <2>1, <2>2, <2>3, <2>5, <3>4
      <4>3. d = Left(j) \/ d = Right(j)
        BY <4>1 DEF Best
      <4>4. d \in Nat /\ d > 0 /\ d > j
        BY <2>3, <4>3 DEF Left, Right
      <4>5. Child(h, d) /\ Parent(d) = j
        BY <1>3, <2>3, <3>4, <4>1, <4>2, <4>3, <4>4, ParentFacts
      <4>6. h.slot[j].when <= h.slot[d].when
        BY <4>2, <4>5 DEF Heavy
      <4> QED BY <1>3, <2>1, <3>1, <3>4, <4>1, <4>2, <4>6
    <3> QED BY <3>2, <3>3, <3>4
  <2>6. CASE p \in path /\ c \notin path
    <3>1. b.slot[p] = h.slot[i]
      BY <1>3, <2>2, <2>6
    <3>2. j \notin path
      BY <1>3, <2>1, <2>2, <2>3, <2>6
    <3>3. h.slot[i].when <= h.slot[c].when
      BY <1>3, <1>4, <2>2, <2>3, <2>6
    <3>4. h.slot[i].when <= h.slot[j].when
      BY <1>4, <2>3, <3>3, Transitive
    <3> QED BY <1>3, <2>1, <2>3, <3>1, <3>2, <3>4
  <2> QED BY <2>4, <2>5, <2>6
<1>6. Ordered(b)
  BY <1>3, <1>5 DEF Ordered, Child
<1>7. Timed(b)
  BY <1>3 DEF Timed
<1> QED BY <1>2, <1>6, <1>7

(* So the operations keep a heap in order, whatever position they are given.*)
LEMMA ReadjustOrders ==
    ASSUME NEW h, Timed(h), {"slot", "size", "head"} \subseteq DOMAIN h, NEW i \in Slot,
           Misplaced(h, i)
    PROVE  Ordered(Readjust(h, i))
<1>1. PICK b : b = Bubble(h, i)
  OBVIOUS
<1>2. Timed(b) /\ Heavy(b, Top(h, i))
  BY <1>1, BubbleOrders
<1>3. {"slot", "size", "head"} \subseteq DOMAIN b
  BY <1>1 DEF Bubble
<1>4. Top(h, i) \in Slot
  BY ClimbFacts
<1> QED BY <1>1, <1>2, <1>3, <1>4, SinkOrders DEF Readjust

LEMMA PutOrders ==
    ASSUME NEW h, Timed(h), {"slot", "size", "head"} \subseteq DOMAIN h, Ordered(h),
           h.slot = [j \in Slot |-> h.slot[j]],
           h.size < Cap, NEW e, e.when \in Int
    PROVE  Ordered(HeapPut(h, e))
<1>1. PICK n : n = h.size
  OBVIOUS
<1>2. PICK b : b = Pushed(h, e)
  OBVIOUS
<1>3. n \in Slot /\ n \in Nat /\ n + 1 \in 0 .. Cap
  BY <1>1, CapAssumption DEF Timed, Slot
<1>4. /\ b.size = n + 1 /\ b.slot[n] = e /\ {"slot", "size", "head"} \subseteq DOMAIN b
      /\ \A j \in Slot : j # n => b.slot[j] = h.slot[j]
  BY <1>1, <1>2, <1>3 DEF Pushed
<1>5. Timed(b)
  BY <1>3, <1>4 DEF Timed
<1>6. ASSUME NEW j, Child(b, j) PROVE /\ j \in Slot /\ Parent(j) \in Slot /\ Parent(j) # n
                                      /\ j # n => Child(h, j)
  <2>1. j \in Slot /\ Parent(j) \in Slot /\ Parent(j) < j /\ j \in Nat /\ j <= n /\ j > 0
    BY <1>3, <1>4, <1>5, <1>6, ChildFacts, SlotFacts DEF Child
  <2>2. Parent(j) # n
    BY <1>3, <2>1, SlotFacts
  <2> QED BY <1>1, <1>3, <2>1, <2>2 DEF Child
<1>7. Misplaced(b, n)
  BY <1>4, <1>6 DEF Misplaced, Ordered, Child
<1>8. Ordered(Bubble(b, n))
  BY <1>3, <1>4, <1>5, <1>6, <1>7, BubbleOrders
<1> QED BY <1>1, <1>2, <1>8 DEF HeapPut

LEMMA DeleteOrders ==
    ASSUME NEW h, Timed(h), {"slot", "size", "head"} \subseteq DOMAIN h, Ordered(h),
           h.slot = [j \in Slot |-> h.slot[j]],
           h.size > 0, NEW i \in Slot
    PROVE  Ordered(HeapDelete(h, i))
<1>1. PICK n : n = h.size - 1
  OBVIOUS
<1>2. PICK b : b = Popped(h, i)
  OBVIOUS
<1>3. n \in Slot /\ n \in Nat /\ n \in 0 .. Cap /\ h.size \in Nat
  BY <1>1, CapAssumption DEF Timed, Slot
<1>4. /\ b.size = n /\ b.slot[i] = h.slot[n] /\ {"slot", "size", "head"} \subseteq DOMAIN b
      /\ \A j \in Slot : j # i => b.slot[j] = h.slot[j]
  BY <1>1, <1>2, <1>3 DEF Popped
<1>5. Timed(b)
  BY <1>3, <1>4 DEF Timed
<1>6. ASSUME NEW j, Child(b, j)
      PROVE  /\ j \in Slot /\ Parent(j) \in Slot /\ Child(h, j) /\ Parent(j) < j /\ j \in Nat
             /\ Parent(j) > 0 => Child(h, Parent(j)) /\ Parent(Parent(j)) \in Slot
                                 /\ Parent(Parent(j)) # Parent(j)
             /\ Parent(j) \in Nat
  <2>1. Child(h, j)
    BY <1>1, <1>3, <1>4, <1>6 DEF Child
  <2>2. /\ j \in Slot /\ Parent(j) \in Slot /\ Parent(j) < j /\ j \in Nat /\ Parent(j) \in Nat
        /\ Parent(j) > 0 => Parent(Parent(j)) \in Slot /\ Parent(Parent(j)) < Parent(j)
    BY <2>1, ChildFacts, SlotFacts
  <2>3. Parent(j) > 0 => Child(h, Parent(j)) /\ Parent(Parent(j)) # Parent(j)
    BY <1>3, <2>1, <2>2, SlotFacts DEF Child
  <2> QED BY <2>1, <2>2, <2>3
<1>7. \A j : Child(h, j) => h.slot[Parent(j)].when <= h.slot[j].when
  BY DEF Ordered, Child
<1>8. Misplaced(b, i)
  <2>1. ASSUME NEW j, Child(b, j), j # i, Parent(j) # i
        PROVE  b.slot[Parent(j)].when <= b.slot[j].when
    BY <1>4, <1>6, <1>7, <2>1
  <2>2. ASSUME NEW j, Child(b, j), Parent(j) = i, i > 0
        PROVE  b.slot[Parent(i)].when <= b.slot[j].when
    <3>1. j \in Slot /\ j # i /\ Child(h, j) /\ Child(h, i) /\ Parent(i) \in Slot /\ Parent(i) # i
      BY <1>6, <2>2
    <3>2. h.slot[Parent(i)].when <= h.slot[i].when /\ h.slot[i].when <= h.slot[j].when
      BY <1>7, <2>2, <3>1
    <3>3. h.slot[Parent(i)].when <= h.slot[j].when
      BY <3>1, <3>2, Transitive DEF Timed
    <3> QED BY <1>4, <3>1, <3>3
  <2> QED BY <2>1, <2>2 DEF Misplaced
<1> QED BY <1>2, <1>4, <1>5, <1>8, ReadjustOrders DEF HeapDelete

(* Moving the element on top to another time.                              *)
LEMMA MovedOrders ==
    ASSUME NEW h, Timed(h), {"slot", "size", "head"} \subseteq DOMAIN h, Ordered(h),
           NEW b, b.size = h.size, {"slot", "size", "head"} \subseteq DOMAIN b,
           b.slot[0].when \in Int, \A j \in Slot : j # 0 => b.slot[j] = h.slot[j]
    PROVE  Ordered(Readjust(b, 0))
<1>1. Timed(b)
  BY DEF Timed
<1>2. Misplaced(b, 0)
  <2> SUFFICES ASSUME NEW j, Child(b, j), j # 0, Parent(j) # 0
               PROVE  b.slot[Parent(j)].when <= b.slot[j].when
    BY DEF Misplaced
  <2>1. j \in Slot /\ Parent(j) \in Slot
    BY <1>1, ChildFacts
  <2> QED BY <2>1 DEF Ordered, Child
<1> QED BY <1>1, <1>2, SlotFacts, ReadjustOrders

(* The element on top of a heap in order is an earliest one.               *)
LEMMA TopEarliest ==
    ASSUME NEW h, Timed(h), Ordered(h)
    PROVE  \A j \in 0 .. h.size - 1 : h.slot[0].when <= h.slot[j].when
<1> DEFINE S == {j \in Slot : j < h.size /\ h.slot[j].when < h.slot[0].when}
<1>1. ASSUME S # {} PROVE FALSE
  <2>1. S \in SUBSET Nat
    BY SlotFacts
  <2>2. PICK j \in S : \A k \in S : j <= k
    <3> HIDE DEF S
    <3> QED BY <1>1, <2>1, LowestFacts
  <2>3. j \in Slot /\ j \in Nat /\ j < h.size /\ 0 \in Slot /\ h.slot[j].when < h.slot[0].when
    BY SlotFacts
  <2>4. j > 0 /\ Child(h, j)
    BY <2>3 DEF Timed, Child
  <2>5. Parent(j) \in Slot /\ Parent(j) < j /\ Parent(j) \in Nat
    BY <2>4, ChildFacts, SlotFacts
  <2>6. h.slot[Parent(j)].when <= h.slot[j].when
    BY <2>4 DEF Ordered, Child
  <2>7. h.slot[Parent(j)].when < h.slot[0].when
    BY <2>3, <2>5, <2>6 DEF Timed
  <2>8. Parent(j) \in S
    BY <2>3, <2>5, <2>7 DEF Timed
  <2> QED BY <2>2, <2>3, <2>5, <2>8
<1>2. \A j \in 0 .. h.size - 1 : j \in Slot /\ j < h.size
  BY CapAssumption DEF Timed, Slot
<1> QED BY <1>1, <1>2, SlotFacts DEF Timed
=============================================================================
