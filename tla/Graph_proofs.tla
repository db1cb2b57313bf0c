---------------------------- MODULE Graph_proofs ----------------------------
(***************************************************************************)
(* For any number of nodes, any keys and any clients: the collector frees  *)
(* what no root reaches and nothing else, and the graph is what graph.h    *)
(* promises.  Reachability is stated by closed sets, so nothing here needs *)
(* an induction over paths: what the marker has reached and finished with  *)
(* is closed, and so has all that the roots reach.                         *)
(*                                                                         *)
(* And the counts of back references never fall behind the references, and *)
(* are exact as long as salloc overwrites none.  That a count is positive  *)
(* when a reference goes is what rm_backref relies on, and follows from    *)
(* the same invariant.                                                     *)
(*                                                                         *)
(* And dcopy copies what the roots reach, whole.  What has been seen is    *)
(* closed but for the pairs that calls are still to come to, and each step *)
(* leaves less to do, so each of its recursions ends with a closed set.    *)
(***************************************************************************)
EXTENDS GraphCopy, FiniteSetTheorems, TLAPS

(* For its induction and recursion over numbers.                           *)
Store == INSTANCE NodeStore_proofs

(***************************************************************************)
(* The types of a graph and what the operators on graphs do.               *)
(***************************************************************************)
GraphOK(g) ==
    /\ g = [node |-> g.node, sweep |-> g.sweep, last_id |-> g.last_id]
    /\ DOMAIN g.node \subseteq Ref
    /\ g.node \in [DOMAIN g.node -> Node]
    /\ g.sweep \in Nat
    /\ g.last_id \in 0 .. MaxRef

(* One field of a node changed, and one pair among the pairs of all nodes. *)
Backed(g, to, from, c) == [g EXCEPT !.node[to].back[from] = c]
Paired(g, n, k, v)     == [g EXCEPT !.node[n].pairs[k] = v]
Swept(g, n, s)         == [g EXCEPT !.node[n].gcsweep = s]
PutIn(pairs, n, k, v)  == [pairs EXCEPT ![n][k] = v]

(* h has the nodes D; those that g has with the marks and pairs they have  *)
(* there.                                                                  *)
Alike(g, h, D) ==
    \A n \in D : /\ n \in DOMAIN g.node /\ n \in DOMAIN h.node
                 /\ h.node[n].gcsweep = g.node[n].gcsweep
                 /\ h.node[n].pairs = g.node[n].pairs

LEMMA NullFacts == NullRef \notin Ref /\ MaxRef \in Nat /\ NullRef = -1
BY GraphAssumption DEF NullRef, Ref

LEMMA NodeFacts ==
    ASSUME NEW x \in Node
    PROVE  /\ x = [gcsweep |-> x.gcsweep, back |-> x.back, pairs |-> x.pairs]
           /\ x.gcsweep \in Nat \cup {-1}
           /\ x.back \in [Ref -> Nat]
           /\ x.pairs \in [Keys -> Ref \cup {NullRef}]
BY DEF Node

LEMMA GraphNode ==
    ASSUME NEW g, GraphOK(g), NEW n \in DOMAIN g.node
    PROVE  g.node[n] \in Node /\ n \in Ref
BY DEF GraphOK

LEMMA GraphFields ==
    ASSUME NEW g, GraphOK(g), NEW a, NEW b
    PROVE  [g EXCEPT !.node = a, !.last_id = b] = [node |-> a, sweep |-> g.sweep, last_id |-> b]
<1>1. g = [node |-> g.node, sweep |-> g.sweep, last_id |-> g.last_id]
  BY DEF GraphOK
<1> DEFINE h == [g EXCEPT !.node = a]
<1>2. h = [node |-> a, sweep |-> g.sweep, last_id |-> g.last_id]
  BY <1>1
<1>3. [g EXCEPT !.node = a, !.last_id = b] = [h EXCEPT !.last_id = b]
  OBVIOUS
<1> HIDE DEF h
<1>4. [h EXCEPT !.last_id = b] = [node |-> a, sweep |-> g.sweep, last_id |-> b]
  BY <1>2
<1> QED BY <1>3, <1>4

LEMMA AllocatedFacts ==
    ASSUME NEW g, GraphOK(g), NEW r \in Ref, r \notin DOMAIN g.node, NEW s \in Nat \cup {-1}
    PROVE  LET h == Allocated(g, r, s) IN
           /\ GraphOK(h)
           /\ DOMAIN h.node = DOMAIN g.node \cup {r}
           /\ h.sweep = g.sweep /\ h.last_id = r
           /\ Alike(g, h, DOMAIN g.node)
           /\ h.node[r] = [gcsweep |-> s, back |-> [m \in Ref |-> 0],
                           pairs |-> [k \in Keys |-> NullRef]]
<1> DEFINE new == [gcsweep |-> s, back |-> [m \in Ref |-> 0], pairs |-> [k \in Keys |-> NullRef]]
           nodes == [n \in DOMAIN g.node \cup {r} |-> IF n = r THEN new ELSE g.node[n]]
           h == Allocated(g, r, s)
<1>1. h = [node |-> nodes, sweep |-> g.sweep, last_id |-> r]
  BY GraphFields DEF Allocated
<1>2. new \in Node
  BY DEF Node
<1>3. nodes \in [DOMAIN g.node \cup {r} -> Node]
  BY <1>2 DEF GraphOK
<1>4. r \in 0 .. MaxRef
  BY GraphAssumption DEF Ref
<1> HIDE DEF new
<1>5. GraphOK(h) /\ DOMAIN h.node = DOMAIN g.node \cup {r} /\ h.sweep = g.sweep /\ h.last_id = r
  BY <1>1, <1>3, <1>4 DEF GraphOK
<1>6. Alike(g, h, DOMAIN g.node) /\ h.node[r] = new
  BY <1>1 DEF Alike
<1> QED BY <1>5, <1>6 DEF new

(* h is g but for counts of back references.                               *)
Recounted(g, h) ==
    /\ GraphOK(h)
    /\ DOMAIN h.node = DOMAIN g.node
    /\ h.sweep = g.sweep /\ h.last_id = g.last_id
    /\ Alike(g, h, DOMAIN g.node)

(* Another number in a count of back references.                           *)
LEMMA CountFacts ==
    ASSUME NEW g, GraphOK(g), NEW to \in DOMAIN g.node, NEW from, NEW c \in Nat
    PROVE  Recounted(g, Backed(g, to, from, c))
<1> DEFINE new == [g.node[to] EXCEPT !.back[from] = c]
           nodes == [g.node EXCEPT ![to] = new]
           h == Backed(g, to, from, c)
<1>1. h = [node |-> nodes, sweep |-> g.sweep, last_id |-> g.last_id]
  BY DEF GraphOK, Backed
<1>2. g.node[to] \in Node
  BY GraphNode
<1>3. new \in Node /\ new.gcsweep = g.node[to].gcsweep /\ new.pairs = g.node[to].pairs
  BY <1>2 DEF Node
<1> HIDE DEF new
<1>4. nodes \in [DOMAIN g.node -> Node] /\ DOMAIN nodes = DOMAIN g.node
  BY <1>3 DEF GraphOK
<1>5. GraphOK(h) /\ DOMAIN h.node = DOMAIN g.node /\ h.sweep = g.sweep /\ h.last_id = g.last_id
  BY <1>1, <1>4 DEF GraphOK
<1>6. Alike(g, h, DOMAIN g.node)
  BY <1>1, <1>3 DEF Alike
<1> QED BY <1>5, <1>6 DEF Recounted

(* Another reference in a pair.                                            *)
LEMMA PairFacts ==
    ASSUME NEW g, GraphOK(g), NEW n \in DOMAIN g.node, NEW k \in Keys, NEW v \in Ref \cup {NullRef}
    PROVE  LET h == Paired(g, n, k, v) IN
           /\ GraphOK(h)
           /\ DOMAIN h.node = DOMAIN g.node
           /\ h.sweep = g.sweep /\ h.last_id = g.last_id
           /\ \A m \in DOMAIN g.node : h.node[m].gcsweep = g.node[m].gcsweep
           /\ \A m \in DOMAIN g.node \ {n} : h.node[m].pairs = g.node[m].pairs
           /\ h.node[n].pairs = [g.node[n].pairs EXCEPT ![k] = v]
<1> DEFINE new == [g.node[n] EXCEPT !.pairs[k] = v]
           nodes == [g.node EXCEPT ![n] = new]
           h == Paired(g, n, k, v)
<1>1. h = [node |-> nodes, sweep |-> g.sweep, last_id |-> g.last_id]
  BY DEF GraphOK, Paired
<1>2. g.node[n] \in Node
  BY GraphNode
<1>3. /\ new \in Node /\ new.gcsweep = g.node[n].gcsweep
      /\ new.pairs = [g.node[n].pairs EXCEPT ![k] = v]
  BY <1>2 DEF Node
<1> HIDE DEF new
<1>4. nodes \in [DOMAIN g.node -> Node] /\ DOMAIN nodes = DOMAIN g.node
  BY <1>3 DEF GraphOK
<1>5. GraphOK(h) /\ DOMAIN h.node = DOMAIN g.node /\ h.sweep = g.sweep /\ h.last_id = g.last_id
  BY <1>1, <1>4 DEF GraphOK
<1>6. \A m \in DOMAIN g.node : h.node[m] = IF m = n THEN new ELSE g.node[m]
  BY <1>1
<1> QED BY <1>3, <1>5, <1>6

(* Another mark.                                                           *)
LEMMA SweepFacts ==
    ASSUME NEW g, GraphOK(g), NEW n \in DOMAIN g.node, NEW s \in Nat \cup {-1}
    PROVE  LET h == Swept(g, n, s) IN
           /\ GraphOK(h)
           /\ DOMAIN h.node = DOMAIN g.node
           /\ h.sweep = g.sweep /\ h.last_id = g.last_id
           /\ \A m \in DOMAIN g.node : h.node[m].pairs = g.node[m].pairs
           /\ \A m \in DOMAIN g.node \ {n} : h.node[m].gcsweep = g.node[m].gcsweep
           /\ h.node[n].gcsweep = s
<1> DEFINE new == [g.node[n] EXCEPT !.gcsweep = s]
           nodes == [g.node EXCEPT ![n] = new]
           h == Swept(g, n, s)
<1>1. h = [node |-> nodes, sweep |-> g.sweep, last_id |-> g.last_id]
  BY DEF GraphOK, Swept
<1>2. g.node[n] \in Node
  BY GraphNode
<1>3. new \in Node /\ new.gcsweep = s /\ new.pairs = g.node[n].pairs
  BY <1>2 DEF Node
<1> HIDE DEF new
<1>4. nodes \in [DOMAIN g.node -> Node] /\ DOMAIN nodes = DOMAIN g.node
  BY <1>3 DEF GraphOK
<1>5. GraphOK(h) /\ DOMAIN h.node = DOMAIN g.node /\ h.sweep = g.sweep /\ h.last_id = g.last_id
  BY <1>1, <1>4 DEF GraphOK
<1>6. \A m \in DOMAIN g.node : h.node[m] = IF m = n THEN new ELSE g.node[m]
  BY <1>1
<1> QED BY <1>3, <1>5, <1>6

LEMMA AddBackrefFacts ==
    ASSUME NEW g, GraphOK(g), NEW to, NEW from \in Ref
    PROVE  Recounted(g, AddBackref(g, to, from))
<1>1. CASE to \in DOMAIN g.node
  <2> DEFINE c == g.node[to].back[from] + 1
  <2>1. c \in Nat
    BY <1>1, GraphNode, NodeFacts
  <2>2. AddBackref(g, to, from) = Backed(g, to, from, c)
    BY <1>1 DEF AddBackref, Backed
  <2> HIDE DEF c
  <2>3. Recounted(g, Backed(g, to, from, c))
    BY <1>1, <2>1, CountFacts
  <2> QED BY <2>2, <2>3
<1>2. CASE to \notin DOMAIN g.node
  BY <1>2 DEF AddBackref, Recounted, Alike
<1> QED BY <1>1, <1>2

LEMMA RmBackrefFacts ==
    ASSUME NEW g, GraphOK(g), NEW to, NEW from \in Ref
    PROVE  Recounted(g, RmBackref(g, to, from))
<1>1. CASE to \in DOMAIN g.node /\ g.node[to].back[from] > 0
  <2> DEFINE c == g.node[to].back[from] - 1
  <2>1. c \in Nat
    BY <1>1, GraphNode, NodeFacts
  <2>2. RmBackref(g, to, from) = Backed(g, to, from, c)
    BY <1>1 DEF RmBackref, Backed
  <2> HIDE DEF c
  <2>3. Recounted(g, Backed(g, to, from, c))
    BY <1>1, <2>1, CountFacts
  <2> QED BY <2>2, <2>3
<1>2. CASE ~ (to \in DOMAIN g.node /\ g.node[to].back[from] > 0)
  BY <1>2 DEF RmBackref, Recounted, Alike
<1> QED BY <1>1, <1>2

LEMMA RefsCounted ==
    ASSUME NEW g, NEW to, NEW from
    PROVE  Refs(g, to, from) \in Nat
<1>1. IsFiniteSet({k \in Keys : g.node[from].pairs[k] = to})
  BY GraphAssumption, FS_Subset
<1> QED BY <1>1, FS_CardinalityType DEF Refs

LEMMA CleanRemoveFacts ==
    ASSUME NEW g, GraphOK(g), NEW n \in DOMAIN g.node
    PROVE  LET h == CleanRemove(g, n) IN
           /\ GraphOK(h)
           /\ DOMAIN h.node = DOMAIN g.node \ {n}
           /\ h.sweep = g.sweep /\ h.last_id = g.last_id
           /\ Alike(g, h, DOMAIN g.node \ {n})
<1> DEFINE left(m) == LET c == g.node[m].back[n]
                          r == Refs(g, m, n)
                      IN  IF c > r THEN c - r ELSE 0
           new(m) == [g.node[m] EXCEPT !.back[n] = left(m)]
           nodes == [m \in DOMAIN g.node \ {n} |-> new(m)]
           h == CleanRemove(g, n)
<1>1. h = [g EXCEPT !.node = nodes]
  BY DEF CleanRemove
<1>2. \A m \in DOMAIN g.node : left(m) \in Nat
  <2> SUFFICES ASSUME NEW m \in DOMAIN g.node PROVE left(m) \in Nat
    OBVIOUS
  <2>1. g.node[m].back[n] \in Nat /\ Refs(g, m, n) \in Nat
    BY GraphNode, NodeFacts, RefsCounted
  <2> QED BY <2>1
<1> HIDE DEF left
<1>3. \A m \in DOMAIN g.node : /\ new(m) \in Node
                               /\ new(m).gcsweep = g.node[m].gcsweep
                               /\ new(m).pairs = g.node[m].pairs
  BY <1>2, GraphNode DEF Node
<1> HIDE DEF new
<1>4. nodes \in [DOMAIN g.node \ {n} -> Node] /\ DOMAIN nodes = DOMAIN g.node \ {n}
  BY <1>3
<1>5. h = [node |-> nodes, sweep |-> g.sweep, last_id |-> g.last_id]
  <2> HIDE DEF nodes, h
  <2>1. g = [node |-> g.node, sweep |-> g.sweep, last_id |-> g.last_id]
    BY DEF GraphOK
  <2> QED BY <1>1, <2>1
<1>6. GraphOK(h) /\ DOMAIN h.node = DOMAIN g.node \ {n} /\ h.sweep = g.sweep /\ h.last_id = g.last_id
  BY <1>4, <1>5 DEF GraphOK
<1>7. Alike(g, h, DOMAIN g.node \ {n})
  BY <1>3, <1>5 DEF Alike
<1> QED BY <1>6, <1>7

(***************************************************************************)
(* What the abstract graph sees, and what holds while no collection runs.  *)
(***************************************************************************)
RootsOf(g) == {n \in DOMAIN g.node : g.node[n].gcsweep = -1}
PairsOf(g) == [n \in DOMAIN g.node |-> g.node[n].pairs]

Whole(g)  == \A n \in DOMAIN g.node, k \in Keys :
                 g.node[n].pairs[k] \in DOMAIN g.node \cup {NullRef}
Within(g) == \A n \in DOMAIN g.node : g.node[n].gcsweep <= g.sweep
Sane(g)   == GraphOK(g) /\ Whole(g) /\ Within(g)

LEMMA RecountedFacts ==
    ASSUME NEW g, NEW h, Recounted(g, h)
    PROVE  /\ RootsOf(h) = RootsOf(g) /\ PairsOf(h) = PairsOf(g)
           /\ Sane(g) => Sane(h)
BY DEF Recounted, Alike, RootsOf, PairsOf, Sane, Whole, Within

LEMMA AllocSees ==
    ASSUME NEW g, Sane(g), NEW r \in Ref, r \notin DOMAIN g.node, NEW s \in {-1, 0}
    PROVE  LET h == Allocated(g, r, s)
               empty == [k \in Keys |-> NullRef]
           IN  /\ Sane(h)
               /\ h.sweep = g.sweep
               /\ RootsOf(h) = IF s = -1 THEN RootsOf(g) \cup {r} ELSE RootsOf(g)
               /\ PairsOf(h) = [n \in DOMAIN g.node \cup {r} |->
                                   IF n = r THEN empty ELSE PairsOf(g)[n]]
<1> DEFINE h == Allocated(g, r, s)
           empty == [k \in Keys |-> NullRef]
<1>1. /\ GraphOK(h) /\ DOMAIN h.node = DOMAIN g.node \cup {r}
      /\ h.sweep = g.sweep /\ Alike(g, h, DOMAIN g.node)
      /\ h.node[r].gcsweep = s /\ h.node[r].pairs = empty
  <2>1. GraphOK(g) /\ s \in Nat \cup {-1}
    BY DEF Sane
  <2> HIDE DEF h
  <2>2. /\ GraphOK(h) /\ DOMAIN h.node = DOMAIN g.node \cup {r}
        /\ h.sweep = g.sweep /\ Alike(g, h, DOMAIN g.node)
        /\ h.node[r] = [gcsweep |-> s, back |-> [m \in Ref |-> 0], pairs |-> empty]
    BY <2>1, AllocatedFacts DEF h
  <2> QED BY <2>2
<1> HIDE DEF h
<1>2. Whole(h)
  BY <1>1 DEF Sane, Whole, Alike
<1>3. Within(h)
  BY <1>1 DEF Sane, Within, Alike, GraphOK
<1>4. RootsOf(h) = IF s = -1 THEN RootsOf(g) \cup {r} ELSE RootsOf(g)
  BY <1>1 DEF RootsOf, Alike
<1>5. PairsOf(h) = [n \in DOMAIN g.node \cup {r} |-> IF n = r THEN empty ELSE PairsOf(g)[n]]
  BY <1>1 DEF PairsOf, Alike
<1> QED BY <1>1, <1>2, <1>3, <1>4, <1>5 DEF Sane, h

LEMMA PairSees ==
    ASSUME NEW g, Sane(g), NEW n \in DOMAIN g.node, NEW k \in Keys,
           NEW v \in DOMAIN g.node \cup {NullRef}
    PROVE  LET h == Paired(g, n, k, v)
           IN  /\ Sane(h)
               /\ h.sweep = g.sweep
               /\ RootsOf(h) = RootsOf(g)
               /\ PairsOf(h) = PutIn(PairsOf(g), n, k, v)
<1> DEFINE h == Paired(g, n, k, v)
           p == [g.node[n].pairs EXCEPT ![k] = v]
<1>1. GraphOK(g) /\ v \in Ref \cup {NullRef}
  BY DEF Sane, GraphOK
<1> HIDE DEF h, p
<1>2. /\ GraphOK(h) /\ DOMAIN h.node = DOMAIN g.node /\ h.sweep = g.sweep
      /\ \A m \in DOMAIN g.node : h.node[m].gcsweep = g.node[m].gcsweep
      /\ \A m \in DOMAIN g.node : h.node[m].pairs = IF m = n THEN p ELSE g.node[m].pairs
  BY <1>1, PairFacts DEF h, p
<1>3. g.node[n].pairs \in [Keys -> Ref \cup {NullRef}]
  BY <1>1, GraphNode, NodeFacts
<1>4. \A l \in Keys : p[l] = IF l = k THEN v ELSE g.node[n].pairs[l]
  BY <1>3 DEF p
<1>5. Whole(h)
  BY <1>2, <1>4 DEF Sane, Whole
<1>6. Within(h) /\ RootsOf(h) = RootsOf(g)
  BY <1>2 DEF Sane, Within, RootsOf
<1>7. PairsOf(h) = PutIn(PairsOf(g), n, k, v)
  BY <1>2 DEF PairsOf, p, PutIn
<1> QED BY <1>2, <1>5, <1>6, <1>7 DEF Sane, h

LEMMA SweepSees ==
    ASSUME NEW g, Sane(g), NEW n \in DOMAIN g.node, NEW s \in Nat \cup {-1}, s <= g.sweep
    PROVE  LET h == Swept(g, n, s)
           IN  /\ Sane(h)
               /\ h.sweep = g.sweep
               /\ RootsOf(h) = IF s = -1 THEN RootsOf(g) \cup {n} ELSE RootsOf(g) \ {n}
               /\ PairsOf(h) = PairsOf(g)
<1> DEFINE h == Swept(g, n, s)
<1>1. GraphOK(g)
  BY DEF Sane
<1> HIDE DEF h
<1>2. /\ GraphOK(h) /\ DOMAIN h.node = DOMAIN g.node /\ h.sweep = g.sweep
      /\ \A m \in DOMAIN g.node : h.node[m].pairs = g.node[m].pairs
      /\ \A m \in DOMAIN g.node : h.node[m].gcsweep = IF m = n THEN s ELSE g.node[m].gcsweep
  BY <1>1, SweepFacts DEF h
<1>3. Whole(h) /\ PairsOf(h) = PairsOf(g)
  BY <1>2 DEF Sane, Whole, PairsOf
<1>4. Within(h)
  BY <1>2 DEF Sane, Within
<1>5. RootsOf(h) = IF s = -1 THEN RootsOf(g) \cup {n} ELSE RootsOf(g) \ {n}
  BY <1>2 DEF RootsOf
<1> QED BY <1>2, <1>3, <1>4, <1>5 DEF Sane, h

(***************************************************************************)
(* The steps of the abstract graph, by what it sees.                       *)
(***************************************************************************)
LEMMA PromisedAlloc ==
    ASSUME NEW n, n \notin Live, RootsOf(graph') = RootsOf(graph) \cup {n},
           PairsOf(graph') = [m \in Live \cup {n} |->
               IF m = n THEN [k \in Keys |-> NullRef] ELSE PairsOf(graph)[m]]
    PROVE  Promised!Alloc(n)
BY DEF Promised!Alloc, Promised!With, Promised!Empty, Promised!Live, RootsOf, PairsOf, Live

LEMMA PromisedSalloc ==
    ASSUME NEW n, n \notin Live, NEW base \in Live \cup {n}, NEW k,
           RootsOf(graph') = RootsOf(graph),
           PairsOf(graph') = [[m \in Live \cup {n} |->
               IF m = n THEN [l \in Keys |-> NullRef] ELSE PairsOf(graph)[m]] EXCEPT ![base][k] = n]
    PROVE  Promised!Salloc(n, base, k)
BY DEF Promised!Salloc, Promised!With, Promised!Empty, Promised!Live, RootsOf, PairsOf, Live

LEMMA PromisedMark ==
    ASSUME NEW n, RootsOf(graph') = RootsOf(graph) \cup {n}, PairsOf(graph') = PairsOf(graph)
    PROVE  Promised!Mark(n)
BY DEF Promised!Mark, RootsOf, PairsOf, Live

LEMMA PromisedUnmark ==
    ASSUME NEW n, RootsOf(graph') = RootsOf(graph) \ {n}, PairsOf(graph') = PairsOf(graph)
    PROVE  Promised!Unmark(n)
BY DEF Promised!Unmark, RootsOf, PairsOf, Live

LEMMA PromisedAssign ==
    ASSUME NEW n, NEW k, NEW v \in Live \cup {NullRef}, RootsOf(graph') = RootsOf(graph),
           PairsOf(graph') = PutIn(PairsOf(graph), n, k, v)
    PROVE  Promised!Assign(n, k, v)
BY DEF Promised!Assign, Promised!Live, RootsOf, PairsOf, Live, PutIn

LEMMA PromisedStutter ==
    ASSUME RootsOf(graph') = RootsOf(graph), PairsOf(graph') = PairsOf(graph)
    PROVE  UNCHANGED Promised!vars
BY DEF Promised!vars, RootsOf, PairsOf, Live

(***************************************************************************)
(* The functions of graph.h.                                               *)
(***************************************************************************)
SaneStep == /\ Sane(graph') /\ graph'.sweep = graph.sweep
            /\ [Promised!Next]_(Promised!vars)

LEMMA AllocStep ==
    ASSUME Sane(graph), Alloc
    PROVE  SaneStep
<1>1. PICK r \in Ref : r \notin Live /\ graph' = Allocated(graph, r, -1)
  BY DEF Alloc, Call
<1> DEFINE with == [m \in Live \cup {r} |-> IF m = r THEN [k \in Keys |-> NullRef]
                                            ELSE PairsOf(graph)[m]]
<1>2. /\ Sane(graph') /\ graph'.sweep = graph.sweep
      /\ RootsOf(graph') = RootsOf(graph) \cup {r}
      /\ PairsOf(graph') = with
  BY <1>1, AllocSees DEF Live
<1> HIDE DEF with
<1>3. Promised!Alloc(r)
  BY <1>1, <1>2, PromisedAlloc DEF with
<1>4. Promised!Next
  BY <1>1, <1>3 DEF Promised!Next
<1> QED BY <1>2, <1>4 DEF SaneStep

LEMMA SallocStep ==
    ASSUME Sane(graph), NEW base \in Ref, NEW k \in Keys, Salloc(base, k)
    PROVE  SaneStep
<1> DEFINE r    == NextRef(graph)
           new  == Allocated(graph, r, 0)
           told == Backed(new, r, base, 1)
           empty == [l \in Keys |-> NullRef]
           with == [m \in Live \cup {r} |-> IF m = r THEN empty ELSE PairsOf(graph)[m]]
<1>1. /\ r \in Ref /\ r \notin Live
      /\ graph' = IF base \in DOMAIN new.node
                  THEN [new EXCEPT !.node[r].back[base] = 1, !.node[base].pairs[k] = r]
                  ELSE [graph EXCEPT !.last_id = r]
  BY DEF Salloc, Call
<1> HIDE DEF r
<1>2. /\ Sane(new) /\ new.sweep = graph.sweep /\ RootsOf(new) = RootsOf(graph)
      /\ PairsOf(new) = with
  BY <1>1, AllocSees DEF Live
<1>3. DOMAIN new.node = Live \cup {r}
  BY <1>2 DEF PairsOf
<1> HIDE DEF new
<1>4. CASE base \in DOMAIN new.node
  <2> DEFINE put == Paired(told, base, k, r)
  <2>1. graph' = put
    BY <1>1, <1>4 DEF Paired, Backed
  <2>2. Recounted(new, told)
    BY <1>2, <1>3, CountFacts DEF Sane
  <2> HIDE DEF told
  <2>3. /\ Sane(told) /\ told.sweep = graph.sweep /\ RootsOf(told) = RootsOf(graph)
        /\ PairsOf(told) = with /\ DOMAIN told.node = Live \cup {r}
    BY <1>2, <1>3, <2>2, RecountedFacts DEF Recounted
  <2> HIDE DEF with
  <2>4. base \in DOMAIN told.node /\ r \in DOMAIN told.node \cup {NullRef}
    BY <1>3, <1>4, <2>3
  <2>5. /\ Sane(put) /\ put.sweep = told.sweep /\ RootsOf(put) = RootsOf(told)
        /\ PairsOf(put) = PutIn(PairsOf(told), base, k, r)
    BY <2>3, <2>4, PairSees
  <2> HIDE DEF put
  <2>6. Promised!Salloc(r, base, k)
    <3>1. base \in Live \cup {r} /\ RootsOf(graph') = RootsOf(graph)
      BY <1>3, <1>4, <2>1, <2>3, <2>5
    <3>2. PairsOf(graph') = PutIn(with, base, k, r)
      BY <2>1, <2>3, <2>5
    <3> QED BY <1>1, <3>1, <3>2, PromisedSalloc DEF with, PutIn
  <2> QED BY <1>1, <2>1, <2>3, <2>5, <2>6 DEF SaneStep, Promised!Next
<1>5. CASE base \notin DOMAIN new.node
  <2>1. graph' = [graph EXCEPT !.last_id = r]
    BY <1>1, <1>5
  <2>2. graph = [node |-> graph.node, sweep |-> graph.sweep, last_id |-> graph.last_id]
    BY DEF Sane, GraphOK
  <2>3. graph' = [node |-> graph.node, sweep |-> graph.sweep, last_id |-> r]
    BY <2>1, <2>2
  <2>4. r \in 0 .. MaxRef
    BY <1>1, GraphAssumption DEF Ref
  <2>5. Sane(graph')
    BY <2>3, <2>4 DEF Sane, GraphOK, Whole, Within
  <2>6. RootsOf(graph') = RootsOf(graph) /\ PairsOf(graph') = PairsOf(graph)
    BY <2>3 DEF RootsOf, PairsOf
  <2> QED BY <2>3, <2>5, <2>6, PromisedStutter DEF SaneStep
<1> QED BY <1>4, <1>5

LEMMA MarkStep ==
    ASSUME Sane(graph), NEW n \in Ref, Mark(n) \/ Unmark(n)
    PROVE  SaneStep
<1>1. n \in Live /\ graph.sweep \in Nat
  BY DEF Mark, Unmark, Sane, GraphOK
<1>2. CASE Mark(n)
  <2>1. graph' = Swept(graph, n, -1)
    BY <1>2 DEF Mark, Call, Swept
  <2>2. /\ Sane(graph') /\ graph'.sweep = graph.sweep
        /\ RootsOf(graph') = RootsOf(graph) \cup {n} /\ PairsOf(graph') = PairsOf(graph)
    <3>1. -1 \in Nat \cup {-1} /\ -1 <= graph.sweep
      BY <1>1
    <3> QED BY <1>1, <2>1, <3>1, SweepSees DEF Live
  <2> QED BY <1>1, <2>2, PromisedMark DEF SaneStep, Promised!Next, Promised!Live, Live
<1>3. CASE Unmark(n)
  <2>1. graph' = Swept(graph, n, 0)
    BY <1>3 DEF Unmark, Call, Swept
  <2>2. /\ Sane(graph') /\ graph'.sweep = graph.sweep
        /\ RootsOf(graph') = RootsOf(graph) \ {n} /\ PairsOf(graph') = PairsOf(graph)
    <3>1. 0 \in Nat \cup {-1} /\ 0 <= graph.sweep /\ 0 # -1
      BY <1>1
    <3> QED BY <1>1, <2>1, <3>1, SweepSees DEF Live
  <2> QED BY <1>1, <2>2, PromisedUnmark DEF SaneStep, Promised!Next, Promised!Live, Live
<1> QED BY <1>2, <1>3

LEMMA SetPairStep ==
    ASSUME Sane(graph), NEW n \in Ref, NEW k \in Keys, NEW v, SetPair(n, k, v)
    PROVE  SaneStep
<1> DEFINE told == AddBackref(graph, v, n)
           put  == Paired(told, n, k, v)
           old  == graph.node[n].pairs[k]
<1>1. n \in Live /\ v \in Live \cup {NullRef} /\ graph' = RmBackref(put, old, n)
  BY DEF SetPair, Call, Paired
<1>2. Recounted(graph, told)
  BY AddBackrefFacts DEF Sane
<1> HIDE DEF told, old
<1>3. /\ Sane(told) /\ told.sweep = graph.sweep /\ RootsOf(told) = RootsOf(graph)
      /\ PairsOf(told) = PairsOf(graph) /\ DOMAIN told.node = Live
  BY <1>2, RecountedFacts DEF Recounted, Live
<1>4. /\ Sane(put) /\ put.sweep = graph.sweep /\ RootsOf(put) = RootsOf(graph)
      /\ PairsOf(put) = PutIn(PairsOf(graph), n, k, v)
  BY <1>1, <1>3, PairSees
<1> HIDE DEF put
<1>5. Recounted(put, graph')
  BY <1>1, <1>4, RmBackrefFacts DEF Sane
<1>6. /\ Sane(graph') /\ graph'.sweep = graph.sweep /\ RootsOf(graph') = RootsOf(graph)
      /\ PairsOf(graph') = PutIn(PairsOf(graph), n, k, v)
  BY <1>4, <1>5, RecountedFacts DEF Recounted
<1>7. Promised!Assign(n, k, v)
  BY <1>1, <1>6, PromisedAssign
<1>8. v \in Ref \cup {NullRef} /\ n \in Promised!Live
  BY <1>1 DEF Promised!Live, Live, Sane, GraphOK
<1> QED BY <1>6, <1>7, <1>8 DEF SaneStep, Promised!Next

LEMMA DelPairStep ==
    ASSUME Sane(graph), NEW n \in Ref, NEW k \in Keys, DelPair(n, k)
    PROVE  SaneStep
<1> DEFINE old  == graph.node[n].pairs[k]
           cut  == RmBackref(graph, old, n)
           put  == Paired(cut, n, k, NullRef)
<1>1. n \in Live /\ graph' = put
  BY DEF DelPair, Call, Paired
<1>2. Recounted(graph, cut)
  BY RmBackrefFacts DEF Sane
<1> HIDE DEF cut
<1>3. /\ Sane(cut) /\ cut.sweep = graph.sweep /\ RootsOf(cut) = RootsOf(graph)
      /\ PairsOf(cut) = PairsOf(graph) /\ DOMAIN cut.node = Live
  BY <1>2, RecountedFacts DEF Recounted, Live
<1>4. /\ Sane(put) /\ put.sweep = graph.sweep /\ RootsOf(put) = RootsOf(graph)
      /\ PairsOf(put) = PutIn(PairsOf(graph), n, k, NullRef)
  <2>1. n \in DOMAIN cut.node /\ NullRef \in DOMAIN cut.node \cup {NullRef}
    BY <1>1, <1>3
  <2>2. /\ Sane(put) /\ put.sweep = cut.sweep /\ RootsOf(put) = RootsOf(cut)
        /\ PairsOf(put) = PutIn(PairsOf(cut), n, k, NullRef)
    BY <1>3, <2>1, PairSees
  <2> QED BY <1>3, <2>2
<1> HIDE DEF put
<1>5. Promised!Assign(n, k, NullRef)
  BY <1>1, <1>4, PromisedAssign
<1> QED BY <1>1, <1>4, <1>5 DEF SaneStep, Promised!Next, Promised!Live, Live

LEMMA MutateStep ==
    ASSUME Sane(graph), client \in Clients, Mutate
    PROVE  SaneStep
<1>1. client.keys \subseteq Keys
  BY GraphAssumption
<1> QED BY <1>1, AllocStep, SallocStep, MarkStep, SetPairStep, DelPairStep DEF Mutate

(***************************************************************************)
(* Closed sets, and what the roots reach.                                  *)
(***************************************************************************)
ClosedIn(g, S) ==
    /\ RootsOf(g) \subseteq S
    /\ \A n \in S, k \in Keys :
         n \in DOMAIN g.node /\ g.node[n].pairs[k] \in DOMAIN g.node => g.node[n].pairs[k] \in S

ReachOf(g) == {n \in DOMAIN g.node : \A S \in SUBSET DOMAIN g.node : ClosedIn(g, S) => n \in S}

LEMMA ReachablePromised ==
    ASSUME GraphOK(graph)
    PROVE  Promised!Reachable = ReachOf(graph)
<1>1. NullRef \notin Live
  BY NullFacts DEF GraphOK, Live
<1>2. Promised!Live = DOMAIN graph.node
  BY DEF Promised!Live, Live
<1>3. ASSUME NEW S \in SUBSET DOMAIN graph.node
      PROVE  Promised!Closed(S) <=> ClosedIn(graph, S)
  BY <1>1 DEF Promised!Closed, Promised!Children, Promised!Live, ClosedIn, RootsOf, Live
<1> QED BY <1>2, <1>3 DEF Promised!Reachable, ReachOf

LEMMA ReachablePromisedNext ==
    ASSUME GraphOK(graph')
    PROVE  Promised!Reachable' = ReachOf(graph')
<1>1. NullRef \notin Live'
  BY NullFacts DEF GraphOK, Live
<1>2. Promised!Live' = DOMAIN graph'.node
  BY DEF Promised!Live, Live
<1>3. ASSUME NEW S \in SUBSET DOMAIN graph'.node
      PROVE  Promised!Closed(S)' <=> ClosedIn(graph', S)
  BY <1>1 DEF Promised!Closed, Promised!Children, Promised!Live, ClosedIn, RootsOf, Live
<1> QED BY <1>2, <1>3 DEF Promised!Reachable, ReachOf

LEMMA ReachRoot ==
    ASSUME NEW g, NEW n \in RootsOf(g)
    PROVE  n \in ReachOf(g)
BY DEF ReachOf, ClosedIn, RootsOf

LEMMA ReachChild ==
    ASSUME NEW g, NEW n \in ReachOf(g), NEW k \in Keys, g.node[n].pairs[k] \in DOMAIN g.node
    PROVE  g.node[n].pairs[k] \in ReachOf(g)
BY DEF ReachOf, ClosedIn

LEMMA ReachWithin ==
    ASSUME NEW g, NEW S \in SUBSET DOMAIN g.node, ClosedIn(g, S)
    PROVE  ReachOf(g) \subseteq S
BY DEF ReachOf

LEMMA ReachSame ==
    ASSUME NEW g, NEW h, RootsOf(h) = RootsOf(g), DOMAIN h.node = DOMAIN g.node,
           \A n \in DOMAIN g.node : h.node[n].pairs = g.node[n].pairs
    PROVE  ReachOf(h) = ReachOf(g)
<1>1. ASSUME NEW S \in SUBSET DOMAIN g.node
      PROVE  ClosedIn(h, S) <=> ClosedIn(g, S)
  BY DEF ClosedIn
<1> QED BY <1>1 DEF ReachOf

(* A graph h that lacks nodes of g outside of a closed set K reaches what  *)
(* g reaches: what is closed in h and in K is closed in g.                 *)
LEMMA ReachLess ==
    ASSUME NEW g, NEW h, NEW K \in SUBSET DOMAIN g.node, ClosedIn(g, K),
           K \subseteq DOMAIN h.node, DOMAIN h.node \subseteq DOMAIN g.node,
           Alike(g, h, DOMAIN h.node)
    PROVE  ReachOf(g) \subseteq ReachOf(h)
<1> SUFFICES ASSUME NEW n \in ReachOf(g), NEW S \in SUBSET DOMAIN h.node, ClosedIn(h, S)
             PROVE  n \in DOMAIN h.node /\ n \in S
  BY DEF ReachOf
<1>1. RootsOf(g) \subseteq S \cap K
  BY DEF ClosedIn, RootsOf, Alike
<1>2. ASSUME NEW m \in S \cap K, NEW k \in Keys, g.node[m].pairs[k] \in DOMAIN g.node
      PROVE  g.node[m].pairs[k] \in S \cap K
  <2>1. g.node[m].pairs[k] \in K
    BY <1>2 DEF ClosedIn
  <2>2. h.node[m].pairs[k] = g.node[m].pairs[k]
    BY DEF Alike
  <2> QED BY <2>1, <2>2 DEF ClosedIn
<1>3. ClosedIn(g, S \cap K)
  BY <1>1, <1>2 DEF ClosedIn
<1> QED BY <1>3, ReachWithin

(***************************************************************************)
(* The invariant of a collection.                                          *)
(***************************************************************************)
Frame == [ref : Live, keys : SUBSET Keys]

(* This sweep goes on to the pairs of n, or has gone.                      *)
Visited(n) == \/ graph.node[n].gcsweep = graph.sweep
              \/ graph.node[n].gcsweep = -1 /\ n \notin gc.todo

(* What n.k refers to is to be kept, or a call of clean_mark will see it.  *)
Settled(n, k) ==
    LET v == graph.node[n].pairs[k] IN
    \/ v = NullRef
    \/ v \in Live /\ Kept(v)
    \/ \E i \in DOMAIN gc.stack : gc.stack[i].ref = n /\ k \in gc.stack[i].keys

Marking ==
    /\ Whole(graph) /\ graph.sweep > 0
    /\ MarkedOnce
    /\ \A i \in DOMAIN gc.stack : Kept(gc.stack[i].ref)
    /\ \A n \in Live, k \in Keys : Visited(n) => Settled(n, k)
    /\ \A n \in Live : graph.node[n].gcsweep = graph.sweep => n \in ReachOf(graph)

Sweeping ==
    /\ gc.stack = <<>>
    /\ \A n \in Live, k \in Keys : Kept(n) =>
         \/ graph.node[n].pairs[k] = NullRef
         \/ graph.node[n].pairs[k] \in Live /\ Kept(graph.node[n].pairs[k])
    /\ \A n \in Live : IF Kept(n) THEN n \in ReachOf(graph) ELSE n \in gc.todo

Traced ==
    /\ client \in Clients
    /\ GraphOK(graph) /\ Within(graph) /\ graph.sweep <= client.sweeps
    /\ gc = [todo |-> gc.todo, stack |-> gc.stack]
    /\ gc.todo \subseteq Live /\ gc.stack \in Seq(Frame)
    /\ \/ pc = "idle"  /\ Whole(graph) /\ gc = NoLoop
       \/ pc = "mark"  /\ Marking
       \/ pc = "sweep" /\ Sweeping

TracedStep == Traced' /\ [Promised!Next]_(Promised!vars)

LEMMA ClientFacts ==
    ASSUME client \in Clients
    PROVE  client.sweeps \in Nat /\ client.keys \subseteq Keys
BY GraphAssumption

LEMMA NoFrames == <<>> \in Seq(Frame) /\ DOMAIN <<>> = {}
OBVIOUS

LEMMA InitTraced == Init => Traced /\ Promised!Init
<1> SUFFICES ASSUME Init PROVE Traced /\ Promised!Init
  OBVIOUS
<1>1. /\ graph.node = [n \in {} |-> NullRef] /\ graph.sweep = 0 /\ graph.last_id = 0
      /\ graph = [node |-> graph.node, sweep |-> graph.sweep, last_id |-> graph.last_id]
      /\ pc = "idle" /\ gc = NoLoop /\ client \in Clients
  BY DEF Init
<1>2. DOMAIN graph.node = {}
  BY <1>1
<1>3. GraphOK(graph) /\ Within(graph) /\ Whole(graph)
  BY <1>1, <1>2, NullFacts DEF GraphOK, Within, Whole
<1>4. /\ gc = [todo |-> gc.todo, stack |-> gc.stack]
      /\ gc.todo \subseteq Live /\ gc.stack \in Seq(Frame)
  BY <1>1, NoFrames DEF NoLoop
<1>5. graph.sweep <= client.sweeps
  BY <1>1, ClientFacts
<1>6. Promised!Init
  BY <1>1, <1>2 DEF Promised!Init, Live
<1> QED BY <1>1, <1>3, <1>4, <1>5, <1>6 DEF Traced

LEMMA MutateTraced ==
    ASSUME Traced, Mutate, UNCHANGED client
    PROVE  TracedStep
<1>1. pc = "idle" /\ UNCHANGED <<pc, gc>>
  BY DEF Mutate, Alloc, Salloc, Mark, Unmark, SetPair, DelPair, Call
<1>2. Sane(graph) /\ client \in Clients /\ gc = NoLoop
  BY <1>1 DEF Traced, Sane
<1>3. SaneStep
  BY <1>2, MutateStep
<1>4. GraphOK(graph') /\ Within(graph') /\ Whole(graph') /\ graph'.sweep = graph.sweep
  BY <1>3 DEF SaneStep, Sane
<1>5. gc' = NoLoop /\ gc'.todo \subseteq Live' /\ gc'.stack \in Seq(Frame')
  BY <1>1, <1>2 DEF NoLoop
<1> QED BY <1>1, <1>3, <1>4, <1>5 DEF Traced, TracedStep, SaneStep

LEMMA CleanTraced ==
    ASSUME Traced, Clean, UNCHANGED client
    PROVE  TracedStep
<1>1. /\ pc = "idle" /\ graph.sweep < client.sweeps /\ pc' = "mark"
      /\ gc'.todo = Live /\ gc'.stack = <<>> /\ gc' = [todo |-> gc'.todo, stack |-> gc'.stack]
      /\ graph' = [graph EXCEPT !.sweep = @ + 1]
  BY DEF Clean
<1>2. /\ GraphOK(graph) /\ Within(graph) /\ Whole(graph) /\ graph.sweep \in Nat
      /\ client \in Clients
  BY <1>1 DEF Traced, GraphOK
<1>3. /\ graph'.node = graph.node /\ graph'.sweep = graph.sweep + 1
      /\ graph'.last_id = graph.last_id
      /\ graph' = [node |-> graph'.node, sweep |-> graph'.sweep, last_id |-> graph'.last_id]
  BY <1>1, <1>2 DEF GraphOK
<1>4. GraphOK(graph') /\ Whole(graph') /\ graph'.sweep > 0
  BY <1>2, <1>3 DEF GraphOK, Whole
<1>5. \A n \in Live : graph'.node[n].gcsweep < graph'.sweep
  BY <1>2, <1>3, GraphNode, NodeFacts DEF Within, Live
<1>6. Within(graph')
  BY <1>2, <1>3, <1>5, GraphNode, NodeFacts DEF Within, Live
<1>7. Live' = Live
  BY <1>3 DEF Live
<1>8. \A n \in Live : ~ Visited(n)' /\ graph'.node[n].gcsweep # graph'.sweep
  BY <1>1, <1>2, <1>3, <1>5, GraphNode, NodeFacts DEF Visited, Live
<1>9. Marking'
  BY <1>1, <1>4, <1>7, <1>8, NoFrames DEF Marking, MarkedOnce
<1>10. graph'.sweep <= client'.sweeps /\ client' \in Clients
  BY <1>1, <1>2, <1>3, ClientFacts
<1>11. UNCHANGED Promised!vars
  BY <1>3, PromisedStutter DEF RootsOf, PairsOf
<1> QED BY <1>1, <1>4, <1>6, <1>7, <1>9, <1>10, <1>11, NoFrames DEF Traced, TracedStep

LEMMA MarkFacts ==
    ASSUME Traced
    PROVE  /\ graph.sweep \in Nat
           /\ \A n \in Live : /\ graph.node[n].gcsweep \in Nat \cup {-1}
                              /\ graph.node[n].gcsweep <= graph.sweep
                              /\ Kept(n) <=> graph.node[n].gcsweep \in {-1, graph.sweep}
                              /\ graph.node[n].pairs \in [Keys -> Ref \cup {NullRef}]
<1>1. GraphOK(graph) /\ Within(graph) /\ graph.sweep \in Nat
  BY DEF Traced, GraphOK
<1>2. \A n \in Live : /\ graph.node[n].gcsweep \in Nat \cup {-1}
                     /\ graph.node[n].gcsweep <= graph.sweep
                     /\ graph.node[n].pairs \in [Keys -> Ref \cup {NullRef}]
  BY <1>1, GraphNode, NodeFacts DEF Within, Live
<1> QED BY <1>1, <1>2 DEF Kept

LEMMA KeepsReached ==
    ASSUME Traced, Marking, NEW n \in Live, Kept(n)
    PROVE  n \in ReachOf(graph)
<1>1. CASE graph.node[n].gcsweep = graph.sweep
  BY <1>1 DEF Marking
<1>2. CASE graph.node[n].gcsweep = -1
  BY <1>2, ReachRoot DEF RootsOf, Live
<1> QED BY <1>1, <1>2, MarkFacts

LEMMA MarkRootTraced ==
    ASSUME Traced, NEW n \in gc.todo, MarkRoot(n), UNCHANGED client
    PROVE  TracedStep
<1> DEFINE f == [ref |-> n, keys |-> Referring(n)]
<1>1. pc = "mark" /\ gc.stack = <<>> /\ UNCHANGED <<graph, pc, client>>
  BY DEF MarkRoot
<1>2. Marking /\ GraphOK(graph) /\ Within(graph) /\ n \in Live
  BY <1>1 DEF Traced
<1>3. /\ gc'.todo = gc.todo \ {n}
      /\ gc'.stack = IF graph.node[n].gcsweep = -1 THEN <<f>> ELSE <<>>
      /\ gc' = [todo |-> gc'.todo, stack |-> gc'.stack]
  BY DEF MarkRoot
<1>4. f \in Frame /\ f.ref = n /\ f.keys = Referring(n)
  BY <1>2 DEF Frame, Referring
<1> HIDE DEF f
<1>5. gc'.stack \in Seq(Frame) /\ \A i \in DOMAIN gc'.stack : i = 1 /\ gc'.stack[i] = f /\ Kept(n)
  BY <1>3, <1>4 DEF Kept
<1>6. Live' = Live /\ Frame' = Frame /\ \A m : Kept(m)' <=> Kept(m)
  BY <1>1 DEF Live, Frame, Kept
<1>7. MarkedOnce' /\ (\A i \in DOMAIN gc.stack : Kept(gc.stack[i].ref))'
  BY <1>1, <1>4, <1>5 DEF MarkedOnce, Kept
<1>8. ASSUME NEW m \in Live, NEW k \in Keys, Visited(m)'
      PROVE  Settled(m, k)'
  <2>1. CASE Visited(m)
    <3>1. Settled(m, k)
      BY <1>2, <2>1 DEF Marking
    <3> QED BY <1>1, <1>6, <3>1 DEF Settled
  <2>2. CASE ~ Visited(m)
    <3>1. m = n /\ graph.node[n].gcsweep = -1
      BY <1>1, <1>3, <1>8, <2>2 DEF Visited
    <3>2. gc'.stack = <<f>>
      BY <1>3, <3>1
    <3>3. 1 \in DOMAIN gc'.stack /\ gc'.stack[1] = f
      BY <3>2
    <3>4. graph.node[n].pairs[k] = NullRef \/ k \in f.keys
      BY <1>4 DEF Referring
    <3> QED BY <1>1, <1>4, <3>1, <3>3, <3>4 DEF Settled
  <2> QED BY <2>1, <2>2
<1>9. Marking'
  BY <1>1, <1>2, <1>6, <1>7, <1>8 DEF Marking
<1>10. UNCHANGED Promised!vars
  BY <1>1, PromisedStutter
<1>11. gc'.todo \subseteq Live'
  BY <1>3, <1>6 DEF Traced
<1> QED BY <1>1, <1>3, <1>5, <1>6, <1>9, <1>10, <1>11 DEF Traced, TracedStep

LEMMA MarkReturnTraced ==
    ASSUME Traced, pc = "mark", gc.stack # <<>>, MarkReturn, UNCHANGED client
    PROVE  TracedStep
<1> DEFINE s == gc.stack
           N == Len(s)
<1>1. Marking /\ GraphOK(graph) /\ s \in Seq(Frame) /\ gc = [todo |-> gc.todo, stack |-> s]
  BY DEF Traced
<1>2. UNCHANGED <<graph, pc, client>> /\ s[N].keys = {} /\ gc' = [gc EXCEPT !.stack = SubSeq(s, 1, N - 1)]
  BY DEF MarkReturn, Top
<1>3. N \in Nat /\ N > 0 /\ DOMAIN s = 1 .. N
  BY <1>1
<1>4. gc'.todo = gc.todo /\ gc'.stack = SubSeq(s, 1, N - 1) /\ gc' = [todo |-> gc'.todo, stack |-> gc'.stack]
  BY <1>1, <1>2
<1>5. /\ gc'.stack \in Seq(Frame) /\ DOMAIN gc'.stack = 1 .. N - 1
      /\ \A i \in 1 .. N - 1 : gc'.stack[i] = s[i]
  BY <1>1, <1>3, <1>4
<1>6. Live' = Live /\ Frame' = Frame /\ \A m : (Kept(m)' <=> Kept(m)) /\ (Visited(m)' <=> Visited(m))
  BY <1>2, <1>4 DEF Live, Frame, Kept, Visited
<1>7. MarkedOnce' /\ (\A i \in DOMAIN gc.stack : Kept(gc.stack[i].ref))'
  <2>1. \A i \in DOMAIN gc'.stack : i \in DOMAIN gc.stack /\ gc'.stack[i] = gc.stack[i]
    BY <1>3, <1>5
  <2>2. /\ \A i, j \in DOMAIN gc.stack : gc.stack[i].ref = gc.stack[j].ref => i = j
        /\ \A i \in DOMAIN gc.stack : Kept(gc.stack[i].ref)
    BY <1>1 DEF Marking, MarkedOnce
  <2>3. MarkedOnce'
    BY <2>1, <2>2 DEF MarkedOnce
  <2>4. \A i \in DOMAIN gc'.stack : Kept(gc'.stack[i].ref)
    BY <2>1, <2>2
  <2> QED BY <1>2, <2>3, <2>4 DEF Kept
<1>8. ASSUME NEW m \in Live, NEW k \in Keys, Visited(m)
      PROVE  Settled(m, k)'
  <2>1. Settled(m, k)
    BY <1>1, <1>8 DEF Marking
  <2>2. ASSUME NEW i \in DOMAIN s, s[i].ref = m, k \in s[i].keys
        PROVE  i \in DOMAIN gc'.stack /\ gc'.stack[i] = s[i]
    <3>1. i # N
      BY <1>2, <2>2
    <3> QED BY <1>3, <1>5, <3>1
  <2> QED BY <1>2, <1>6, <2>1, <2>2 DEF Settled
<1>9. Marking'
  BY <1>1, <1>2, <1>6, <1>7, <1>8 DEF Marking
<1>10. UNCHANGED Promised!vars
  BY <1>2, PromisedStutter
<1> QED BY <1>2, <1>4, <1>5, <1>6, <1>9, <1>10 DEF Traced, TracedStep

LEMMA MarkDoneTraced ==
    ASSUME Traced, MarkDone, UNCHANGED client
    PROVE  TracedStep
<1>1. /\ pc = "mark" /\ pc' = "sweep" /\ gc = NoLoop /\ UNCHANGED <<graph, client>>
      /\ gc' = [todo |-> Live, stack |-> <<>>]
  BY DEF MarkDone, NoLoop
<1>2. Marking /\ GraphOK(graph) /\ gc.stack = <<>> /\ gc.todo = {}
  BY <1>1 DEF Traced, NoLoop
<1>3. Live' = Live /\ \A m : Kept(m)' <=> Kept(m)
  BY <1>1 DEF Live, Kept
<1>4. \A n \in Live, k \in Keys : Kept(n) => Settled(n, k)
  BY <1>2, MarkFacts DEF Marking, Visited
<1>5. \A n \in Live, k \in Keys : Kept(n) =>
         \/ graph.node[n].pairs[k] = NullRef
         \/ graph.node[n].pairs[k] \in Live /\ Kept(graph.node[n].pairs[k])
  BY <1>2, <1>4, NoFrames DEF Settled
<1>6. \A n \in Live : Kept(n) => n \in ReachOf(graph)
  BY <1>2, KeepsReached
<1>7. Sweeping'
  BY <1>1, <1>3, <1>5, <1>6 DEF Sweeping
<1>8. UNCHANGED Promised!vars
  BY <1>1, PromisedStutter
<1> QED BY <1>1, <1>3, <1>7, <1>8, NoFrames DEF Traced, TracedStep

(* A call has one key less to go through.                                  *)
LEMMA RestFacts ==
    ASSUME NEW s \in Seq(Frame), s # <<>>, NEW k
    PROVE  LET N    == Len(s)
               rest == [s EXCEPT ![N].keys = @ \ {k}]
           IN  /\ N \in Nat /\ N > 0 /\ DOMAIN s = 1 .. N
               /\ rest \in Seq(Frame) /\ Len(rest) = N /\ DOMAIN rest = 1 .. N
               /\ \A i \in 1 .. N : rest[i].ref = s[i].ref
               /\ \A i \in 1 .. N - 1 : rest[i].keys = s[i].keys
               /\ rest[N].keys = s[N].keys \ {k}
<1> DEFINE N    == Len(s)
           f    == [s[N] EXCEPT !.keys = @ \ {k}]
           rest == [s EXCEPT ![N] = f]
<1>1. N \in Nat /\ N > 0 /\ DOMAIN s = 1 .. N /\ s[N] \in Frame
  OBVIOUS
<1>2. f \in Frame /\ f.ref = s[N].ref /\ f.keys = s[N].keys \ {k}
  BY <1>1 DEF Frame
<1> HIDE DEF f
<1>3. /\ rest \in Seq(Frame) /\ Len(rest) = N /\ DOMAIN rest = 1 .. N
      /\ \A i \in 1 .. N : rest[i] = IF i = N THEN f ELSE s[i]
  BY <1>1, <1>2
<1>4. [s EXCEPT ![N].keys = @ \ {k}] = rest
  BY DEF f
<1> HIDE DEF rest, N
<1>5. /\ \A i \in 1 .. N : rest[i].ref = s[i].ref
      /\ \A i \in 1 .. N - 1 : rest[i].keys = s[i].keys
      /\ rest[N].keys = s[N].keys \ {k}
  BY <1>1, <1>2, <1>3
<1> QED BY <1>1, <1>3, <1>4, <1>5 DEF N

(* The call on top goes on to the pair n.k, which refers to v.  But for v  *)
(* everything stays settled (<1>8), and v is kept or about to be.          *)
LEMMA MarkPairTraced ==
    ASSUME Traced, pc = "mark", gc.stack # <<>>, NEW k \in Top.keys, MarkPair(k), UNCHANGED client
    PROVE  TracedStep
<1> DEFINE s == gc.stack
           N == Len(s)
           n == s[N].ref
           rest == [s EXCEPT ![N].keys = @ \ {k}]
<1>0. PICK v : v = graph.node[n].pairs[k]
  OBVIOUS
<1> DEFINE f == [ref |-> v, keys |-> Referring(v)]
<1>1. /\ Marking /\ GraphOK(graph) /\ Within(graph) /\ Whole(graph) /\ graph.sweep > 0
      /\ s \in Seq(Frame) /\ gc = [todo |-> gc.todo, stack |-> s] /\ gc.todo \subseteq Live
      /\ client \in Clients /\ graph.sweep <= client.sweeps
  BY DEF Traced, Marking
<1>2. /\ pc' = "mark" /\ client' = client
      /\ IF Unmarked(v)
         THEN graph' = Swept(graph, v, graph.sweep)
              /\ gc' = [gc EXCEPT !.stack = Append(rest, f)]
         ELSE gc' = [gc EXCEPT !.stack = rest] /\ UNCHANGED graph
  BY <1>0 DEF MarkPair, Top, Swept
<1>3. /\ N \in Nat /\ N > 0 /\ DOMAIN s = 1 .. N
      /\ rest \in Seq(Frame) /\ Len(rest) = N /\ DOMAIN rest = 1 .. N
      /\ \A i \in 1 .. N : rest[i].ref = s[i].ref
      /\ \A i \in 1 .. N - 1 : rest[i].keys = s[i].keys
      /\ rest[N].keys = s[N].keys \ {k}
  BY <1>1, RestFacts
<1>4. s[N] \in Frame /\ k \in s[N].keys
  BY <1>1, <1>3 DEF Top
<1>5. n \in Live /\ k \in Keys /\ Kept(n) /\ v \in Live \cup {NullRef}
  BY <1>0, <1>1, <1>3, <1>4 DEF Frame, Marking, Whole, Live
<1> HIDE DEF rest, f
<1>6. \A i, j \in 1 .. N : rest[i].ref = rest[j].ref => i = j
  BY <1>1, <1>3 DEF Marking, MarkedOnce
<1>7. \A i \in 1 .. N : Kept(rest[i].ref)
  BY <1>1, <1>3 DEF Marking
<1>8. ASSUME NEW m \in Live, NEW l \in Keys, Visited(m)
      PROVE  LET w == graph.node[m].pairs[l] IN
             \/ w = NullRef \/ w = v \/ (w \in Live /\ Kept(w))
             \/ \E i \in 1 .. N : rest[i].ref = m /\ l \in rest[i].keys
  <2> DEFINE w == graph.node[m].pairs[l]
  <2>1. Settled(m, l)
    BY <1>1, <1>8 DEF Marking
  <2>2. ASSUME NEW i \in 1 .. N, s[i].ref = m, l \in s[i].keys
        PROVE  w = v \/ (rest[i].ref = m /\ l \in rest[i].keys)
    <3>1. CASE i = N /\ l = k
      BY <1>0, <2>2, <3>1
    <3>2. CASE i = N /\ l # k
      BY <1>3, <2>2, <3>2
    <3>3. CASE i # N
      BY <1>3, <2>2, <3>3
    <3> QED BY <3>1, <3>2, <3>3
  <2> HIDE DEF N
  <2> QED BY <1>3, <2>1, <2>2 DEF Settled
<1>9. CASE ~ Unmarked(v)
  <2>1. UNCHANGED <<graph, pc, client>> /\ gc'.todo = gc.todo /\ gc'.stack = rest
        /\ gc' = [todo |-> gc'.todo, stack |-> gc'.stack]
    BY <1>1, <1>2, <1>9
  <2>2. v = NullRef \/ (v \in Live /\ Kept(v))
    BY <1>5, <1>9, MarkFacts DEF Unmarked, Kept
  <2>3. Live' = Live /\ Frame' = Frame /\ \A m : (Kept(m)' <=> Kept(m)) /\ (Visited(m)' <=> Visited(m))
    BY <2>1 DEF Live, Frame, Kept, Visited
  <2>4. MarkedOnce'
    BY <1>3, <1>6, <2>1 DEF MarkedOnce
  <2>5. (\A i \in DOMAIN gc.stack : Kept(gc.stack[i].ref))'
    BY <1>3, <1>7, <2>1 DEF Kept
  <2>6. \A m \in Live, l \in Keys : Visited(m) => Settled(m, l)'
    BY <1>3, <1>8, <2>1, <2>2, <2>3 DEF Settled
  <2>7. Marking'
    BY <1>1, <2>1, <2>3, <2>4, <2>5, <2>6 DEF Marking
  <2>8. UNCHANGED Promised!vars
    BY <2>1, PromisedStutter
  <2> QED BY <1>1, <1>2, <1>3, <2>1, <2>3, <2>7, <2>8 DEF Traced, TracedStep
<1>10. CASE Unmarked(v)
  <2>1. /\ graph' = Swept(graph, v, graph.sweep)
        /\ gc'.todo = gc.todo /\ gc'.stack = Append(rest, f)
        /\ gc' = [todo |-> gc'.todo, stack |-> gc'.stack]
    BY <1>1, <1>2, <1>10
  <2>2. /\ v \in Live /\ graph.node[v].gcsweep >= 0 /\ graph.node[v].gcsweep < graph.sweep
        /\ ~ Kept(v)
    BY <1>10, MarkFacts DEF Unmarked, Kept
  <2>3. /\ GraphOK(graph') /\ DOMAIN graph'.node = DOMAIN graph.node /\ graph'.sweep = graph.sweep
        /\ \A m \in DOMAIN graph.node : graph'.node[m].pairs = graph.node[m].pairs
        /\ \A m \in DOMAIN graph.node \ {v} : graph'.node[m].gcsweep = graph.node[m].gcsweep
        /\ graph'.node[v].gcsweep = graph.sweep
    <3>1. v \in DOMAIN graph.node /\ GraphOK(graph) /\ graph.sweep \in Nat \cup {-1}
      BY <1>1, <2>2, MarkFacts DEF Live
    <3> QED BY <2>1, <3>1, SweepFacts
  <2>4. Live' = Live /\ Frame' = Frame
    BY <2>3 DEF Live, Frame
  <2>5. /\ \A m \in Live : Kept(m) => Kept(m)'
        /\ Kept(v)'
        /\ \A m \in Live \ {v} : Visited(m)' <=> Visited(m)
    BY <2>1, <2>2, <2>3, MarkFacts DEF Kept, Visited, Live
  <2>6. Whole(graph') /\ Within(graph')
    BY <1>1, <2>3, MarkFacts DEF Whole, Within
  <2>7. RootsOf(graph') = RootsOf(graph) /\ PairsOf(graph') = PairsOf(graph)
    BY <2>2, <2>3, MarkFacts DEF RootsOf, PairsOf, Live
  <2>8. ReachOf(graph') = ReachOf(graph)
    BY <2>3, <2>7, ReachSame
  <2>9. f \in Frame /\ f.ref = v /\ f.keys = Referring(v)
    BY <2>2 DEF f, Frame, Referring
  <2>10. /\ gc'.stack \in Seq(Frame) /\ DOMAIN gc'.stack = 1 .. N + 1
         /\ \A i \in 1 .. N : gc'.stack[i] = rest[i]
         /\ gc'.stack[N + 1] = f
    BY <1>3, <2>1, <2>9
  <2>11. \A i \in 1 .. N : rest[i].ref \in Live /\ rest[i].ref # v
    <3>1. \A i \in 1 .. N : rest[i] \in Frame
      BY <1>3
    <3> QED BY <1>7, <2>2, <3>1 DEF Frame
  <2>12. MarkedOnce'
    <3> SUFFICES ASSUME NEW i \in 1 .. N + 1, NEW j \in 1 .. N + 1,
                        gc'.stack[i].ref = gc'.stack[j].ref
                 PROVE  i = j
      BY <2>10 DEF MarkedOnce
    <3>1. CASE i \in 1 .. N /\ j \in 1 .. N
      BY <1>6, <2>10, <3>1
    <3>2. CASE i = N + 1 /\ j \in 1 .. N
      BY <2>9, <2>10, <2>11, <3>2
    <3>3. CASE j = N + 1 /\ i \in 1 .. N
      BY <2>9, <2>10, <2>11, <3>3
    <3> QED BY <1>3, <3>1, <3>2, <3>3
  <2>13. (\A i \in DOMAIN gc.stack : Kept(gc.stack[i].ref))'
    <3> SUFFICES ASSUME NEW i \in 1 .. N + 1
                 PROVE  LET m == gc'.stack[i].ref IN
                        graph'.node[m].gcsweep = -1 \/ graph'.node[m].gcsweep >= graph'.sweep
      BY <2>10 DEF Kept
    <3>1. CASE i = N + 1
      BY <2>5, <2>9, <2>10, <3>1 DEF Kept
    <3>2. CASE i \in 1 .. N
      BY <1>7, <2>5, <2>10, <2>11, <3>2 DEF Kept
    <3> QED BY <1>3, <3>1, <3>2
  <2>14. ASSUME NEW m \in Live, NEW l \in Keys, Visited(m)'
         PROVE  Settled(m, l)'
    <3>0. PICK w : w = graph.node[m].pairs[l]
      OBVIOUS
    <3>1. graph'.node[m].pairs[l] = w
      BY <2>3, <3>0 DEF Live
    <3>2. CASE m = v
      <4>1. w = NullRef \/ l \in f.keys
        BY <2>9, <3>0, <3>2 DEF Referring
      <4> QED BY <1>3, <2>9, <2>10, <3>1, <3>2, <4>1 DEF Settled
    <3>3. CASE m # v
      <4>1. \/ w = NullRef \/ w = v \/ (w \in Live /\ Kept(w))
            \/ \E i \in 1 .. N : rest[i].ref = m /\ l \in rest[i].keys
        BY <1>8, <2>5, <2>14, <3>0, <3>3
      <4>2. CASE \E i \in 1 .. N : rest[i].ref = m /\ l \in rest[i].keys
        BY <1>3, <2>10, <4>2 DEF Settled
      <4>3. CASE w = NullRef \/ w = v \/ (w \in Live /\ Kept(w))
        <5>1. w = NullRef \/ (w \in Live' /\ Kept(w)')
          BY <2>2, <2>4, <2>5, <4>3
        <5> QED BY <3>1, <5>1 DEF Settled, Kept
      <4> QED BY <4>1, <4>2, <4>3
    <3> QED BY <3>2, <3>3
  <2>15. v \in ReachOf(graph)
    BY <1>1, <1>5, <2>2, KeepsReached, ReachChild, <1>0 DEF Live
  <2>16. \A m \in Live : graph'.node[m].gcsweep = graph'.sweep => m \in ReachOf(graph')
    BY <1>1, <2>3, <2>8, <2>15 DEF Marking, Live
  <2>17. Marking'
    BY <1>1, <2>3, <2>4, <2>6, <2>12, <2>13, <2>14, <2>16 DEF Marking
  <2>18. UNCHANGED Promised!vars
    BY <2>7, PromisedStutter
  <2> QED BY <1>1, <1>2, <2>1, <2>3, <2>4, <2>6, <2>10, <2>17, <2>18 DEF Traced, TracedStep
<1> QED BY <1>9, <1>10

(* What is to be kept is closed while the sweep runs, so that it is just   *)
(* what the roots reach.                                                   *)
LEMMA KeptClosed ==
    ASSUME Traced, Sweeping
    PROVE  /\ ClosedIn(graph, {m \in Live : Kept(m)})
           /\ ReachOf(graph) = {m \in Live : Kept(m)}
<1> DEFINE K == {m \in Live : Kept(m)}
<1>1. NullRef \notin Live
  BY NullFacts DEF Traced, GraphOK, Live
<1>2. ClosedIn(graph, K)
  BY <1>1 DEF Sweeping, ClosedIn, RootsOf, Kept, Live
<1>3. ReachOf(graph) \subseteq K
  BY <1>2, ReachWithin DEF Live
<1>4. K \subseteq ReachOf(graph)
  BY DEF Sweeping
<1> QED BY <1>2, <1>3, <1>4

LEMMA SweepNodeTraced ==
    ASSUME Traced, NEW n \in gc.todo, SweepNode(n), UNCHANGED client
    PROVE  TracedStep
<1>1. /\ pc = "sweep" /\ pc' = "sweep" /\ client' = client
      /\ graph' = IF Kept(n) THEN graph ELSE CleanRemove(graph, n)
  BY DEF SweepNode
<1>2. /\ Sweeping /\ GraphOK(graph) /\ Within(graph) /\ n \in Live /\ gc.todo \subseteq Live
      /\ client \in Clients /\ graph.sweep <= client.sweeps /\ gc.stack = <<>>
  BY <1>1 DEF Traced, Sweeping
<1>3. /\ gc'.todo = gc.todo \ {n} /\ gc'.stack = <<>>
      /\ gc' = [todo |-> gc'.todo, stack |-> gc'.stack]
  BY <1>2 DEF SweepNode, Traced
<1>4. CASE Kept(n)
  <2>1. UNCHANGED <<graph, pc, client>>
    BY <1>1, <1>4
  <2>2. Live' = Live /\ \A m : Kept(m)' <=> Kept(m)
    BY <2>1 DEF Live, Kept
  <2>3. Sweeping'
    BY <1>2, <1>3, <1>4, <2>1, <2>2 DEF Sweeping
  <2>4. UNCHANGED Promised!vars
    BY <2>1, PromisedStutter
  <2> QED BY <1>1, <1>2, <1>3, <2>1, <2>2, <2>3, <2>4, NoFrames DEF Traced, TracedStep
<1>5. CASE ~ Kept(n)
  <2> DEFINE h == CleanRemove(graph, n)
             K == {m \in Live : Kept(m)}
  <2>1. /\ GraphOK(h) /\ DOMAIN h.node = Live \ {n} /\ h.sweep = graph.sweep
        /\ Alike(graph, h, Live \ {n})
    BY <1>2, CleanRemoveFacts DEF Live
  <2>2. graph' = h
    BY <1>1, <1>5
  <2> HIDE DEF h
  <2>3. Live' = Live \ {n}
    BY <2>1, <2>2 DEF Live
  <2>4. /\ \A m \in Live' : graph'.node[m].gcsweep = graph.node[m].gcsweep
        /\ \A m \in Live' : graph'.node[m].pairs = graph.node[m].pairs
        /\ graph'.sweep = graph.sweep /\ GraphOK(graph')
    BY <2>1, <2>2, <2>3 DEF Alike
  <2>5. \A m \in Live' : Kept(m)' <=> Kept(m)
    BY <2>4 DEF Kept
  <2>6. ClosedIn(graph, K) /\ ReachOf(graph) = K /\ K \subseteq Live'
    BY <1>2, <1>5, <2>3, KeptClosed
  <2>7. ReachOf(graph) \subseteq ReachOf(graph')
    <3>1. Alike(graph, graph', DOMAIN graph'.node) /\ DOMAIN graph'.node = Live'
      BY <2>1, <2>2, <2>3
    <3>2. DOMAIN graph'.node \subseteq DOMAIN graph.node /\ K \in SUBSET DOMAIN graph.node
      BY <2>3, <3>1 DEF Live
    <3> HIDE DEF K
    <3> QED BY <2>6, <3>1, <3>2, ReachLess
  <2>8. ASSUME NEW m \in Live', NEW k \in Keys, Kept(m)
        PROVE  graph'.node[m].pairs[k] = NullRef
               \/ (graph'.node[m].pairs[k] \in Live' /\ Kept(graph.node[m].pairs[k]))
    BY <1>2, <1>5, <2>3, <2>4, <2>8 DEF Sweeping
  <2>9. (\A m \in Live, k \in Keys : Kept(m) =>
            \/ graph.node[m].pairs[k] = NullRef
            \/ graph.node[m].pairs[k] \in Live /\ Kept(graph.node[m].pairs[k]))'
    BY <2>4, <2>5, <2>8 DEF Kept
  <2>10. ASSUME NEW m \in Live'
         PROVE  IF Kept(m)' THEN m \in ReachOf(graph') ELSE m \in gc'.todo
    BY <1>2, <1>3, <2>3, <2>5, <2>7 DEF Sweeping
  <2>11. Sweeping'
    BY <1>3, <2>9, <2>10 DEF Sweeping
  <2>12. Within(graph')
    BY <1>2, <2>3, <2>4 DEF Within, Live
  <2>13. Promised!Collect(n)
    <3>1. n \notin Promised!Reachable
      BY <1>2, <1>5, <2>6, ReachablePromised
    <3>2. RootsOf(graph') = RootsOf(graph)
      BY <1>5, <2>3, <2>4 DEF RootsOf, Live, Kept
    <3>3. PairsOf(graph') = [m \in Live \ {n} |-> PairsOf(graph)[m]]
      BY <2>3, <2>4 DEF PairsOf, Live
    <3> QED BY <3>1, <3>2, <3>3
         DEF Promised!Collect, Promised!Live, RootsOf, PairsOf, Live
  <2>14. Promised!Next
    BY <1>2, <2>13 DEF Promised!Next, Promised!Live, Live
  <2> QED BY <1>1, <1>2, <1>3, <2>3, <2>4, <2>11, <2>12, <2>14, NoFrames DEF Traced, TracedStep
<1> QED BY <1>4, <1>5

(* When the sweep ends, only what the roots reach is left.                 *)
LEMMA CleanDoneTraced ==
    ASSUME Traced, CleanDone, UNCHANGED client
    PROVE  /\ TracedStep
           /\ Live' \subseteq ReachOf(graph')
<1>1. /\ pc = "sweep" /\ pc' = "idle" /\ gc = NoLoop /\ UNCHANGED <<graph, gc, client>>
  BY DEF CleanDone
<1>2. Sweeping /\ gc.todo = {}
  BY <1>1 DEF Traced, NoLoop
<1>3. \A n \in Live : Kept(n) /\ n \in ReachOf(graph)
  BY <1>2 DEF Sweeping
<1>4. Whole(graph)
  BY <1>2, <1>3 DEF Sweeping, Whole, Live
<1>5. UNCHANGED Promised!vars
  BY <1>1, PromisedStutter
<1>6. Live' = Live /\ Frame' = Frame
  BY <1>1 DEF Live, Frame
<1> QED BY <1>1, <1>3, <1>4, <1>5, <1>6 DEF Traced, TracedStep

LEMMA NextTraced == Traced /\ [Next]_vars => TracedStep
<1> SUFFICES ASSUME Traced, [Next]_vars PROVE TracedStep
  OBVIOUS
<1>1. CASE UNCHANGED vars
  <2>1. Live' = Live /\ Frame' = Frame /\ UNCHANGED <<graph, pc, gc, client>>
    BY <1>1 DEF vars, Live, Frame
  <2>2. (Marking' <=> Marking) /\ (Sweeping' <=> Sweeping)
    BY <2>1 DEF Marking, Sweeping, MarkedOnce, Visited, Settled, Kept, Live
  <2>3. Traced'
    BY <2>1, <2>2 DEF Traced
  <2>4. UNCHANGED Promised!vars
    BY <2>1, PromisedStutter
  <2> QED BY <2>3, <2>4 DEF TracedStep
<1>2. CASE Next
  <2>1. UNCHANGED client
    BY <1>2 DEF Next
  <2>2. CASE Mutate
    BY <2>1, <2>2, MutateTraced
  <2>3. CASE Clean
    BY <2>1, <2>3, CleanTraced
  <2>4. CASE CleanStep
    <3>1. ASSUME NEW n \in gc.todo, MarkRoot(n) PROVE TracedStep
      BY <2>1, <3>1, MarkRootTraced
    <3>2. ASSUME NEW n \in gc.todo, SweepNode(n) PROVE TracedStep
      BY <2>1, <3>2, SweepNodeTraced
    <3>3. ASSUME pc = "mark", gc.stack # <<>>, MarkReturn PROVE TracedStep
      BY <2>1, <3>3, MarkReturnTraced
    <3>4. ASSUME pc = "mark", gc.stack # <<>>, NEW k \in Top.keys, MarkPair(k) PROVE TracedStep
      BY <2>1, <3>4, MarkPairTraced
    <3>5. CASE MarkDone
      BY <2>1, <3>5, MarkDoneTraced
    <3>6. CASE CleanDone
      BY <2>1, <3>6, CleanDoneTraced
    <3> QED BY <2>4, <3>1, <3>2, <3>3, <3>4, <3>5, <3>6 DEF CleanStep
  <2> QED BY <1>2, <2>2, <2>3, <2>4 DEF Next
<1> QED BY <1>1, <1>2

LEMMA AlwaysTraced == Spec => []Traced
<1>1. Traced /\ [Next]_vars => Traced'
  BY NextTraced DEF TracedStep
<1> QED BY InitTraced, <1>1, PTL DEF Spec

(***************************************************************************)
(* The properties of Graph.                                                *)
(***************************************************************************)
LEMMA TracedTypes == Traced => TypeOK
<1> SUFFICES ASSUME Traced PROVE TypeOK
  OBVIOUS
<1>1. /\ graph.node \in [Live -> Node] /\ Live \subseteq Ref
      /\ graph.sweep \in Nat /\ graph.last_id \in 0 .. MaxRef
  BY DEF Traced, GraphOK, Live
<1>2. graph.sweep \in 0 .. client.sweeps /\ client \in Clients
  BY <1>1, ClientFacts DEF Traced
<1>3. \A i \in DOMAIN gc.stack : gc.stack[i] \in [ref : Live, keys : SUBSET Keys]
  <2>1. gc.stack \in Seq(Frame)
    BY DEF Traced
  <2>2. \A i \in DOMAIN gc.stack : gc.stack[i] \in Frame
    BY <2>1
  <2> QED BY <2>2 DEF Frame
<1> QED BY <1>1, <1>2, <1>3 DEF TypeOK, Traced

LEMMA TracedMarkedOnce == Traced => MarkedOnce
BY NoFrames DEF Traced, Marking, Sweeping, MarkedOnce, NoLoop

LEMMA TracedNoDangling == Traced => NoDangling
<1> SUFFICES ASSUME Traced PROVE NoDangling
  OBVIOUS
<1>1. CASE pc # "sweep"
  BY <1>1 DEF Traced, Marking, Whole, NoDangling, Live
<1>2. CASE pc = "sweep"
  <2>1. Sweeping /\ GraphOK(graph)
    BY <1>2 DEF Traced
  <2>2. Promised!Reachable = {m \in Live : Kept(m)}
    BY <2>1, KeptClosed, ReachablePromised
  <2> QED BY <1>2, <2>1, <2>2 DEF NoDangling, Sweeping
<1> QED BY <1>1, <1>2

(* The fields of the graph and the locals of a collection have their types.*)
THEOREM GraphTypes == Spec => []TypeOK
BY AlwaysTraced, TracedTypes, PTL

(* No pair of a node refers to one that was freed; while a sweep runs, no  *)
(* pair of a node that it leaves.                                          *)
THEOREM NothingDangles == Spec => []NoDangling
BY AlwaysTraced, TracedNoDangling, PTL

(* The recursion of clean_mark never enters a node twice at a time.        *)
THEOREM MarkerEnds == Spec => []MarkedOnce
BY AlwaysTraced, TracedMarkedOnce, PTL

(* When a collection ends, every node that is left is reached from a root. *)
THEOREM CleansAll == Spec => CleanComplete
<1>1. Traced /\ [Next]_vars => [pc = "sweep" /\ pc' = "idle" => (Live \subseteq Promised!Reachable)']_vars
  <2> SUFFICES ASSUME Traced, [Next]_vars, pc = "sweep", pc' = "idle"
               PROVE  (Live \subseteq Promised!Reachable)'
    OBVIOUS
  <2>1. CleanDone /\ UNCHANGED client
    BY DEF Next, vars, Mutate, Alloc, Salloc, Mark, Unmark, SetPair, DelPair, Call,
           Clean, CleanStep, MarkRoot, SweepNode, MarkDone
  <2>2. TracedStep /\ Live' \subseteq ReachOf(graph')
    BY <2>1, CleanDoneTraced
  <2>3. GraphOK(graph')
    BY <2>2 DEF TracedStep, Traced
  <2> QED BY <2>2, <2>3, ReachablePromisedNext
<1> QED BY <1>1, AlwaysTraced, PTL DEF Spec, CleanComplete

(* The graph implements NodeGraph: what the functions of graph.h do to its *)
(* roots and pairs is what they promise, and a collection frees no node    *)
(* that a root reaches.                                                    *)
THEOREM KeepsPromise == Spec => ImplementsNodeGraph
<1>1. Init => Promised!Init
  BY InitTraced
<1>2. Traced /\ [Next]_vars => [Promised!Next]_(Promised!vars)
  BY NextTraced DEF TracedStep
<1> QED BY <1>1, <1>2, AlwaysTraced, PTL DEF Spec, ImplementsNodeGraph, Promised!Spec

-----------------------------------------------------------------------------
(***************************************************************************)
(* References counted.                                                     *)
(***************************************************************************)
To(p, m) == {k \in Keys : p[k] = m}
One(b)   == IF b THEN 1 ELSE 0

Put(p, k, v) == [p EXCEPT ![k] = v]

LEMMA ToFinite ==
    ASSUME NEW p, NEW m
    PROVE  IsFiniteSet(To(p, m)) /\ Cardinality(To(p, m)) \in Nat
<1>1. IsFiniteSet(To(p, m))
  BY GraphAssumption, FS_Subset DEF To
<1> QED BY <1>1, FS_CardinalityType

(* A reference that is there is counted.                                   *)
LEMMA ToSome ==
    ASSUME NEW p, NEW k \in Keys
    PROVE  Cardinality(To(p, p[k])) > 0
<1>1. k \in To(p, p[k])
  BY DEF To
<1> QED BY <1>1, ToFinite, FS_EmptySet

LEMMA ToNone ==
    ASSUME NEW p, NEW m, \A k \in Keys : p[k] # m
    PROVE  Cardinality(To(p, m)) = 0
<1>1. To(p, m) = {}
  BY DEF To
<1> QED BY <1>1, FS_EmptySet

(* One reference put in the place of another.                              *)
LEMMA ToPut ==
    ASSUME NEW p \in [Keys -> Ref \cup {NullRef}], NEW k \in Keys, NEW v, NEW m
    PROVE  Cardinality(To(Put(p, k, v), m))
             = Cardinality(To(p, m)) + One(m = v) - One(m = p[k])
<1> DEFINE q == Put(p, k, v)
<1>1. \A l \in Keys : q[l] = IF l = k THEN v ELSE p[l]
  BY DEF Put
<1>2. Cardinality(To(p, m)) \in Nat
  BY ToFinite
<1> HIDE DEF q
<1>3. CASE (m = v) = (m = p[k])
  <2>1. To(q, m) = To(p, m)
    BY <1>1, <1>3 DEF To
  <2> QED BY <1>2, <1>3, <2>1 DEF One, q
<1>4. CASE m = v /\ m # p[k]
  <2>1. To(q, m) = To(p, m) \cup {k} /\ k \notin To(p, m)
    BY <1>1, <1>4 DEF To
  <2>2. Cardinality(To(q, m)) = Cardinality(To(p, m)) + 1
    BY <2>1, ToFinite, FS_AddElement
  <2> QED BY <1>2, <1>4, <2>2 DEF One, q
<1>5. CASE m # v /\ m = p[k]
  <2>1. To(q, m) = To(p, m) \ {k} /\ k \in To(p, m)
    BY <1>1, <1>5 DEF To
  <2>2. Cardinality(To(q, m)) = Cardinality(To(p, m)) - 1
    BY <2>1, ToFinite, FS_RemoveElement
  <2> QED BY <1>2, <1>5, <2>2 DEF One, q
<1> QED BY <1>3, <1>4, <1>5

LEMMA RefsAre ==
    ASSUME NEW g, NEW to, NEW from
    PROVE  Refs(g, to, from) = Cardinality(To(g.node[from].pairs, to))
BY DEF Refs, To

(***************************************************************************)
(* What the operators on graphs do to the counts.                          *)
(***************************************************************************)
LEMMA BackType ==
    ASSUME NEW g, GraphOK(g), NEW to \in DOMAIN g.node, NEW from \in Ref
    PROVE  g.node[to].back[from] \in Nat /\ g.node[to].back \in [Ref -> Nat]
BY GraphNode, NodeFacts

LEMMA CountBack ==
    ASSUME NEW g, GraphOK(g), NEW to \in DOMAIN g.node, NEW from \in Ref, NEW c \in Nat,
           NEW m \in DOMAIN g.node, NEW f \in Ref
    PROVE  Backed(g, to, from, c).node[m].back[f] =
             IF m = to /\ f = from THEN c ELSE g.node[m].back[f]
<1>1. g.node[to] \in Node /\ g.node \in [DOMAIN g.node -> Node]
  BY GraphNode DEF GraphOK
<1>2. Backed(g, to, from, c).node = [g.node EXCEPT ![to].back[from] = c]
  BY DEF GraphOK, Backed
<1>3. [g.node[to] EXCEPT !.back[from] = c].back = [g.node[to].back EXCEPT ![from] = c]
  BY <1>1 DEF Node
<1>4. [g.node[to].back EXCEPT ![from] = c][f] = IF f = from THEN c ELSE g.node[to].back[f]
  BY BackType
<1> QED BY <1>2, <1>3, <1>4

LEMMA PairBack ==
    ASSUME NEW g, GraphOK(g), NEW n \in DOMAIN g.node, NEW k \in Keys, NEW v, NEW m \in DOMAIN g.node
    PROVE  Paired(g, n, k, v).node[m].back = g.node[m].back
<1>1. g.node[n] \in Node
  BY GraphNode
<1>2. Paired(g, n, k, v).node = [g.node EXCEPT ![n].pairs[k] = v]
  BY DEF GraphOK, Paired
<1>3. [g.node[n] EXCEPT !.pairs[k] = v].back = g.node[n].back
  BY <1>1 DEF Node
<1> QED BY <1>2, <1>3

LEMMA SweepBack ==
    ASSUME NEW g, GraphOK(g), NEW n \in DOMAIN g.node, NEW s, NEW m \in DOMAIN g.node
    PROVE  Swept(g, n, s).node[m].back = g.node[m].back
<1>1. g.node[n] \in Node
  BY GraphNode
<1>2. Swept(g, n, s).node = [g.node EXCEPT ![n].gcsweep = s]
  BY DEF GraphOK, Swept
<1>3. [g.node[n] EXCEPT !.gcsweep = s].back = g.node[n].back
  BY <1>1 DEF Node
<1> QED BY <1>2, <1>3

LEMMA AllocatedBack ==
    ASSUME NEW g, GraphOK(g), NEW r \in Ref, r \notin DOMAIN g.node, NEW s \in Nat \cup {-1}
    PROVE  /\ \A m \in DOMAIN g.node : Allocated(g, r, s).node[m] = g.node[m]
           /\ \A f \in Ref : Allocated(g, r, s).node[r].back[f] = 0
<1> DEFINE new == [gcsweep |-> s, back |-> [m \in Ref |-> 0], pairs |-> [k \in Keys |-> NullRef]]
           nodes == [n \in DOMAIN g.node \cup {r} |-> IF n = r THEN new ELSE g.node[n]]
<1>1. Allocated(g, r, s) = [node |-> nodes, sweep |-> g.sweep, last_id |-> r]
  BY GraphFields DEF Allocated
<1>2. \A f \in Ref : new.back[f] = 0
  OBVIOUS
<1> HIDE DEF new
<1> QED BY <1>1, <1>2

LEMMA RemoveBack ==
    ASSUME NEW g, GraphOK(g), NEW n \in DOMAIN g.node, NEW m \in DOMAIN g.node \ {n}, NEW f \in Ref
    PROVE  CleanRemove(g, n).node[m].back[f] =
             IF f # n THEN g.node[m].back[f]
             ELSE IF g.node[m].back[n] > Refs(g, m, n) THEN g.node[m].back[n] - Refs(g, m, n) ELSE 0
<1> DEFINE left(o) == IF g.node[o].back[n] > Refs(g, o, n) THEN g.node[o].back[n] - Refs(g, o, n) ELSE 0
           nodes == [o \in DOMAIN g.node \ {n} |-> [g.node[o] EXCEPT !.back[n] = left(o)]]
<1>1. CleanRemove(g, n).node = nodes
  <2>1. CleanRemove(g, n) = [g EXCEPT !.node = nodes]
    BY DEF CleanRemove
  <2> HIDE DEF nodes
  <2> QED BY <2>1 DEF GraphOK
<1> HIDE DEF left
<1>2. nodes[m] = [g.node[m] EXCEPT !.back[n] = left(m)]
  OBVIOUS
<1>3. g.node[m] \in Node /\ n \in Ref
  BY GraphNode
<1>4. nodes[m].back = [g.node[m].back EXCEPT ![n] = left(m)]
  BY <1>2, <1>3 DEF Node
<1>5. nodes[m].back[f] = IF f # n THEN g.node[m].back[f] ELSE left(m)
  BY <1>4, BackType
<1> QED BY <1>1, <1>5 DEF left

LEMMA AddBack ==
    ASSUME NEW g, GraphOK(g), NEW to, NEW from \in Ref, NEW m \in DOMAIN g.node, NEW f \in Ref
    PROVE  AddBackref(g, to, from).node[m].back[f] =
             g.node[m].back[f] + One(m = to /\ f = from)
<1>1. g.node[m].back[f] \in Nat
  BY BackType
<1>2. CASE to \in DOMAIN g.node
  <2>1. PICK c \in Nat : c = g.node[to].back[from] + 1
    BY <1>2, BackType
  <2>2. AddBackref(g, to, from) = Backed(g, to, from, c)
    BY <1>2, <2>1 DEF AddBackref, Backed
  <2>3. Backed(g, to, from, c).node[m].back[f] =
          IF m = to /\ f = from THEN c ELSE g.node[m].back[f]
    BY <1>2, CountBack
  <2> QED BY <1>1, <2>1, <2>2, <2>3 DEF One
<1>3. CASE to \notin DOMAIN g.node
  BY <1>1, <1>3 DEF AddBackref, One
<1> QED BY <1>2, <1>3

LEMMA RmBack ==
    ASSUME NEW g, GraphOK(g), NEW to, NEW from \in Ref, NEW m \in DOMAIN g.node, NEW f \in Ref,
           to \in DOMAIN g.node => g.node[to].back[from] > 0
    PROVE  RmBackref(g, to, from).node[m].back[f] =
             g.node[m].back[f] - One(m = to /\ f = from)
<1>1. g.node[m].back[f] \in Nat
  BY BackType
<1>2. CASE to \in DOMAIN g.node
  <2>1. PICK c \in Nat : c = g.node[to].back[from] - 1
    BY <1>2, BackType
  <2>2. RmBackref(g, to, from) = Backed(g, to, from, c)
    BY <1>2, <2>1 DEF RmBackref, Backed
  <2>3. Backed(g, to, from, c).node[m].back[f] =
          IF m = to /\ f = from THEN c ELSE g.node[m].back[f]
    BY <1>2, CountBack
  <2> QED BY <1>1, <2>1, <2>2, <2>3 DEF One
<1>3. CASE to \notin DOMAIN g.node
  BY <1>1, <1>3 DEF RmBackref, One
<1> QED BY <1>2, <1>3

(***************************************************************************)
(* The invariant, and what keeps it.                                       *)
(***************************************************************************)
Covered(g) == \A to, from \in DOMAIN g.node : g.node[to].back[from] >= Refs(g, to, from)

Exact(g) == \A to \in DOMAIN g.node, from \in Ref :
                g.node[to].back[from] = IF from \in DOMAIN g.node THEN Refs(g, to, from) ELSE 0

Counted == Covered(graph) /\ (~ client.overwrites => Exact(graph))

LEMMA CountedSame ==
    ASSUME NEW g, NEW h, DOMAIN h.node = DOMAIN g.node,
           \A m \in DOMAIN g.node : h.node[m].back = g.node[m].back /\ h.node[m].pairs = g.node[m].pairs
    PROVE  (Covered(g) => Covered(h)) /\ (Exact(g) => Exact(h))
<1>1. \A to, from \in DOMAIN g.node : Refs(h, to, from) = Refs(g, to, from)
  BY DEF Refs
<1> QED BY <1>1 DEF Covered, Exact

(* Where counts and references change by the same, what the counts say     *)
(* stays true.                                                             *)
LEMMA CountedShift ==
    ASSUME NEW g, GraphOK(g), NEW h, DOMAIN h.node = DOMAIN g.node,
           NEW d \in [DOMAIN g.node -> [Ref -> Int]],
           \A m \in DOMAIN g.node, f \in Ref :
               h.node[m].back[f] = g.node[m].back[f] + d[m][f],
           \A m \in DOMAIN g.node, f \in DOMAIN g.node : Refs(h, m, f) = Refs(g, m, f) + d[m][f],
           \A m \in DOMAIN g.node, f \in Ref \ DOMAIN g.node : d[m][f] = 0
    PROVE  (Covered(g) => Covered(h)) /\ (Exact(g) => Exact(h))
<1>1. \A m, f \in DOMAIN g.node : /\ Refs(g, m, f) \in Nat /\ f \in Ref
                                 /\ g.node[m].back[f] \in Nat /\ d[m][f] \in Int
  BY RefsCounted, BackType DEF GraphOK
<1>2. Covered(g) => Covered(h)
  BY <1>1 DEF Covered
<1>3. Exact(g) => Exact(h)
  BY <1>1 DEF Exact
<1> QED BY <1>2, <1>3

Shift(g, n, v, old) ==
    [m \in DOMAIN g.node |-> [f \in Ref |-> IF f = n THEN One(m = v) - One(m = old) ELSE 0]]

(* h is g but that n.k refers to v, which is counted for it.               *)
IsPut(g, h, n, k, v) ==
    /\ n \in DOMAIN g.node /\ DOMAIN h.node = DOMAIN g.node
    /\ \A m \in DOMAIN g.node : h.node[m].pairs = IF m = n THEN Put(g.node[n].pairs, k, v)
                                              ELSE g.node[m].pairs
    /\ \A m \in DOMAIN g.node, f \in Ref :
           h.node[m].back[f] = g.node[m].back[f]
               + (IF f = n THEN One(m = v) - One(m = g.node[n].pairs[k]) ELSE 0)

LEMMA CountedPut ==
    ASSUME NEW g, GraphOK(g), NEW h, NEW n, NEW k \in Keys, NEW v, IsPut(g, h, n, k, v)
    PROVE  (Covered(g) => Covered(h)) /\ (Exact(g) => Exact(h))
<1> DEFINE old == g.node[n].pairs[k]
           d == Shift(g, n, v, old)
<1>0. /\ n \in DOMAIN g.node /\ DOMAIN h.node = DOMAIN g.node
      /\ \A m \in DOMAIN g.node : h.node[m].pairs = IF m = n THEN Put(g.node[n].pairs, k, v)
                                                ELSE g.node[m].pairs
      /\ \A m \in DOMAIN g.node, f \in Ref :
             h.node[m].back[f] = g.node[m].back[f]
                 + (IF f = n THEN One(m = v) - One(m = old) ELSE 0)
  BY DEF IsPut
<1>1. d \in [DOMAIN g.node -> [Ref -> Int]]
  BY DEF Shift, One
<1>2. \A m \in DOMAIN g.node, f \in Ref :
          d[m][f] = IF f = n THEN One(m = v) - One(m = old) ELSE 0
  BY DEF Shift
<1> HIDE DEF d
<1>3. \A m \in DOMAIN g.node, f \in Ref : h.node[m].back[f] = g.node[m].back[f] + d[m][f]
  BY <1>0, <1>2
<1>4. \A m \in DOMAIN g.node, f \in Ref \ DOMAIN g.node : d[m][f] = 0
  BY <1>0, <1>2
<1>5. ASSUME NEW m \in DOMAIN g.node, NEW f \in DOMAIN g.node
      PROVE  Refs(h, m, f) = Refs(g, m, f) + d[m][f]
  <2>1. f \in Ref /\ g.node[n].pairs \in [Keys -> Ref \cup {NullRef}] /\ Refs(g, m, f) \in Nat
    BY <1>0, GraphNode, NodeFacts, RefsCounted
  <2>2. h.node[f].pairs = IF f = n THEN Put(g.node[n].pairs, k, v) ELSE g.node[f].pairs
    BY <1>0
  <2>3. CASE f = n
    <3>0. PICK p \in [Keys -> Ref \cup {NullRef}] : p = g.node[n].pairs
      BY <2>1
    <3>1. Cardinality(To(Put(p, k, v), m))
            = Cardinality(To(p, m)) + One(m = v) - One(m = p[k])
      BY ToPut
    <3>2. Refs(h, m, f) = Refs(g, m, f) + One(m = v) - One(m = old)
      BY <2>2, <2>3, <3>0, <3>1, RefsAre
    <3>3. One(m = v) \in Int /\ One(m = old) \in Int
      BY DEF One
    <3> QED BY <1>2, <2>1, <2>3, <3>2, <3>3
  <2>4. CASE f # n
    <3>1. Refs(h, m, f) = Refs(g, m, f)
      BY <2>2, <2>4 DEF Refs
    <3> QED BY <1>2, <2>1, <2>4, <3>1
  <2> QED BY <2>3, <2>4
<1> QED BY <1>0, <1>1, <1>3, <1>4, <1>5, CountedShift

(* A pair's reference is counted as long as it is there.                   *)
LEMMA CountedSome ==
    ASSUME NEW g, GraphOK(g), Covered(g), NEW n \in DOMAIN g.node, NEW k \in Keys,
           g.node[n].pairs[k] \in DOMAIN g.node
    PROVE  g.node[g.node[n].pairs[k]].back[n] > 0
<1>1. PICK to \in DOMAIN g.node : to = g.node[n].pairs[k]
  OBVIOUS
<1>2. Refs(g, to, n) > 0 /\ Refs(g, to, n) \in Nat
  BY <1>1, ToSome, RefsAre, RefsCounted
<1>3. g.node[to].back[n] >= Refs(g, to, n) /\ g.node[to].back[n] \in Nat
  BY BackType, GraphNode DEF Covered
<1> QED BY <1>1, <1>2, <1>3

LEMMA SetPairCounted ==
    ASSUME Sane(graph), Covered(graph), NEW n \in Ref, NEW k \in Keys, NEW v, SetPair(n, k, v)
    PROVE  Covered(graph') /\ (Exact(graph) => Exact(graph'))
<1> DEFINE told == AddBackref(graph, v, n)
           put  == Paired(told, n, k, v)
<1>1. /\ n \in Live /\ v \in Live \cup {NullRef}
      /\ graph' = RmBackref(put, graph.node[n].pairs[k], n) /\ GraphOK(graph)
  BY DEF SetPair, Call, Sane, Paired
<1>2. PICK old \in Ref \cup {NullRef} : old = graph.node[n].pairs[k]
  BY <1>1, GraphNode, NodeFacts DEF Live
<1>3. Recounted(graph, told)
  BY <1>1, AddBackrefFacts
<1>4. \A m \in Live, f \in Ref :
         told.node[m].back[f] = graph.node[m].back[f] + One(m = v /\ f = n)
  BY <1>1, AddBack DEF Live
<1> HIDE DEF told
<1>5. /\ Sane(told) /\ PairsOf(told) = PairsOf(graph) /\ DOMAIN told.node = Live
  BY <1>3, RecountedFacts DEF Recounted, Live
<1>6. /\ Sane(put) /\ PairsOf(put) = PutIn(PairsOf(graph), n, k, v)
  <2>1. n \in DOMAIN told.node /\ v \in DOMAIN told.node \cup {NullRef} /\ Sane(told)
    BY <1>1, <1>5
  <2>2. Sane(put) /\ PairsOf(put) = PutIn(PairsOf(told), n, k, v)
    BY <2>1, PairSees
  <2> QED BY <1>5, <2>2
<1>7. \A m \in Live : put.node[m].back = told.node[m].back
  BY <1>1, <1>5, PairBack DEF Sane
<1>8. DOMAIN put.node = Live
  BY <1>6 DEF PairsOf, Live, PutIn
<1> HIDE DEF put
<1>9. old \in DOMAIN put.node => put.node[old].back[n] > 0
  <2> SUFFICES ASSUME old \in Live PROVE put.node[old].back[n] > 0
    BY <1>8
  <2>1. graph.node[old].back[n] > 0 /\ graph.node[old].back[n] \in Nat
    BY <1>1, <1>2, CountedSome, BackType DEF Live
  <2>2. put.node[old].back[n] = graph.node[old].back[n] + One(old = v /\ n = n)
    BY <1>4, <1>7
  <2> QED BY <2>1, <2>2 DEF One
<1>10. \A m \in Live, f \in Ref :
          graph'.node[m].back[f] = put.node[m].back[f] - One(m = old /\ f = n)
  BY <1>1, <1>2, <1>6, <1>8, <1>9, RmBack DEF Sane
<1>11. \A m \in Live, f \in Ref :
          graph'.node[m].back[f] = graph.node[m].back[f]
              + (IF f = n THEN One(m = v) - One(m = graph.node[n].pairs[k]) ELSE 0)
  <2> SUFFICES ASSUME NEW m \in Live, NEW f \in Ref
               PROVE  graph'.node[m].back[f] = graph.node[m].back[f]
                        + (IF f = n THEN One(m = v) - One(m = old) ELSE 0)
    BY <1>2
  <2>1. graph.node[m].back[f] \in Nat
    BY <1>1, BackType DEF Live
  <2> QED BY <1>4, <1>7, <1>10, <2>1 DEF One
<1>12. Recounted(put, graph')
  BY <1>1, <1>6, RmBackrefFacts DEF Sane
<1>13. DOMAIN graph'.node = Live /\ PairsOf(graph') = PutIn(PairsOf(graph), n, k, v)
  BY <1>6, <1>8, <1>12, RecountedFacts DEF Recounted
<1>14. IsPut(graph, graph', n, k, v)
  BY <1>1, <1>11, <1>13 DEF IsPut, Live, PairsOf, Put, PutIn
<1> QED BY <1>1, <1>14, CountedPut

LEMMA DelPairCounted ==
    ASSUME Sane(graph), Covered(graph), NEW n \in Ref, NEW k \in Keys, DelPair(n, k)
    PROVE  Covered(graph') /\ (Exact(graph) => Exact(graph'))
<1>1. PICK old, cut, v : /\ old = graph.node[n].pairs[k] /\ cut = RmBackref(graph, old, n)
                         /\ v = NullRef
  OBVIOUS
<1>2. n \in Live /\ graph' = Paired(cut, n, k, v) /\ GraphOK(graph)
  BY <1>1 DEF DelPair, Call, Sane, Paired
<1>3. Recounted(graph, cut)
  BY <1>1, <1>2, RmBackrefFacts
<1>4. Sane(cut) /\ PairsOf(cut) = PairsOf(graph) /\ DOMAIN cut.node = Live
  BY <1>3, RecountedFacts DEF Recounted, Live
<1>5. old \in DOMAIN graph.node => graph.node[old].back[n] > 0
  BY <1>1, <1>2, CountedSome DEF Live
<1>6. \A m \in Live, f \in Ref :
         cut.node[m].back[f] = graph.node[m].back[f] - One(m = old /\ f = n)
  <2> SUFFICES ASSUME NEW m \in DOMAIN graph.node, NEW f \in Ref
               PROVE  RmBackref(graph, old, n).node[m].back[f]
                        = graph.node[m].back[f] - One(m = old /\ f = n)
    BY <1>1 DEF Live
  <2> QED BY <1>2, <1>5, RmBack
<1>7. \A m \in Live : graph'.node[m].back = cut.node[m].back
  BY <1>2, <1>4, PairBack DEF Sane
<1>8. DOMAIN graph'.node = Live /\ PairsOf(graph') = PutIn(PairsOf(graph), n, k, v)
  <2> DEFINE h == Paired(cut, n, k, v)
  <2>1. n \in DOMAIN cut.node /\ v \in DOMAIN cut.node \cup {NullRef} /\ Sane(cut)
    BY <1>1, <1>2, <1>4
  <2>2. PairsOf(h) = PutIn(PairsOf(cut), n, k, v)
    BY <2>1, PairSees
  <2> HIDE DEF h
  <2>3. PairsOf(graph') = PutIn(PairsOf(graph), n, k, v)
    BY <1>2, <1>4, <2>2 DEF h
  <2> QED BY <2>3 DEF PairsOf, Live, PutIn
<1>9. \A m \in Live, f \in Ref :
          graph'.node[m].back[f] = graph.node[m].back[f]
              + (IF f = n THEN One(m = v) - One(m = graph.node[n].pairs[k]) ELSE 0)
  <2> SUFFICES ASSUME NEW m \in Live, NEW f \in Ref
               PROVE  graph'.node[m].back[f] = graph.node[m].back[f]
                        + (IF f = n THEN One(m = v) - One(m = old) ELSE 0)
    BY <1>1
  <2>1. graph.node[m].back[f] \in Nat /\ m # v
    BY <1>1, <1>2, BackType, NullFacts DEF Live, GraphOK
  <2> QED BY <1>6, <1>7, <2>1 DEF One
<1>10. IsPut(graph, graph', n, k, v)
  BY <1>2, <1>8, <1>9 DEF IsPut, Live, PairsOf, Put, PutIn
<1> QED BY <1>2, <1>10, CountedPut

(* A new node refers to nothing, and nothing refers to it.                 *)
LEMMA AllocCounted ==
    ASSUME NEW g, Sane(g), NEW r \in Ref, r \notin DOMAIN g.node, NEW s \in {-1, 0}
    PROVE  LET h == Allocated(g, r, s) IN
           /\ DOMAIN h.node = DOMAIN g.node \cup {r}
           /\ \A f \in Ref : h.node[r].back[f] = 0
           /\ \A m \in DOMAIN h.node : Refs(h, r, m) = 0
           /\ (Covered(g) => Covered(h)) /\ (Exact(g) => Exact(h))
<1> DEFINE h == Allocated(g, r, s)
<1>1. GraphOK(g) /\ Whole(g) /\ s \in Nat \cup {-1} /\ r # NullRef
  BY NullFacts DEF Sane
<1>2. /\ \A m \in DOMAIN g.node : h.node[m] = g.node[m]
      /\ \A f \in Ref : h.node[r].back[f] = 0
  BY <1>1, AllocatedBack
<1>3. DOMAIN h.node = DOMAIN g.node \cup {r} /\ \A k \in Keys : h.node[r].pairs[k] = NullRef
  <2> HIDE DEF h
  <2>1. /\ DOMAIN h.node = DOMAIN g.node \cup {r}
        /\ h.node[r] = [gcsweep |-> s, back |-> [m \in Ref |-> 0],
                        pairs |-> [k \in Keys |-> NullRef]]
    BY <1>1, AllocatedFacts DEF h
  <2>2. h.node[r].pairs = [k \in Keys |-> NullRef]
    BY <2>1
  <2> QED BY <2>1, <2>2
<1> HIDE DEF h
<1>4. \A m \in DOMAIN g.node : \A to : Refs(h, to, m) = Refs(g, to, m)
  BY <1>2 DEF Refs
<1>5. \A to \in Ref : Refs(h, to, r) = 0
  <2> SUFFICES ASSUME NEW to \in Ref PROVE Refs(h, to, r) = 0
    OBVIOUS
  <2>1. \A k \in Keys : h.node[r].pairs[k] # to
    BY <1>3, NullFacts
  <2> QED BY <2>1, ToNone, RefsAre
<1>6. \A m \in DOMAIN h.node : Refs(h, r, m) = 0
  <2> SUFFICES ASSUME NEW m \in DOMAIN g.node PROVE Refs(h, r, m) = 0
    BY <1>3, <1>5
  <2>1. \A k \in Keys : h.node[m].pairs[k] # r
    BY <1>1, <1>2 DEF Whole
  <2> QED BY <2>1, ToNone, RefsAre
<1>7. \A m \in DOMAIN g.node : m \in Ref /\ g.node[m].back[r] \in Nat
  BY <1>1, BackType, GraphNode
<1>8. Covered(g) => Covered(h)
  <2> SUFFICES ASSUME Covered(g), NEW to \in DOMAIN h.node, NEW from \in DOMAIN h.node
               PROVE  h.node[to].back[from] >= Refs(h, to, from)
    BY DEF Covered
  <2>1. CASE to = r
    BY <1>1, <1>2, <1>3, <1>6, <1>7, <2>1
  <2>2. CASE to # r /\ from = r
    BY <1>2, <1>3, <1>5, <1>7, <2>2
  <2>3. CASE to # r /\ from # r
    BY <1>2, <1>3, <1>4, <2>3 DEF Covered
  <2> QED BY <2>1, <2>2, <2>3
<1>9. Exact(g) => Exact(h)
  <2> SUFFICES ASSUME Exact(g), NEW to \in DOMAIN h.node, NEW from \in Ref
               PROVE  h.node[to].back[from] = IF from \in DOMAIN h.node THEN Refs(h, to, from) ELSE 0
    BY DEF Exact
  <2>1. CASE to = r
    BY <1>2, <1>6, <2>1
  <2>2. CASE to # r /\ from = r
    BY <1>2, <1>3, <1>5, <1>7, <2>2 DEF Exact
  <2>3. CASE to # r /\ from # r
    BY <1>2, <1>3, <1>4, <2>3 DEF Exact
  <2> QED BY <2>1, <2>2, <2>3
<1> QED BY <1>2, <1>3, <1>6, <1>8, <1>9 DEF h

(* A node goes, and with it the counts of what it referred to.             *)
LEMMA RemoveCounted ==
    ASSUME NEW g, GraphOK(g), NEW n \in DOMAIN g.node
    PROVE  LET h == CleanRemove(g, n) IN
           (Covered(g) => Covered(h)) /\ (Exact(g) => Exact(h))
<1> DEFINE h == CleanRemove(g, n)
<1>1. DOMAIN h.node = DOMAIN g.node \ {n} /\ Alike(g, h, DOMAIN g.node \ {n})
  BY CleanRemoveFacts
<1>2. \A m \in DOMAIN g.node \ {n}, f \in Ref :
         h.node[m].back[f] =
             IF f # n THEN g.node[m].back[f]
             ELSE IF g.node[m].back[n] > Refs(g, m, n) THEN g.node[m].back[n] - Refs(g, m, n) ELSE 0
  BY RemoveBack
<1> HIDE DEF h
<1>3. \A m \in DOMAIN g.node \ {n} : \A to : Refs(h, to, m) = Refs(g, to, m)
  BY <1>1 DEF Alike, Refs
<1>4. \A m \in DOMAIN g.node : m \in Ref /\ Refs(g, m, n) \in Nat
  BY RefsCounted DEF GraphOK
<1>5. Covered(g) => Covered(h)
  BY <1>1, <1>2, <1>3, <1>4 DEF Covered
<1>6. Exact(g) => Exact(h)
  BY <1>1, <1>2, <1>3, <1>4 DEF Exact
<1> QED BY <1>5, <1>6 DEF h

LEMMA SallocCounted ==
    ASSUME Sane(graph), Covered(graph), NEW base \in Ref, NEW k \in Keys, Salloc(base, k)
    PROVE  Covered(graph') /\ (Exact(graph) /\ ~ client.overwrites => Exact(graph'))
<1>0. PICK r \in Ref :
         /\ r \notin Live
         /\ base \in Live => client.overwrites \/ graph.node[base].pairs[k] = NullRef
         /\ graph' = LET new == Allocated(graph, r, 0)
                     IN  IF base \in DOMAIN new.node
                         THEN [new EXCEPT !.node[r].back[base] = 1, !.node[base].pairs[k] = r]
                         ELSE [graph EXCEPT !.last_id = r]
  BY DEF Salloc, Call
<1>1. PICK new :
         /\ r \notin Live /\ new = Allocated(graph, r, 0)
         /\ base \in Live => client.overwrites \/ graph.node[base].pairs[k] = NullRef
         /\ graph' = IF base \in DOMAIN new.node
                     THEN [new EXCEPT !.node[r].back[base] = 1, !.node[base].pairs[k] = r]
                     ELSE [graph EXCEPT !.last_id = r]
  BY <1>0
<1>2. Sane(new) /\ GraphOK(new) /\ GraphOK(graph)
  BY <1>1, AllocSees DEF Live, Sane
<1>3. /\ DOMAIN new.node = Live \cup {r}
      /\ \A f \in Ref : new.node[r].back[f] = 0
      /\ \A m \in DOMAIN new.node : Refs(new, r, m) = 0
      /\ Covered(new) /\ (Exact(graph) => Exact(new))
  BY <1>1, AllocCounted DEF Live
<1>4. /\ \A m \in Live : new.node[m] = graph.node[m]
      /\ new.node[r].pairs[k] = NullRef
  <2>1. \A m \in Live : new.node[m] = graph.node[m]
    BY <1>1, <1>2, AllocatedBack DEF Live
  <2>2. new.node[r] = [gcsweep |-> 0, back |-> [m \in Ref |-> 0], pairs |-> [l \in Keys |-> NullRef]]
    BY <1>1, <1>2, AllocatedFacts DEF Live
  <2>3. new.node[r].pairs = [l \in Keys |-> NullRef]
    BY <2>2
  <2> QED BY <2>1, <2>3
<1>5. CASE base \in DOMAIN new.node
  <2>1. PICK told : told = Backed(new, r, base, 1)
    OBVIOUS
  <2>2. graph' = Paired(told, base, k, r)
    BY <1>1, <1>5, <2>1 DEF Paired, Backed
  <2>3. Recounted(new, told)
    BY <1>2, <1>3, <2>1, CountFacts
  <2>4. /\ Sane(told) /\ PairsOf(told) = PairsOf(new) /\ DOMAIN told.node = DOMAIN new.node
    BY <1>2, <2>3, RecountedFacts DEF Recounted
  <2>5. \A m \in DOMAIN new.node, f \in Ref :
           told.node[m].back[f] = IF m = r /\ f = base THEN 1 ELSE new.node[m].back[f]
    BY <1>2, <1>3, <2>1, CountBack
  <2>6. \A m \in DOMAIN new.node : graph'.node[m].back = told.node[m].back
    BY <1>5, <2>2, <2>4, PairBack DEF Sane
  <2>7. /\ DOMAIN graph'.node = DOMAIN new.node
        /\ \A m \in DOMAIN new.node :
              graph'.node[m].pairs = IF m = base THEN Put(new.node[base].pairs, k, r)
                                     ELSE new.node[m].pairs
    <3>1. base \in DOMAIN told.node /\ r \in DOMAIN told.node \cup {NullRef} /\ Sane(told)
      BY <1>3, <1>5, <2>4
    <3>2. PairsOf(Paired(told, base, k, r)) = PutIn(PairsOf(told), base, k, r)
      BY <3>1, PairSees
    <3>3. PairsOf(graph') = PutIn(PairsOf(new), base, k, r)
      BY <2>2, <2>4, <3>1, <3>2
    <3> QED BY <3>3 DEF PairsOf, Put, PutIn
  <2>8. PICK p \in [Keys -> Ref \cup {NullRef}] : p = new.node[base].pairs
    BY <1>2, <1>5, GraphNode, NodeFacts
  <2>9. \A m \in DOMAIN new.node :
           Refs(graph', m, base) = Refs(new, m, base) + One(m = r) - One(m = p[k])
    BY <1>5, <2>7, <2>8, ToPut, RefsAre
  <2>10. \A m \in DOMAIN new.node, f \in DOMAIN new.node \ {base} :
           Refs(graph', m, f) = Refs(new, m, f)
    BY <2>7 DEF Refs
  <2>11. \A m \in DOMAIN new.node, f \in DOMAIN new.node :
           f \in Ref /\ m \in Ref /\ Refs(new, m, f) \in Nat /\ new.node[m].back[f] \in Nat
    BY <1>2, RefsCounted, BackType DEF GraphOK
  <2>12. p[k] # r
    BY <1>1, <1>2, <1>3, <1>4, <1>5, <2>8, NullFacts DEF Sane, Whole, Live
  <2>13. Covered(graph')
    <3> SUFFICES ASSUME NEW m \in DOMAIN new.node, NEW f \in DOMAIN new.node
                 PROVE  graph'.node[m].back[f] >= Refs(graph', m, f)
      BY <2>7 DEF Covered
    <3>1. new.node[m].back[f] >= Refs(new, m, f)
      BY <1>3 DEF Covered
    <3>2. CASE f # base
      BY <2>5, <2>6, <2>10, <2>11, <3>1, <3>2
    <3>3. CASE f = base /\ m = r
      BY <1>3, <2>5, <2>6, <2>9, <2>11, <2>12, <3>3 DEF One
    <3>4. CASE f = base /\ m # r
      BY <2>5, <2>6, <2>9, <2>11, <3>1, <3>4 DEF One
    <3> QED BY <3>2, <3>3, <3>4
  <2>14. ASSUME Exact(graph), ~ client.overwrites
         PROVE  Exact(graph')
    <3>1. p[k] = NullRef
      BY <1>1, <1>3, <1>4, <1>5, <2>8, <2>14
    <3>2. Exact(new)
      BY <1>3, <2>14
    <3> SUFFICES ASSUME NEW m \in DOMAIN new.node, NEW f \in Ref
                 PROVE  graph'.node[m].back[f] = IF f \in DOMAIN new.node THEN Refs(graph', m, f) ELSE 0
      BY <2>7 DEF Exact
    <3>3. new.node[m].back[f] = IF f \in DOMAIN new.node THEN Refs(new, m, f) ELSE 0
      BY <3>2 DEF Exact
    <3>4. CASE f # base
      BY <2>5, <2>6, <2>10, <3>3, <3>4
    <3>5. CASE f = base /\ m = r
      BY <1>3, <1>5, <2>5, <2>6, <2>9, <2>11, <2>12, <3>5 DEF One
    <3>6. CASE f = base /\ m # r
      BY <1>5, <2>5, <2>6, <2>9, <2>11, <3>1, <3>3, <3>6, NullFacts DEF One
    <3> QED BY <3>4, <3>5, <3>6
  <2> QED BY <2>13, <2>14
<1>6. CASE base \notin DOMAIN new.node
  <2>1. graph'.node = graph.node
    BY <1>1, <1>2, <1>6 DEF GraphOK
  <2> QED BY <2>1, CountedSame
<1> QED BY <1>5, <1>6

(***************************************************************************)
(* Every step keeps the counts.                                            *)
(***************************************************************************)
LEMMA MarkCounted ==
    ASSUME GraphOK(graph), NEW n \in Live, NEW s \in Nat \cup {-1},
           graph' = Swept(graph, n, s)
    PROVE  (Covered(graph) => Covered(graph')) /\ (Exact(graph) => Exact(graph'))
<1> DEFINE h == Swept(graph, n, s)
<1>1. n \in DOMAIN graph.node
  BY DEF Live
<1>2. \A m \in DOMAIN graph.node : h.node[m].back = graph.node[m].back
  BY <1>1, SweepBack
<1> HIDE DEF h
<1>3. /\ DOMAIN h.node = DOMAIN graph.node
      /\ \A m \in DOMAIN graph.node : h.node[m].pairs = graph.node[m].pairs
  BY <1>1, SweepFacts DEF h
<1>4. (Covered(graph) => Covered(h)) /\ (Exact(graph) => Exact(h))
  BY <1>2, <1>3, CountedSame
<1> QED BY <1>4 DEF h

LEMMA MutateCounted ==
    ASSUME Traced, Counted, Mutate, UNCHANGED client
    PROVE  Counted'
<1>1. pc = "idle"
  BY DEF Mutate, Alloc, Salloc, Mark, Unmark, SetPair, DelPair, Call
<1>2. Sane(graph) /\ GraphOK(graph) /\ client \in Clients /\ client.keys \subseteq Keys
  BY <1>1, ClientFacts DEF Traced, Sane
<1>3. Covered(graph) /\ (~ client.overwrites => Exact(graph))
  BY DEF Counted
<1>4. SUFFICES Covered(graph') /\ (Exact(graph) /\ ~ client.overwrites => Exact(graph'))
  BY <1>3 DEF Counted
<1>5. CASE Alloc
  <2>1. PICK r \in Ref : r \notin Live /\ graph' = Allocated(graph, r, -1)
    BY <1>5 DEF Alloc, Call
  <2> QED BY <1>2, <1>3, <2>1, AllocCounted DEF Live
<1>6. ASSUME NEW base \in Ref, NEW k \in client.keys, Salloc(base, k)
      PROVE  Covered(graph') /\ (Exact(graph) /\ ~ client.overwrites => Exact(graph'))
  BY <1>2, <1>3, <1>6, SallocCounted
<1>7. ASSUME NEW n \in Ref, Mark(n) \/ Unmark(n)
      PROVE  Covered(graph') /\ (Exact(graph) => Exact(graph'))
  <2>1. PICK s \in Nat \cup {-1} : n \in Live /\ graph' = Swept(graph, n, s)
    BY <1>7 DEF Mark, Unmark, Call, Swept
  <2> QED BY <1>2, <1>3, <2>1, MarkCounted
<1>8. ASSUME NEW n \in Ref, NEW k \in client.keys, DelPair(n, k)
      PROVE  Covered(graph') /\ (Exact(graph) => Exact(graph'))
  BY <1>2, <1>3, <1>8, DelPairCounted
<1>9. ASSUME NEW n \in Ref, NEW k \in client.keys, NEW v \in Ref \cup {NullRef}, SetPair(n, k, v)
      PROVE  Covered(graph') /\ (Exact(graph) => Exact(graph'))
  BY <1>2, <1>3, <1>9, SetPairCounted
<1> QED BY <1>5, <1>6, <1>7, <1>8, <1>9 DEF Mutate

LEMMA CollectCounted ==
    ASSUME Traced, Counted, Clean \/ CleanStep, UNCHANGED client
    PROVE  Counted'
<1>1. GraphOK(graph)
  BY DEF Traced
<1>2. SUFFICES (Covered(graph) => Covered(graph')) /\ (Exact(graph) => Exact(graph'))
  BY DEF Counted
<1>3. CASE graph'.node = graph.node
  BY <1>3, CountedSame
<1>4. CASE Clean
  BY <1>1, <1>3, <1>4 DEF Clean, GraphOK
<1>5. ASSUME NEW n \in gc.todo, SweepNode(n), ~ Kept(n)
      PROVE  (Covered(graph) => Covered(graph')) /\ (Exact(graph) => Exact(graph'))
  <2>1. n \in DOMAIN graph.node /\ graph' = CleanRemove(graph, n)
    BY <1>5 DEF SweepNode, Traced, Live
  <2> QED BY <1>1, <2>1, RemoveCounted
<1>6. ASSUME NEW k \in Top.keys, MarkPair(k), Unmarked(graph.node[Top.ref].pairs[k])
      PROVE  (Covered(graph) => Covered(graph')) /\ (Exact(graph) => Exact(graph'))
  <2>1. PICK v \in Live, s \in Nat \cup {-1} :
           graph' = Swept(graph, v, s)
    BY <1>6, MarkFacts DEF MarkPair, Unmarked, Swept
  <2> QED BY <1>1, <2>1, MarkCounted
<1>7. CASE CleanStep
  BY <1>3, <1>5, <1>6, <1>7 DEF CleanStep, MarkRoot, SweepNode, MarkReturn, MarkPair, MarkDone, CleanDone
<1> QED BY <1>4, <1>7

LEMMA AlwaysCounted == Spec => []Counted
<1>1. Init => Counted
  <2> SUFFICES ASSUME Init PROVE Counted
    OBVIOUS
  <2>1. DOMAIN graph.node = {}
    BY DEF Init
  <2> QED BY <2>1 DEF Counted, Covered, Exact
<1>2. Traced /\ Counted /\ [Next]_vars => Counted'
  <2> SUFFICES ASSUME Traced, Counted, [Next]_vars PROVE Counted'
    OBVIOUS
  <2>1. CASE UNCHANGED vars
    BY <2>1 DEF vars, Counted, Covered, Exact, Refs
  <2>2. CASE Next
    BY <2>2, MutateCounted, CollectCounted DEF Next
  <2> QED BY <2>1, <2>2
<1> QED BY <1>1, <1>2, AlwaysTraced, PTL DEF Spec

(* ndl_graph_backrefs is never less than the references there are, whoever *)
(* sallocs over what.                                                      *)
THEOREM CountsCover == Spec => []BackrefsCover
<1>1. Counted => BackrefsCover
  BY DEF Counted, Covered, BackrefsCover, Live
<1> QED BY <1>1, AlwaysCounted, PTL

(* It is exact for clients whose salloc overwrites no reference, and a     *)
(* node that was freed is counted nowhere.                                 *)
THEOREM CountsAreExact == Spec => []BackrefsExact
<1>1. Counted => BackrefsExact
  BY DEF Counted, Exact, BackrefsExact, Live
<1> QED BY <1>1, AlwaysCounted, PTL

-----------------------------------------------------------------------------
(***************************************************************************)
(* A copy.  What is asked for: a graph, and an order of all keys.          *)
(***************************************************************************)
Asked(roots, order) ==
    /\ GraphOK(graph) /\ Whole(graph)
    /\ roots \in Seq(Live) /\ Len(roots) > 0
    /\ order \in Seq(Keys)
    /\ \A k \in Keys : \E j \in 1 .. Len(order) : order[j] = k

Kid(n, k)  == graph.node[n].pairs[k]
Old(roots) == ReachedBy({roots[i] : i \in DOMAIN roots})

LEMMA Items ==
    ASSUME NEW Q, NEW q \in Seq(Q)
    PROVE  Len(q) \in Nat /\ DOMAIN q = 1 .. Len(q) /\ (\A i \in 1 .. Len(q) : q[i] \in Q)
OBVIOUS

LEMMA ItemsSeq ==
    ASSUME NEW Q, NEW d \in Nat, NEW p \in [1 .. d -> Q]
    PROVE  p \in Seq(Q) /\ Len(p) = d /\ DOMAIN p = 1 .. d
OBVIOUS

LEMMA KidType ==
    ASSUME NEW roots, NEW order, Asked(roots, order), NEW n \in Live, NEW k \in Keys
    PROVE  Kid(n, k) \in Live \cup {NullRef} /\ (Kid(n, k) # NullRef => Kid(n, k) \in Live)
BY DEF Asked, Whole, Kid, Live

(* What the roots reach: the least closed set that has them.               *)
LEMMA OldFacts ==
    ASSUME NEW roots, NEW order, Asked(roots, order)
    PROVE  /\ Old(roots) \subseteq Live
           /\ \A i \in 1 .. Len(roots) : roots[i] \in Old(roots)
           /\ \A n \in Old(roots), k \in Keys : Kid(n, k) # NullRef => Kid(n, k) \in Old(roots)
           /\ \A T \in SUBSET Live :
                (\A i \in 1 .. Len(roots) : roots[i] \in T)
                /\ (\A n \in T, k \in Keys : Kid(n, k) \in T \cup {NullRef}) => Old(roots) \subseteq T
<1> DEFINE S == {roots[i] : i \in DOMAIN roots}
<1>1. DOMAIN roots = 1 .. Len(roots)
  BY DEF Asked
<1>2. Old(roots) = ReachedBy(S)
  BY Zenon DEF Old
<1>3. \A i \in 1 .. Len(roots) : roots[i] \in Live /\ roots[i] \in S
  BY <1>1 DEF Asked
<1>4. ASSUME NEW n \in ReachedBy(S), NEW k \in Keys, Kid(n, k) # NullRef PROVE Kid(n, k) \in ReachedBy(S)
  <2>1. n \in Live
    BY DEF ReachedBy
  <2>2. Kid(n, k) \in Live
    BY <1>4, <2>1, KidType
  <2>3. ASSUME NEW T \in SUBSET Live, Holds(S, T) PROVE Kid(n, k) \in T
    BY <1>4, <2>3 DEF ReachedBy, Holds, Kid
  <2> QED BY <2>2, <2>3 DEF ReachedBy
<1>5. ASSUME NEW T \in SUBSET Live, \A i \in 1 .. Len(roots) : roots[i] \in T,
             \A n \in T, k \in Keys : Kid(n, k) \in T \cup {NullRef}
      PROVE  ReachedBy(S) \subseteq T
  <2>1. Holds(S, T)
    BY <1>1, <1>5 DEF Holds, Kid
  <2> QED BY <2>1 DEF ReachedBy
<1>6. \A i \in 1 .. Len(roots) : roots[i] \in ReachedBy(S)
  BY <1>3 DEF ReachedBy, Holds
<1>7. ReachedBy(S) \subseteq Live
  BY DEF ReachedBy
<1> HIDE DEF S
<1> QED BY <1>2, <1>4, <1>5, <1>6, <1>7

(***************************************************************************)
(* Either recursion, which has seen the nodes S, is at root r and in the   *)
(* calls q.                                                                *)
(***************************************************************************)
PairDone(q, n, j) == \A i \in DOMAIN q : q[i].ref = n => j < q[i].at

(* p has done no more pairs than q, or but the one that q is at.           *)
Alongside(p, q, S, order) ==
    \A n \in S, j \in 1 .. Len(order) : PairDone(p, n, j) => PairDone(q, n, j)
Ahead(p, q, S, order) ==
    \A n \in S, j \in 1 .. Len(order) :
        PairDone(p, n, j) => PairDone(q, n, j) \/ (n = q[Len(q)].ref /\ j = q[Len(q)].at)

(* S is what was seen: the roots before r, and what the pairs lead to that *)
(* no call in q has still to come to.  No two calls are for the same node. *)
Walk(S, r, q, roots, order) ==
    /\ S \subseteq Old(roots)
    /\ r \in 1 .. Len(roots) + 1 /\ \A i \in 1 .. r - 1 : roots[i] \in S
    /\ q \in Seq([ref : S, at : 1 .. Len(order) + 1])
    /\ \A i, j \in DOMAIN q : q[i].ref = q[j].ref => i = j
    /\ \A n \in S, j \in 1 .. Len(order) : PairDone(q, n, j) => Kid(n, order[j]) \in S \cup {NullRef}

(* What it has not done yet of all that there is to do.                    *)
Undone(S, q, n, j) == n \notin S \/ \E i \in DOMAIN q : q[i].ref = n /\ q[i].at <= j

ToDo(S, r, q, roots, order) ==
    {x \in Work(roots, order) : IF x[1] = NullRef THEN r <= x[2] ELSE Undone(S, q, x[1], x[2])}

LEMMA WorkFacts ==
    ASSUME NEW roots, NEW order, Asked(roots, order)
    PROVE  /\ IsFiniteSet(Work(roots, order))
           /\ \A n \in Live, j \in 0 .. Len(order) + 1 : <<n, j>> \in Work(roots, order) /\ n # NullRef
           /\ \A i \in 1 .. Len(roots) : <<NullRef, i>> \in Work(roots, order)
           /\ \A x \in Work(roots, order) :
                \/ x[1] = NullRef /\ x[2] \in 1 .. Len(roots) /\ x = <<NullRef, x[2]>>
                \/ x[1] # NullRef /\ x[1] \in Live /\ x[2] \in 0 .. Len(order) + 1 /\ x = <<x[1], x[2]>>
<1>1. DOMAIN roots = 1 .. Len(roots) /\ Len(roots) \in Nat /\ Len(order) \in Nat
  BY DEF Asked
<1>2. NullRef \notin Live /\ Live \subseteq Ref
  BY NullFacts DEF Asked, GraphOK, Live
<1>3. IsFiniteSet(Live)
  <2>1. IsFiniteSet(Ref)
    BY FS_Interval, NullFacts DEF Ref
  <2> QED BY <1>2, <2>1, FS_Subset
<1>4. IsFiniteSet(Live \X (0 .. Len(order) + 1)) /\ IsFiniteSet({NullRef} \X DOMAIN roots)
  <2>1. 0 \in Int /\ 1 \in Int /\ Len(order) + 1 \in Int /\ Len(roots) \in Int
    BY <1>1
  <2>2. IsFiniteSet(0 .. Len(order) + 1) /\ IsFiniteSet(1 .. Len(roots)) /\ IsFiniteSet({NullRef})
    BY <2>1, FS_Interval, FS_Singleton, Zenon
  <2> QED BY <1>1, <1>3, <2>2, FS_Product
<1>5. IsFiniteSet(Work(roots, order))
  BY <1>4, FS_Union DEF Work
<1> QED BY <1>1, <1>2, <1>5 DEF Work

Shrinks(T, U) == \E x \in T : U \subseteq T \ {x}

Pushed(q, n) == Append(q, [ref |-> n, at |-> 1])

(* A call for a node that was not seen.                                    *)
LEMMA WalkCall ==
    ASSUME NEW roots, NEW order, Asked(roots, order), NEW S, NEW r, NEW q, Walk(S, r, q, roots, order),
           NEW n \in Old(roots), n \notin S, NEW p, p = Pushed(q, n)
    PROVE  /\ Walk(S \cup {n}, r, p, roots, order)
           /\ Shrinks(ToDo(S, r, q, roots, order), ToDo(S \cup {n}, r, p, roots, order))
           /\ \A m \in S \cup {n}, j \in 1 .. Len(order) : PairDone(p, m, j) => m # n /\ PairDone(q, m, j)
<1>1. PICK l, d, z, Q, R :
          /\ l \in Nat /\ l = Len(order) /\ d \in Nat /\ d = Len(q) /\ DOMAIN q = 1 .. d
          /\ Q = [ref : S, at : 1 .. l + 1] /\ R = [ref : S \cup {n}, at : 1 .. l + 1]
          /\ q \in Seq(Q) /\ z = [ref |-> n, at |-> 1]
  <2>1. Len(order) \in Nat /\ q \in Seq([ref : S, at : 1 .. Len(order) + 1])
    BY DEF Walk, Asked
  <2> QED BY <2>1, Items
<1>2. z \in R /\ z.ref = n /\ z.at = 1
  BY <1>1
<1>3. \A i \in 1 .. d : q[i] \in Q /\ q[i] \in R /\ q[i].ref \in S /\ q[i].ref # n
  <2>1. \A i \in 1 .. d : q[i] \in Q
    BY <1>1, Items
  <2> QED BY <1>1, <2>1
<1>0. /\ Len(p) = d + 1 /\ DOMAIN p = 1 .. d + 1 /\ p[d + 1] = z /\ \A i \in 1 .. d : p[i] = q[i]
      /\ p = [i \in 1 .. d + 1 |-> IF i = d + 1 THEN z ELSE q[i]]
  <2>1. p = Append(q, z)
    BY <1>1 DEF Pushed
  <2> QED BY <1>1, <2>1
<1>4. p \in Seq(R)
  <2>1. \A i \in 1 .. d + 1 : (IF i = d + 1 THEN z ELSE q[i]) \in R
    BY <1>1, <1>2, <1>3
  <2>2. p \in [1 .. d + 1 -> R]
    BY <1>0, <2>1
  <2>3. d + 1 \in Nat
    BY <1>1
  <2> QED BY <2>2, <2>3, ItemsSeq
<1>5. \A i, j \in 1 .. d + 1 : p[i].ref = p[j].ref => i = j
  <2>1. \A i, j \in 1 .. d : q[i].ref = q[j].ref => i = j
    BY <1>1 DEF Walk
  <2> QED BY <1>0, <1>1, <1>2, <1>3, <2>1
<1>10. ASSUME NEW m \in S \cup {n}, NEW j \in 1 .. l, PairDone(p, m, j) PROVE m # n /\ PairDone(q, m, j)
  <2>1. m # n
    <3>1. d + 1 \in DOMAIN p /\ p[d + 1].ref = n /\ ~ (j < p[d + 1].at)
      BY <1>0, <1>1, <1>2, <1>10
    <3> QED BY <1>10, <3>1 DEF PairDone
  <2>2. PairDone(q, m, j)
    BY <1>0, <1>1, <1>10 DEF PairDone
  <2> QED BY <2>1, <2>2
<1>6. ASSUME NEW m \in S \cup {n}, NEW j \in 1 .. l, PairDone(p, m, j)
      PROVE Kid(m, order[j]) \in S \cup {n, NullRef}
  BY <1>1, <1>6, <1>10 DEF Walk
<1>7. Walk(S \cup {n}, r, p, roots, order)
  <2>1. S \cup {n} \subseteq Old(roots) /\ r \in 1 .. Len(roots) + 1
        /\ \A i \in 1 .. r - 1 : roots[i] \in S \cup {n}
    BY DEF Walk
  <2>2. p \in Seq([ref : S \cup {n}, at : 1 .. Len(order) + 1])
    BY <1>1, <1>4
  <2>3. \A i, j \in DOMAIN p : p[i].ref = p[j].ref => i = j
    BY <1>0, <1>5
  <2>4. \A m \in S \cup {n}, j \in 1 .. Len(order) :
            PairDone(p, m, j) => Kid(m, order[j]) \in (S \cup {n}) \cup {NullRef}
    BY <1>1, <1>6
  <2> QED BY <2>1, <2>2, <2>3, <2>4, Zenon DEF Walk
<1>8. <<n, 0>> \in ToDo(S, r, q, roots, order)
  <2>1. n \in Live /\ 0 \in 0 .. l + 1
    BY <1>1, OldFacts
  <2>2. <<n, 0>> \in Work(roots, order) /\ n # NullRef
    BY <1>1, <2>1, WorkFacts
  <2> QED BY <2>2 DEF ToDo, Undone
<1>9. ASSUME NEW x \in ToDo(S \cup {n}, r, p, roots, order)
      PROVE  x \in ToDo(S, r, q, roots, order) /\ x # <<n, 0>>
  <2>1. x \in Work(roots, order) /\ (IF x[1] = NullRef THEN r <= x[2] ELSE Undone(S \cup {n}, p, x[1], x[2]))
    BY <1>9 DEF ToDo
  <2>2. n # NullRef
    BY OldFacts, NullFacts DEF Asked, GraphOK, Live
  <2>3. CASE x[1] = NullRef
    BY <2>1, <2>2, <2>3 DEF ToDo
  <2>4. CASE x[1] # NullRef
    <3>1. PICK m, j : m = x[1] /\ j = x[2] /\ m \in Live /\ j \in 0 .. l + 1 /\ x = <<m, j>>
                      /\ Undone(S \cup {n}, p, m, j)
      BY <1>1, <2>1, <2>4, WorkFacts
    <3>2. CASE m \notin S \cup {n}
      BY <2>1, <2>4, <3>1, <3>2 DEF ToDo, Undone
    <3>3. CASE m \in S \cup {n}
      <4>1. PICK i \in 1 .. d + 1 : p[i].ref = m /\ p[i].at <= j
        BY <1>0, <3>1, <3>3 DEF Undone
      <4>2. CASE i = d + 1
        <5>1. m = n /\ 1 <= j
          BY <1>0, <1>2, <4>1, <4>2
        <5> QED BY <2>1, <2>4, <3>1, <5>1 DEF ToDo, Undone
      <4>3. CASE i # d + 1
        <5>1. i \in 1 .. d /\ q[i].ref = m /\ q[i].at <= j
          BY <1>0, <1>1, <4>1, <4>3
        <5>2. Undone(S, q, m, j) /\ m # n
          BY <1>1, <1>3, <5>1 DEF Undone
        <5>3. x # <<n, 0>>
          BY <3>1, <5>2
        <5> QED BY <2>1, <2>4, <3>1, <5>2, <5>3 DEF ToDo
      <4> QED BY <4>2, <4>3
    <3> QED BY <3>2, <3>3
  <2> QED BY <2>3, <2>4
<1> QED BY <1>1, <1>7, <1>8, <1>9, <1>10 DEF Shrinks

(* A pair of the last call, whose node is null or was seen.                *)
LEMMA WalkPair ==
    ASSUME NEW roots, NEW order, Asked(roots, order), NEW S, NEW r, NEW q, Walk(S, r, q, roots, order),
           q # <<>>, q[Len(q)].at <= Len(order),
           Kid(q[Len(q)].ref, order[q[Len(q)].at]) \in S \cup {NullRef},
           NEW p, p = [q EXCEPT ![Len(q)].at = @ + 1]
    PROVE  /\ Walk(S, r, p, roots, order)
           /\ Shrinks(ToDo(S, r, q, roots, order), ToDo(S, r, p, roots, order))
           /\ Ahead(p, q, S, order)
<1>1. PICK l, d, Q : /\ l \in Nat /\ l = Len(order) /\ d \in Nat /\ d = Len(q) /\ DOMAIN q = 1 .. d
                     /\ Q = [ref : S, at : 1 .. l + 1] /\ q \in Seq(Q) /\ d > 0
                     /\ \A i \in 1 .. d : q[i] \in Q
  <2>1. Len(order) \in Nat /\ q \in Seq([ref : S, at : 1 .. Len(order) + 1])
    BY DEF Walk, Asked
  <2>2. Len(q) > 0
    BY <2>1
  <2>3. Len(q) \in Nat /\ DOMAIN q = 1 .. Len(q)
        /\ \A i \in 1 .. Len(q) : q[i] \in [ref : S, at : 1 .. Len(order) + 1]
    BY <2>1, Items
  <2> QED BY <2>1, <2>2, <2>3
<1>0. PICK n, a : /\ n = q[d].ref /\ a = q[d].at /\ n \in S /\ a \in 1 .. l
                  /\ Kid(n, order[a]) \in S \cup {NullRef} /\ q[d] = [ref |-> n, at |-> a]
  <2>1. q[d] \in Q
    BY <1>1
  <2>2. q[d].ref \in S /\ q[d].at \in 1 .. l + 1 /\ q[d] = [ref |-> q[d].ref, at |-> q[d].at]
    BY <1>1, <2>1
  <2>3. q[d].at <= l /\ Kid(q[d].ref, order[q[d].at]) \in S \cup {NullRef}
    BY <1>1
  <2>4. \A b \in 1 .. l + 1 : b <= l => b \in 1 .. l
    BY <1>1
  <2> QED BY <2>2, <2>3, <2>4
<1>2. PICK z : /\ n = q[d].ref /\ a = q[d].at /\ z = [ref |-> n, at |-> a + 1] /\ n \in S /\ a \in 1 .. l
               /\ Kid(n, order[a]) \in S \cup {NullRef} /\ q[d] = [ref |-> n, at |-> a]
  BY <1>0
<1>3. /\ DOMAIN p = 1 .. d /\ p[d] = z /\ \A i \in 1 .. d : i # d => p[i] = q[i]
      /\ p = [i \in 1 .. d |-> IF i = d THEN z ELSE q[i]]
  <2>1. [q[d] EXCEPT !.at = @ + 1] = z
    BY <1>2
  <2>2. p = [q EXCEPT ![d] = z]
    BY <1>1, <2>1
  <2>3. q = [i \in 1 .. d |-> q[i]]
    BY <1>1
  <2>4. p = [i \in 1 .. d |-> IF i = d THEN z ELSE q[i]]
    BY <1>1, <2>2, <2>3
  <2>5. d \in 1 .. d
    BY <1>1
  <2> QED BY <2>4, <2>5
<1>4. z \in Q /\ z.ref = n /\ z.at = a + 1
  BY <1>1, <1>2
<1>5. p \in Seq(Q)
  <2>1. \A i \in 1 .. d : (IF i = d THEN z ELSE q[i]) \in Q
    BY <1>1, <1>4
  <2>2. p \in [1 .. d -> Q]
    BY <1>3, <2>1
  <2> QED BY <1>1, <2>2, ItemsSeq
<1>6. \A i \in 1 .. d : p[i].ref = q[i].ref /\ q[i].at <= p[i].at
  <2>1. a <= a + 1
    BY <1>1, <1>2
  <2>2. \A i \in 1 .. d : q[i].at \in Nat /\ q[i].at <= q[i].at
    BY <1>1
  <2> QED BY <1>2, <1>3, <1>4, <2>1, <2>2
<1>7. \A i, j \in 1 .. d : q[i].ref = q[j].ref => i = j
  BY <1>1 DEF Walk
<1>13. ASSUME NEW m \in S, NEW j \in 1 .. l, PairDone(p, m, j) PROVE PairDone(q, m, j) \/ (m = n /\ j = a)
  <2>1. CASE PairDone(q, m, j)
    BY <2>1
  <2>2. CASE ~ PairDone(q, m, j)
    <3>1. PICK i \in 1 .. d : q[i].ref = m /\ ~ (j < q[i].at)
      BY <1>1, <2>2 DEF PairDone
    <3>2. j < p[i].at
      BY <1>3, <1>6, <1>13, <3>1 DEF PairDone
    <3>3. i = d
      BY <1>3, <3>1, <3>2
    <3>4. m = n /\ ~ (j < a) /\ j < a + 1
      BY <1>2, <1>3, <1>4, <3>1, <3>2, <3>3
    <3>5. j = a
      BY <1>1, <1>2, <3>4
    <3> QED BY <3>4, <3>5
  <2> QED BY <2>1, <2>2
<1>8. ASSUME NEW m \in S, NEW j \in 1 .. l, PairDone(p, m, j) PROVE Kid(m, order[j]) \in S \cup {NullRef}
  <2>1. CASE PairDone(q, m, j)
    BY <1>1, <1>8, <2>1 DEF Walk
  <2>2. CASE m = n /\ j = a
    BY <1>2, <2>2
  <2> QED BY <1>8, <1>13, <2>1, <2>2
<1>9. Walk(S, r, p, roots, order)
  <2>1. S \subseteq Old(roots) /\ r \in 1 .. Len(roots) + 1 /\ \A i \in 1 .. r - 1 : roots[i] \in S
    BY DEF Walk
  <2>2. \A i, j \in DOMAIN p : p[i].ref = p[j].ref => i = j
    BY <1>3, <1>6, <1>7
  <2> QED BY <1>1, <1>5, <1>8, <2>1, <2>2 DEF Walk
<1>10. n \in Live /\ n # NullRef /\ a \in 0 .. l + 1 /\ <<n, a>> \in Work(roots, order)
  <2>1. n \in Live
    BY <1>2, OldFacts DEF Walk
  <2>2. a \in 0 .. l + 1
    BY <1>1, <1>2
  <2> QED BY <1>1, <2>1, <2>2, WorkFacts
<1>11. <<n, a>> \in ToDo(S, r, q, roots, order)
  <2>1. a <= a /\ d \in 1 .. d
    BY <1>1, <1>2
  <2> QED BY <1>1, <1>2, <1>10, <2>1 DEF ToDo, Undone
<1>12. ASSUME NEW x \in ToDo(S, r, p, roots, order)
       PROVE  x \in ToDo(S, r, q, roots, order) /\ x # <<n, a>>
  <2>1. x \in Work(roots, order) /\ (IF x[1] = NullRef THEN r <= x[2] ELSE Undone(S, p, x[1], x[2]))
    BY <1>12 DEF ToDo
  <2>2. CASE x[1] = NullRef
    BY <1>10, <2>1, <2>2 DEF ToDo
  <2>3. CASE x[1] # NullRef
    <3>1. PICK m, j : m = x[1] /\ j = x[2] /\ m \in Live /\ j \in 0 .. l + 1 /\ x = <<m, j>>
                      /\ Undone(S, p, m, j)
      BY <1>1, <2>1, <2>3, WorkFacts
    <3>2. CASE m \notin S
      BY <1>2, <2>1, <2>3, <3>1, <3>2 DEF ToDo, Undone
    <3>3. CASE m \in S
      <4>1. PICK i \in 1 .. d : p[i].ref = m /\ p[i].at <= j
        BY <1>3, <3>1, <3>3 DEF Undone
      <4>2. q[i].ref = m /\ q[i].at <= j
        <5>1. p[i] \in Q /\ q[i] \in Q
          <6>1. p[i] = IF i = d THEN z ELSE q[i]
            BY <1>3, <4>1
          <6> QED BY <1>1, <1>4, <4>1, <6>1
        <5>2. p[i].at \in 1 .. l + 1 /\ q[i].at \in 1 .. l + 1 /\ q[i].at <= p[i].at /\ p[i].at <= j
          BY <1>1, <1>6, <4>1, <5>1
        <5>3. \A b, c \in 1 .. l + 1 : b <= c /\ c <= j => b <= j
          BY <1>1, <3>1
        <5>4. q[i].ref = m
          BY <1>6, <4>1
        <5> QED BY <5>2, <5>3, <5>4
      <4>3. Undone(S, q, m, j)
        BY <1>1, <4>1, <4>2 DEF Undone
      <4>4. ~ (m = n /\ j = a)
        <5> SUFFICES ASSUME m = n, j = a PROVE FALSE
          OBVIOUS
        <5>1. i = d
          BY <1>1, <1>2, <1>7, <4>1, <4>2
        <5>2. a + 1 <= a
          BY <1>3, <1>4, <4>1, <5>1
        <5> QED BY <1>1, <1>2, <5>2
      <4> QED BY <2>1, <2>3, <3>1, <4>3, <4>4 DEF ToDo
    <3> QED BY <3>2, <3>3
  <2> QED BY <2>2, <2>3
<1> QED BY <1>1, <1>2, <1>9, <1>11, <1>12, <1>13 DEF Shrinks, Ahead

(* The last call returns.                                                  *)
LEMMA WalkReturn ==
    ASSUME NEW roots, NEW order, Asked(roots, order), NEW S, NEW r, NEW q, Walk(S, r, q, roots, order),
           q # <<>>, ~ (q[Len(q)].at <= Len(order)), NEW p, p = SubSeq(q, 1, Len(q) - 1)
    PROVE  /\ Walk(S, r, p, roots, order)
           /\ Shrinks(ToDo(S, r, q, roots, order), ToDo(S, r, p, roots, order))
           /\ Alongside(p, q, S, order)
<1>1. PICK l, d, Q : /\ l \in Nat /\ l = Len(order) /\ d \in Nat /\ d = Len(q) /\ DOMAIN q = 1 .. d
                     /\ Q = [ref : S, at : 1 .. l + 1] /\ q \in Seq(Q) /\ d > 0 /\ d - 1 \in Nat
                     /\ d \in 1 .. d
                     /\ \A i \in 1 .. d : q[i] \in Q
  <2>1. Len(order) \in Nat /\ q \in Seq([ref : S, at : 1 .. Len(order) + 1])
    BY DEF Walk, Asked
  <2>2. Len(q) > 0 /\ Len(q) \in Nat /\ Len(q) - 1 \in Nat /\ Len(q) \in 1 .. Len(q)
    BY <2>1
  <2>3. DOMAIN q = 1 .. Len(q) /\ \A i \in 1 .. Len(q) : q[i] \in [ref : S, at : 1 .. Len(order) + 1]
    BY <2>1, Items
  <2> QED BY <2>1, <2>2, <2>3
<1>2. PICK n : n = q[d].ref /\ q[d].at = l + 1 /\ n \in S
  <2>1. q[d] \in Q
    BY <1>1
  <2>2. q[d].ref \in S /\ q[d].at \in 1 .. l + 1
    BY <1>1, <2>1
  <2> QED BY <1>1, <2>2
<1>3. p \in Seq(Q) /\ DOMAIN p = 1 .. d - 1 /\ \A i \in 1 .. d - 1 : i \in 1 .. d /\ p[i] = q[i]
  <2>1. p = [i \in 1 .. d - 1 |-> q[i]]
    BY <1>1
  <2>2. \A i \in 1 .. d - 1 : i \in 1 .. d
    BY <1>1
  <2>3. p \in [1 .. d - 1 -> Q]
    BY <1>1, <2>1, <2>2
  <2>4. p \in Seq(Q) /\ DOMAIN p = 1 .. d - 1
    BY <1>1, <2>3, ItemsSeq
  <2> QED BY <2>1, <2>2, <2>4
<1>4. \A i, j \in 1 .. d : q[i].ref = q[j].ref => i = j
  BY <1>1 DEF Walk
<1>5. ASSUME NEW m \in S, NEW j \in 1 .. l, PairDone(p, m, j) PROVE PairDone(q, m, j)
  <2>1. j < l + 1
    BY <1>1
  <2>2. \A i \in 1 .. d : i = d \/ i \in 1 .. d - 1
    BY <1>1
  <2>3. ASSUME NEW i \in 1 .. d, q[i].ref = m PROVE j < q[i].at
    <3>1. CASE i = d
      BY <1>2, <2>1, <3>1
    <3>2. CASE i \in 1 .. d - 1
      BY <1>3, <1>5, <2>3, <3>2 DEF PairDone
    <3> QED BY <2>2, <3>1, <3>2
  <2> QED BY <1>1, <2>3 DEF PairDone
<1>6. Walk(S, r, p, roots, order)
  <2>1. S \subseteq Old(roots) /\ r \in 1 .. Len(roots) + 1 /\ \A i \in 1 .. r - 1 : roots[i] \in S
    BY DEF Walk
  <2>2. ASSUME NEW i \in DOMAIN p, NEW j \in DOMAIN p, p[i].ref = p[j].ref PROVE i = j
    <3>1. i \in 1 .. d - 1 /\ j \in 1 .. d - 1
      BY <1>3
    <3>2. i \in 1 .. d /\ j \in 1 .. d /\ p[i] = q[i] /\ p[j] = q[j]
      BY <1>3, <3>1
    <3> QED BY <1>4, <2>2, <3>2
  <2>3. \A m \in S, j \in 1 .. l : PairDone(p, m, j) => Kid(m, order[j]) \in S \cup {NullRef}
    BY <1>1, <1>5 DEF Walk
  <2> QED BY <1>1, <1>3, <2>1, <2>2, <2>3 DEF Walk
<1>7. n \in Live /\ n # NullRef /\ <<n, l + 1>> \in Work(roots, order)
  <2>1. n \in Live /\ l + 1 \in 0 .. l + 1
    BY <1>1, <1>2, OldFacts DEF Walk
  <2> QED BY <1>1, <2>1, WorkFacts
<1>8. <<n, l + 1>> \in ToDo(S, r, q, roots, order)
  <2>1. l + 1 <= l + 1
    BY <1>1
  <2> QED BY <1>1, <1>2, <1>7, <2>1 DEF ToDo, Undone
<1>9. ASSUME NEW x \in ToDo(S, r, p, roots, order)
      PROVE  x \in ToDo(S, r, q, roots, order) /\ x # <<n, l + 1>>
  <2>1. x \in Work(roots, order) /\ (IF x[1] = NullRef THEN r <= x[2] ELSE Undone(S, p, x[1], x[2]))
    BY <1>9 DEF ToDo
  <2>2. CASE x[1] = NullRef
    BY <1>7, <2>1, <2>2 DEF ToDo
  <2>3. CASE x[1] # NullRef
    <3>1. PICK m, j : m = x[1] /\ j = x[2] /\ m \in Live /\ j \in 0 .. l + 1 /\ x = <<m, j>>
                      /\ Undone(S, p, m, j)
      BY <1>1, <2>1, <2>3, WorkFacts
    <3>2. CASE m \notin S
      BY <1>2, <2>1, <2>3, <3>1, <3>2 DEF ToDo, Undone
    <3>3. CASE m \in S
      <4>1. PICK i \in 1 .. d - 1 : p[i].ref = m /\ p[i].at <= j
        BY <1>3, <3>1, <3>3 DEF Undone
      <4>2. i \in 1 .. d /\ q[i].ref = m /\ q[i].at <= j /\ i # d
        BY <1>1, <1>3, <4>1
      <4>3. m # n
        BY <1>1, <1>2, <1>4, <4>2
      <4>4. Undone(S, q, m, j)
        BY <1>1, <4>2 DEF Undone
      <4>5. x # <<n, l + 1>>
        BY <3>1, <4>3
      <4> QED BY <2>1, <2>3, <3>1, <4>4, <4>5 DEF ToDo
    <3> QED BY <3>2, <3>3
  <2> QED BY <2>2, <2>3
<1> QED BY <1>1, <1>5, <1>6, <1>8, <1>9 DEF Shrinks, Alongside

(* A root that was seen.                                                   *)
LEMMA WalkRoot ==
    ASSUME NEW roots, NEW order, Asked(roots, order), NEW S, NEW r, NEW q, Walk(S, r, q, roots, order),
           ~ (r > Len(roots)), roots[r] \in S
    PROVE  /\ Walk(S, r + 1, q, roots, order)
           /\ Shrinks(ToDo(S, r, q, roots, order), ToDo(S, r + 1, q, roots, order))
<1>1. PICK c : c \in Nat /\ c = Len(roots) /\ r \in 1 .. c
  <2>1. Len(roots) \in Nat /\ r \in 1 .. Len(roots) + 1
    BY DEF Asked, Walk
  <2>2. r \in 1 .. Len(roots)
    BY <2>1
  <2> QED BY <2>1, <2>2
<1>2. /\ r + 1 \in 1 .. c + 1 /\ r <= r
      /\ \A i \in 1 .. (r + 1) - 1 : i \in 1 .. r - 1 \/ i = r
      /\ \A y \in 1 .. c : r + 1 <= y => r <= y /\ y # r
  BY <1>1
<1>3. Walk(S, r + 1, q, roots, order)
  BY <1>1, <1>2 DEF Walk
<1>4. <<NullRef, r>> \in ToDo(S, r, q, roots, order)
  BY <1>1, <1>2, WorkFacts DEF ToDo
<1>5. ASSUME NEW x \in ToDo(S, r + 1, q, roots, order)
      PROVE  x \in ToDo(S, r, q, roots, order) /\ x # <<NullRef, r>>
  <2>1. x \in Work(roots, order) /\ (IF x[1] = NullRef THEN r + 1 <= x[2] ELSE Undone(S, q, x[1], x[2]))
    BY <1>5 DEF ToDo
  <2>2. CASE x[1] = NullRef
    <3>1. x[2] \in 1 .. c /\ x = <<NullRef, x[2]>>
      BY <1>1, <2>1, <2>2, WorkFacts
    <3>2. r <= x[2] /\ x[2] # r
      BY <1>2, <2>1, <2>2, <3>1
    <3> QED BY <2>1, <2>2, <3>1, <3>2 DEF ToDo
  <2>3. CASE x[1] # NullRef
    BY <2>1, <2>3 DEF ToDo
  <2> QED BY <2>2, <2>3
<1> QED BY <1>3, <1>4, <1>5 DEF Shrinks

(* When it is finished it has seen what the roots reach.                   *)
LEMMA WalkDone ==
    ASSUME NEW roots, NEW order, Asked(roots, order), NEW S, NEW r, Walk(S, r, <<>>, roots, order),
           r > Len(roots)
    PROVE  S = Old(roots)
<1>1. PICK c : c \in Nat /\ c = Len(roots) /\ r \in 1 .. c + 1 /\ r - 1 = c
  BY DEF Asked, Walk
<1>2. S \subseteq Old(roots) /\ S \subseteq Live
  BY OldFacts DEF Walk
<1>3. \A i \in 1 .. Len(roots) : roots[i] \in S
  BY <1>1 DEF Walk
<1>4. ASSUME NEW n \in S, NEW k \in Keys PROVE Kid(n, k) \in S \cup {NullRef}
  <2>1. PICK j \in 1 .. Len(order) : order[j] = k
    BY DEF Asked
  <2>2. PairDone(<<>>, n, j)
    BY DEF PairDone
  <2> QED BY <2>1, <2>2 DEF Walk
<1> QED BY <1>2, <1>3, <1>4, OldFacts

(***************************************************************************)
(* A copy in the first recursion.                                          *)
(***************************************************************************)
First(T, m, r, q) == [to |-> T, map |-> m, fixing |-> FALSE, root |-> r, calls |-> q]

LEMMA FirstRoot ==
    ASSUME NEW T, NEW m, NEW r, NEW q, NEW s,
           NEW c, c = [to |-> T, map |-> m, fixing |-> FALSE, root |-> r, calls |-> q]
    PROVE  [c EXCEPT !.root = s] = First(T, m, s, q)
<1>1. PICK d : d = [c EXCEPT !.root = s]
  OBVIOUS
<1>2. d = [to |-> T, map |-> m, fixing |-> FALSE, root |-> s, calls |-> q]
  BY <1>1
<1> QED BY <1>1, <1>2, Zenon DEF First

LEMMA FirstCalls ==
    ASSUME NEW T, NEW m, NEW r, NEW q, NEW p,
           NEW c, c = [to |-> T, map |-> m, fixing |-> FALSE, root |-> r, calls |-> q]
    PROVE  [c EXCEPT !.calls = p] = First(T, m, r, p)
<1>1. PICK d : d = [c EXCEPT !.calls = p]
  OBVIOUS
<1>2. d = [to |-> T, map |-> m, fixing |-> FALSE, root |-> r, calls |-> p]
  BY <1>1
<1> QED BY <1>1, <1>2, Zenon DEF First

Bare == [gcsweep |-> Copying, back |-> [m \in Ref |-> 0], pairs |-> [k \in Keys |-> NullRef]]

BareGraph(l) == [node |-> [i \in 1 .. l |-> Bare], sweep |-> 0, last_id |-> l]

(* The new addresses are 1 .. l, one for each node of the map.             *)
Numbered(m, l) ==
    /\ l \in 0 .. MaxRef
    /\ DOMAIN m \subseteq Live /\ m \in [DOMAIN m -> 1 .. l]
    /\ \A n, o \in DOMAIN m : m[n] = m[o] => n = o
    /\ \A i \in 1 .. l : \E n \in DOMAIN m : m[n] = i

(* The first recursion, which has given l addresses.                       *)
Adding(l, m, r, q, roots, order) ==
    /\ Numbered(m, l)
    /\ DOMAIN m = {} \/ (roots[1] \in DOMAIN m /\ m[roots[1]] = 1)
    /\ Walk(DOMAIN m, r, q, roots, order)

LEMMA NumberedCard ==
    ASSUME NEW m, NEW l, Numbered(m, l)
    PROVE  IsFiniteSet(DOMAIN m) /\ Cardinality(DOMAIN m) = l
<1>1. l \in Nat
  BY NullFacts DEF Numbered
<1>2. PICK g : g = [i \in 1 .. l |-> CHOOSE n \in DOMAIN m : m[n] = i]
  OBVIOUS
<1>3. \A i \in 1 .. l : g[i] \in DOMAIN m /\ m[g[i]] = i
  BY <1>2 DEF Numbered
<1>4. g \in [1 .. l -> DOMAIN m]
  BY <1>2, <1>3
<1>5. \A i, j \in 1 .. l : g[i] = g[j] => i = j
  BY <1>3, Zenon
<1>6. \A n \in DOMAIN m : \E i \in 1 .. l : g[i] = n
  BY <1>3 DEF Numbered
<1>7. ExistsBijection(1 .. l, DOMAIN m)
  <2>1. g \in Injection(1 .. l, DOMAIN m)
    BY <1>4, <1>5 DEF Injection, IsInjective
  <2>2. g \in Surjection(1 .. l, DOMAIN m)
    BY <1>4, <1>6 DEF Surjection
  <2> QED BY <2>1, <2>2, Zenon DEF ExistsBijection, Bijection
<1> QED BY <1>1, <1>7, FS_NatBijection, FS_CountingElements

LEMMA NextNumber ==
    ASSUME NEW l \in Nat, l < MaxRef
    PROVE  NextRef(BareGraph(l)) = l + 1
<1>1. MaxRef \in Nat
  BY NullFacts
<1>2. /\ DOMAIN BareGraph(l).node = 1 .. l /\ BareGraph(l).last_id = l
  BY DEF BareGraph
<1>3. l + 1 \in l + 1 .. MaxRef + 1 /\ l + 1 \notin 1 .. l /\ l + 1 .. l + 1 - 1 \subseteq 1 .. l
  BY <1>1
<1>4. \A r \in l + 1 .. MaxRef + 1 : l + 1 .. r - 1 \subseteq 1 .. l => r = l + 1
  <2> SUFFICES ASSUME NEW r \in l + 1 .. MaxRef + 1, l + 1 .. r - 1 \subseteq 1 .. l, r # l + 1 PROVE FALSE
    OBVIOUS
  <2>1. l + 1 \in l + 1 .. r - 1 /\ l + 1 \notin 1 .. l
    BY <1>1
  <2> QED BY <2>1
<1> QED BY <1>2, <1>3, <1>4 DEF NextRef

LEMMA BareAllocated ==
    ASSUME NEW l \in Nat
    PROVE  Allocated(BareGraph(l), l + 1, Copying) = BareGraph(l + 1)
<1> DEFINE T == BareGraph(l)
           nodes == [n \in 1 .. l \cup {l + 1} |-> IF n = l + 1 THEN Bare ELSE [i \in 1 .. l |-> Bare][n]]
<1>1. T = [node |-> [i \in 1 .. l |-> Bare], sweep |-> 0, last_id |-> l]
  BY DEF BareGraph
<1>2. 1 .. l \cup {l + 1} = 1 .. l + 1
  OBVIOUS
<1>3. \A n \in 1 .. l + 1 : (IF n = l + 1 THEN Bare ELSE [i \in 1 .. l |-> Bare][n]) = Bare
  <2>1. \A n \in 1 .. l + 1 : n = l + 1 \/ n \in 1 .. l
    OBVIOUS
  <2> QED BY <2>1
<1>4. nodes = [i \in 1 .. l + 1 |-> Bare]
  BY <1>2, <1>3
<1>5. Allocated(T, l + 1, Copying) = [T EXCEPT !.node = nodes, !.last_id = l + 1]
  <2>1. T.node = [i \in 1 .. l |-> Bare] /\ DOMAIN T.node = 1 .. l
    BY <1>1
  <2> HIDE DEF T
  <2> QED BY <2>1 DEF Allocated, Bare
<1> HIDE DEF nodes
<1>6. [T EXCEPT !.node = nodes] = [node |-> nodes, sweep |-> 0, last_id |-> l]
  BY <1>1
<1>7. PICK h : h = [node |-> nodes, sweep |-> 0, last_id |-> l] /\ h = [T EXCEPT !.node = nodes]
  BY <1>6
<1>8. [T EXCEPT !.node = nodes, !.last_id = l + 1] = [node |-> nodes, sweep |-> 0, last_id |-> l + 1]
  <2>1. [h EXCEPT !.last_id = l + 1] = [node |-> nodes, sweep |-> 0, last_id |-> l + 1]
    BY <1>7
  <2>2. [T EXCEPT !.node = nodes, !.last_id = l + 1] = [h EXCEPT !.last_id = l + 1]
    BY <1>7
  <2> QED BY <2>1, <2>2
<1> QED BY <1>4, <1>5, <1>8 DEF BareGraph

LEMMA NewIsBare == NewGraph = BareGraph(0)
<1>1. 1 .. 0 = {}
  OBVIOUS
<1>2. [n \in {} |-> NullRef] = [i \in 1 .. 0 |-> Bare]
  BY <1>1
<1> QED BY <1>2 DEF NewGraph, BareGraph

(* A node is given an address.                                             *)
Placed(m, n, i) == [x \in DOMAIN m \cup {n} |-> IF x = n THEN i ELSE m[x]]

(* There is an address left for a node that has none yet.                  *)
LEMMA NumberedMore ==
    ASSUME NEW m, NEW l, Numbered(m, l), NEW n \in Live, n \notin DOMAIN m, Live \subseteq Ref,
           NEW w, w = Placed(m, n, l + 1)
    PROVE  l < MaxRef /\ Numbered(w, l + 1)
<1>1. MaxRef \in Nat /\ l \in Nat /\ l <= MaxRef
  BY NullFacts DEF Numbered
<1>2. IsFiniteSet(DOMAIN m) /\ Cardinality(DOMAIN m) = l
  BY NumberedCard
<1>3. Cardinality(DOMAIN m \cup {n}) = l + 1
  BY <1>2, FS_AddElement
<1>4. IsFiniteSet(Ref) /\ Cardinality(Ref) = MaxRef
  <2>1. 1 \in Int /\ MaxRef \in Int /\ MaxRef - 1 + 1 = MaxRef /\ (1 > MaxRef => MaxRef = 0)
    BY <1>1
  <2> QED BY <2>1, FS_Interval DEF Ref
<1>5. Cardinality(DOMAIN m \cup {n}) <= Cardinality(Ref)
  <2>1. DOMAIN m \cup {n} \subseteq Ref
    BY DEF Numbered
  <2> QED BY <1>4, <2>1, FS_Subset
<1>6. l < MaxRef /\ l + 1 \in 0 .. MaxRef
  BY <1>1, <1>3, <1>4, <1>5
<1>7. DOMAIN w = DOMAIN m \cup {n} /\ w[n] = l + 1 /\ \A x \in DOMAIN m : w[x] = m[x]
  BY DEF Placed
<1>8. \A x \in DOMAIN m : m[x] \in 1 .. l
  BY DEF Numbered
<1>9. \A i \in 1 .. l : i \in 1 .. l + 1 /\ i # l + 1
  BY <1>1
<1>10. l + 1 \in 1 .. l + 1 /\ \A i \in 1 .. l + 1 : i \in 1 .. l \/ i = l + 1
  BY <1>1
<1>11. w \in [DOMAIN w -> 1 .. l + 1]
  <2>1. \A x \in DOMAIN m \cup {n} : (IF x = n THEN l + 1 ELSE m[x]) \in 1 .. l + 1
    BY <1>8, <1>9, <1>10
  <2> QED BY <2>1 DEF Placed
<1>12. \A x, y \in DOMAIN w : w[x] = w[y] => x = y
  BY <1>7, <1>8, <1>9 DEF Numbered
<1>13. \A i \in 1 .. l + 1 : \E x \in DOMAIN w : w[x] = i
  BY <1>7, <1>10 DEF Numbered
<1>14. DOMAIN w \subseteq Live
  BY <1>7 DEF Numbered
<1> QED BY <1>6, <1>11, <1>12, <1>13, <1>14 DEF Numbered

(***************************************************************************)
(* A call of the first recursion.                                          *)
(***************************************************************************)
LEMMA MadeParts ==
    ASSUME NEW T, NEW m, NEW r, NEW q, NEW n, NEW i, i = NextRef(T)
    PROVE  Called(First(T, m, r, q), n) =
           First(Allocated(T, i, Copying), Placed(m, n, i), r, Pushed(q, n))
<1>1. PICK c, U, w, p : /\ c = First(T, m, r, q) /\ U = Allocated(T, i, Copying)
                        /\ w = Placed(m, n, i) /\ p = Pushed(q, n)
  OBVIOUS
<1>2. c.to = T /\ c.map = m /\ c.fixing = FALSE /\ c.calls = q /\ c.root = r
  BY <1>1 DEF First
<1>3. c = [to |-> T, map |-> m, fixing |-> FALSE, root |-> r, calls |-> q]
  BY <1>1 DEF First
<1>4. Made(c, n) = [c EXCEPT !.to = U, !.map = w]
  BY <1>1, <1>2 DEF Made, Placed
<1>5. Made(c, n) = [to |-> U, map |-> w, fixing |-> FALSE, root |-> r, calls |-> q]
  <2>1. PICK d : d = [c EXCEPT !.to = U]
    OBVIOUS
  <2>2. d = [to |-> U, map |-> m, fixing |-> FALSE, root |-> r, calls |-> q]
    BY <1>3, <2>1
  <2>3. Made(c, n) = [d EXCEPT !.map = w]
    BY <1>4, <2>1
  <2> QED BY <2>2, <2>3
<1>6. PICK d : d = Made(c, n)
  OBVIOUS
<1>7. Called(c, n) = [d EXCEPT !.calls = Append(@, [ref |-> n, at |-> 1])]
  BY <1>2, <1>6 DEF Called
<1>8. Called(c, n) = [to |-> U, map |-> w, fixing |-> FALSE, root |-> r, calls |-> p]
  <2>1. d = [to |-> U, map |-> w, fixing |-> FALSE, root |-> r, calls |-> q] /\ d.calls = q
    BY <1>5, <1>6
  <2>2. Called(c, n) = [d EXCEPT !.calls = p]
    BY <1>1, <1>7, <2>1 DEF Pushed
  <2> QED BY <2>1, <2>2
<1> QED BY <1>1, <1>8 DEF First

(* The nodes whose pairs are filled in.                                    *)
Filled(nodes, m) == {n \in DOMAIN m : nodes[m[n]].gcsweep # Copying}

(* S is what c has seen so far.                                            *)
HasSeen(c, S, roots) ==
    \/ ~ c.fixing /\ S = DOMAIN c.map
    \/ c.fixing /\ S = Filled(c.to.node, c.map) /\ DOMAIN c.map = Old(roots)

(* What a step of either recursion does.                                   *)
Pause(c, q, r, roots, order) ==
    q = <<>> /\ r > Len(roots) /\ Finished(c, roots) /\ Step(c, roots, order) = c
Call1(c, q, r, n, roots, order) ==
    /\ q = <<>> => (r \in 1 .. Len(roots) /\ n = roots[r])
    /\ Step(c, roots, order) = Called(c, n)
Root1(c, S, q, r, roots, order) ==
    /\ q = <<>> /\ ~ (r > Len(roots)) /\ r \in 1 .. Len(roots) /\ roots[r] \in S
    /\ Step(c, roots, order) = [RootFixed(c, roots[r]) EXCEPT !.root = @ + 1]
Return1(c, q, roots, order) ==
    /\ q # <<>> /\ ~ (q[Len(q)].at <= Len(order))
    /\ Step(c, roots, order) = [c EXCEPT !.calls = SubSeq(q, 1, Len(q) - 1)]
Pair1(c, S, q, n, a, k, v, roots, order) ==
    /\ q # <<>> /\ n = q[Len(q)].ref /\ a = q[Len(q)].at /\ a \in 1 .. Len(order)
    /\ k = order[a] /\ k \in Keys /\ v = Kid(n, k) /\ v \in S \cup {NullRef} /\ n \in S
    /\ Step(c, roots, order) = [PairFixed(c, n, k, v) EXCEPT !.calls[Len(q)].at = @ + 1]

LEMMA StepCases ==
    ASSUME NEW roots, NEW order, Asked(roots, order), NEW c, NEW S, HasSeen(c, S, roots),
           NEW r, NEW q, c.root = r, c.calls = q, Walk(S, r, q, roots, order)
    PROVE  \/ Pause(c, q, r, roots, order)
           \/ \E n \in Old(roots) \ S : Call1(c, q, r, n, roots, order)
           \/ Root1(c, S, q, r, roots, order)
           \/ Return1(c, q, roots, order)
           \/ \E n, a, k, v : Pair1(c, S, q, n, a, k, v, roots, order)
<1>1. c.root = r /\ c.calls = q
  OBVIOUS
<1>2. ASSUME NEW n \in Old(roots) PROVE Seen(c, n) <=> n \in S
  BY DEF Seen, HasSeen, Filled
<1>3. Len(roots) \in Nat /\ Len(order) \in Nat /\ r \in 1 .. Len(roots) + 1
  BY DEF Asked, Walk
<1>4. CASE q = <<>>
  <2>1. CASE r > Len(roots)
    BY <1>1, <1>4, <2>1 DEF Pause, Finished, Step
  <2>2. CASE ~ (r > Len(roots))
    <3>1. r \in 1 .. Len(roots)
      BY <1>3, <2>2
    <3>2. roots[r] \in Old(roots)
      BY <3>1, OldFacts
    <3>3. CASE roots[r] \in S
      <4>1. Seen(c, roots[r])
        BY <1>2, <3>2, <3>3
      <4>2. Step(c, roots, order) = [RootFixed(c, roots[r]) EXCEPT !.root = @ + 1]
        BY <1>1, <1>4, <2>2, <4>1 DEF Step
      <4> QED BY <1>4, <2>2, <3>1, <3>3, <4>2 DEF Root1
    <3>4. CASE roots[r] \notin S
      <4>1. ~ Seen(c, roots[r])
        BY <1>2, <3>2, <3>4
      <4>2. Step(c, roots, order) = Called(c, roots[r])
        BY <1>1, <1>4, <2>2, <4>1 DEF Step
      <4> QED BY <1>4, <3>1, <3>2, <3>4, <4>2 DEF Call1
    <3> QED BY <3>3, <3>4
  <2> QED BY <2>1, <2>2
<1>5. CASE q # <<>>
  <2>1. q[Len(q)].ref \in S /\ q[Len(q)].at \in 1 .. Len(order) + 1
    <3>1. q \in Seq([ref : S, at : 1 .. Len(order) + 1])
      BY DEF Walk
    <3>2. Len(q) \in 1 .. Len(q)
      BY <1>5, <3>1
    <3>3. q[Len(q)] \in [ref : S, at : 1 .. Len(order) + 1]
      BY <3>1, <3>2, Items
    <3> QED BY <3>3
  <2>2. PICK n, a, k, v : n = q[Len(q)].ref /\ a = q[Len(q)].at /\ k = order[a] /\ v = graph.node[n].pairs[k]
    OBVIOUS
  <2>3. CASE ~ (a <= Len(order))
    <3>1. a > Len(order)
      BY <1>3, <2>1, <2>2, <2>3
    <3>2. Step(c, roots, order) = [c EXCEPT !.calls = SubSeq(@, 1, Len(@) - 1)]
      BY <1>1, <1>5, <2>2, <3>1, Zenon DEF Step
    <3>3. [c EXCEPT !.calls = SubSeq(@, 1, Len(@) - 1)] = [c EXCEPT !.calls = SubSeq(q, 1, Len(q) - 1)]
      BY <1>1
    <3> QED BY <1>5, <2>2, <2>3, <3>2, <3>3 DEF Return1
  <2>4. CASE a <= Len(order)
    <3>1. ~ (a > Len(order)) /\ a \in 1 .. Len(order)
      BY <1>3, <2>1, <2>2, <2>4
    <3>2. n \in S /\ n \in Old(roots) /\ n \in Live /\ k \in Keys
      <4>1. n \in S /\ n \in Old(roots) /\ n \in Live
        BY <2>1, <2>2, OldFacts DEF Walk
      <4>2. k \in Keys
        BY <2>2, <3>1, Items DEF Asked
      <4> QED BY <4>1, <4>2
    <3>3. v = Kid(n, k) /\ (v # NullRef => v \in Old(roots))
      BY <2>2, <3>2, OldFacts DEF Kid
    <3>4. CASE v # NullRef /\ v \notin S
      <4>1. ~ Seen(c, v)
        BY <1>2, <3>3, <3>4
      <4>2. Step(c, roots, order) = Called(c, v)
        BY <1>1, <1>5, <2>2, <3>1, <3>4, <4>1, Zenon DEF Step
      <4> QED BY <1>5, <3>3, <3>4, <4>2 DEF Call1
    <3>5. CASE v = NullRef \/ v \in S
      <4>1. ~ (v # NullRef /\ ~ Seen(c, v))
        BY <1>2, <3>3, <3>5
      <4>2. Step(c, roots, order) = [PairFixed(c, n, k, v) EXCEPT !.calls[Len(q)].at = @ + 1]
        BY <1>1, <1>5, <2>2, <3>1, <4>1, Zenon DEF Step
      <4>3. v \in S \cup {NullRef}
        BY <3>5
      <4>4. Pair1(c, S, q, n, a, k, v, roots, order)
        BY <1>5, <2>2, <3>1, <3>2, <3>3, <4>2, <4>3, Zenon DEF Pair1
      <4> QED BY <4>4
    <3> QED BY <3>4, <3>5
  <2> QED BY <2>3, <2>4
<1> QED BY <1>4, <1>5

(***************************************************************************)
(* The first recursion.                                                    *)
(***************************************************************************)
Added(d, c, l, m, r, q, roots, order) ==
    \E l1, m1, r1, q1 :
        /\ d = First(BareGraph(l1), m1, r1, q1)
        /\ Adding(l1, m1, r1, q1, roots, order)
        /\ \/ Finished(c, roots) /\ d = c
           \/ Shrinks(ToDo(DOMAIN m, r, q, roots, order), ToDo(DOMAIN m1, r1, q1, roots, order))

LEMMA AddStep ==
    ASSUME NEW roots, NEW order, Asked(roots, order), NEW l, NEW m, NEW r, NEW q,
           Adding(l, m, r, q, roots, order), NEW c, c = First(BareGraph(l), m, r, q)
    PROVE  Added(Step(c, roots, order), c, l, m, r, q, roots, order)
<1> DEFINE S == DOMAIN m
<1>0. Walk(S, r, q, roots, order)
  BY DEF Adding
<1>2. c = [to |-> BareGraph(l), map |-> m, fixing |-> FALSE, root |-> r, calls |-> q]
  BY DEF First
<1>1. Walk(S, r, q, roots, order) /\ HasSeen(c, S, roots) /\ c.root = r /\ c.calls = q
  BY <1>0, <1>2 DEF HasSeen
<1>3. PICK d : d = Step(c, roots, order)
  OBVIOUS
<1> HIDE DEF S
<1>4. CASE Pause(c, q, r, roots, order)
  BY <1>3, <1>4 DEF Pause, Added
<1>5. CASE \E n \in Old(roots) \ S : Call1(c, q, r, n, roots, order)
  <2>1. PICK n \in Old(roots) : n \notin S /\ Call1(c, q, r, n, roots, order)
    BY <1>5
  <2>2. PICK m1 : m1 = Placed(m, n, l + 1)
    OBVIOUS
  <2>10. PICK p : p = Pushed(q, n)
    OBVIOUS
  <2>3. n \in Live /\ Live \subseteq Ref
    BY OldFacts DEF Asked, GraphOK, Live
  <2>4. l < MaxRef /\ Numbered(m1, l + 1) /\ l \in Nat
    <3>1. Numbered(m, l) /\ n \notin DOMAIN m
      BY <2>1 DEF Adding, S
    <3>2. l \in Nat
      BY <3>1, NullFacts DEF Numbered
    <3> QED BY <2>2, <2>3, <3>1, <3>2, NumberedMore
  <2>5. d = First(BareGraph(l + 1), m1, r, p)
    <3>1. l + 1 = NextRef(BareGraph(l))
      BY <2>4, NextNumber
    <3>2. Called(c, n) = First(Allocated(BareGraph(l), l + 1, Copying), m1, r, p)
      <4>1. Called(First(BareGraph(l), m, r, q), n) =
            First(Allocated(BareGraph(l), l + 1, Copying), Placed(m, n, l + 1), r, Pushed(q, n))
        BY <3>1, MadeParts
      <4> QED BY <2>2, <2>10, <4>1, Zenon
    <3> QED BY <1>3, <2>1, <2>4, <3>2, BareAllocated DEF Call1
  <2>6. DOMAIN m1 = S \cup {n} /\ m1[n] = l + 1 /\ \A x \in S : m1[x] = m[x]
    BY <2>1, <2>2 DEF S, Placed
  <2>7. Walk(S \cup {n}, r, p, roots, order)
        /\ Shrinks(ToDo(S, r, q, roots, order), ToDo(S \cup {n}, r, p, roots, order))
    <3>1. n \notin S /\ n \in Old(roots) /\ Walk(S, r, q, roots, order)
      BY <1>1, <2>1
    <3> QED BY <2>10, <3>1, WalkCall
  <2>8. roots[1] \in DOMAIN m1 /\ m1[roots[1]] = 1
    <3>1. CASE S = {}
      <4>1. l = 0
        <5>1. Numbered(m, l) /\ DOMAIN m = {}
          BY <3>1 DEF Adding, S
        <5>2. ~ (1 \in 1 .. l)
          BY <5>1 DEF Numbered
        <5> QED BY <2>4, <5>2
      <4>2. r = 1
        <5>1. r \in 1 .. Len(roots) + 1 /\ (\A i \in 1 .. r - 1 : roots[i] \in S) /\ Len(roots) \in Nat
          BY <1>1 DEF Walk, Asked
        <5>2. ~ (1 \in 1 .. r - 1)
          BY <3>1, <5>1
        <5> QED BY <5>1, <5>2
      <4>3. q = <<>>
        <5>1. q \in Seq([ref : S, at : 1 .. Len(order) + 1])
          BY <1>1 DEF Walk
        <5>2. ~ (1 \in 1 .. Len(q))
          <6> SUFFICES ASSUME 1 \in 1 .. Len(q) PROVE FALSE
            OBVIOUS
          <6>1. q[1] \in [ref : S, at : 1 .. Len(order) + 1]
            BY <5>1, Items
          <6>2. q[1].ref \in S
            BY <6>1
          <6> QED BY <3>1, <6>2
        <5> QED BY <5>1, <5>2
      <4>4. n = roots[1]
        BY <2>1, <4>2, <4>3 DEF Call1
      <4> QED BY <2>6, <4>1, <4>4
    <3>2. CASE S # {}
      BY <2>6, <3>2 DEF Adding, S
    <3> QED BY <3>1, <3>2
  <2>9. Adding(l + 1, m1, r, p, roots, order)
    BY <2>4, <2>6, <2>7, <2>8 DEF Adding
  <2> QED BY <1>3, <2>5, <2>6, <2>7, <2>9 DEF Added, S
<1>6. CASE Root1(c, S, q, r, roots, order)
  <2>1. Step(c, roots, order) = [c EXCEPT !.root = @ + 1]
    BY <1>2, <1>6 DEF Root1, RootFixed
  <2>2. d = First(BareGraph(l), m, r + 1, q)
    <3>1. d = [c EXCEPT !.root = r + 1]
      BY <1>1, <1>3, <2>1
    <3> QED BY <3>1, <1>2, FirstRoot
  <2>3. Walk(S, r + 1, q, roots, order)
        /\ Shrinks(ToDo(S, r, q, roots, order), ToDo(S, r + 1, q, roots, order))
    BY <1>1, <1>6, WalkRoot DEF Root1
  <2>4. Adding(l, m, r + 1, q, roots, order)
    BY <2>3 DEF Adding, S
  <2> QED BY <1>3, <2>2, <2>3, <2>4 DEF Added, S
<1>7. CASE Return1(c, q, roots, order)
  <2>1. PICK p : p = SubSeq(q, 1, Len(q) - 1)
    OBVIOUS
  <2>2. d = First(BareGraph(l), m, r, p)
    <3>1. d = [c EXCEPT !.calls = p]
      BY <1>3, <1>7, <2>1 DEF Return1
    <3> QED BY <3>1, <1>2, FirstCalls
  <2>3. Walk(S, r, p, roots, order) /\ Shrinks(ToDo(S, r, q, roots, order), ToDo(S, r, p, roots, order))
    BY <1>1, <1>7, <2>1, WalkReturn DEF Return1
  <2>4. Adding(l, m, r, p, roots, order)
    BY <2>3 DEF Adding, S
  <2> QED BY <1>3, <2>2, <2>3, <2>4 DEF Added, S
<1>8. ASSUME NEW n, NEW a, NEW k, NEW v, Pair1(c, S, q, n, a, k, v, roots, order)
      PROVE  Added(d, c, l, m, r, q, roots, order)
  <2>1. PICK p : p = [q EXCEPT ![Len(q)].at = @ + 1]
    OBVIOUS
  <2>2. d = First(BareGraph(l), m, r, p)
    <3>1. c.fixing = FALSE /\ c.calls = q
      BY <1>2
    <3>2. PairFixed(c, n, k, v) = c
      BY <3>1 DEF PairFixed
    <3>3. d = [c EXCEPT !.calls[Len(q)].at = @ + 1]
      BY <1>3, <1>8, <3>2 DEF Pair1
    <3>4. d = [c EXCEPT !.calls = p]
      BY <2>1, <3>1, <3>3
    <3> QED BY <3>4, <1>2, FirstCalls
  <2>3. Walk(S, r, p, roots, order) /\ Shrinks(ToDo(S, r, q, roots, order), ToDo(S, r, p, roots, order))
    <3>1. q # <<>> /\ q[Len(q)].at <= Len(order)
          /\ Kid(q[Len(q)].ref, order[q[Len(q)].at]) \in S \cup {NullRef}
      <4>1. Len(order) \in Nat
        BY DEF Asked
      <4>2. \A b \in 1 .. Len(order) : b <= Len(order)
        BY <4>1
      <4> QED BY <1>8, <4>2 DEF Pair1
    <3> QED BY <1>1, <2>1, <3>1, WalkPair
  <2>4. Adding(l, m, r, p, roots, order)
    BY <2>3 DEF Adding, S
  <2> QED BY <1>3, <2>2, <2>3, <2>4 DEF Added, S
<1> QED
  <2>1. \/ Pause(c, q, r, roots, order)
        \/ \E n \in Old(roots) \ S : Call1(c, q, r, n, roots, order)
        \/ Root1(c, S, q, r, roots, order)
        \/ Return1(c, q, roots, order)
        \/ \E n, a, k, v : Pair1(c, S, q, n, a, k, v, roots, order)
    BY <1>1, StepCases
  <2> QED BY <1>3, <1>4, <1>5, <1>6, <1>7, <1>8, <2>1

(***************************************************************************)
(* A recursion comes to its end within the steps that it is bound by: each *)
(* step leaves less to do.                                                 *)
(***************************************************************************)
Goes(c, X, D, roots, order) ==
    /\ Step(c, roots, order) \in X
    /\ \/ Finished(c, roots) /\ Step(c, roots, order) = c
       \/ Shrinks(D[c], D[Step(c, roots, order)])

After(start, roots, order) ==
    CHOOSE f : f = [i \in 0 .. Cardinality(Work(roots, order)) |->
                        IF i = 0 THEN start ELSE Step(f[i - 1], roots, order)]

LEMMA RanEnds ==
    ASSUME NEW roots, NEW order, Asked(roots, order), NEW X, NEW D,
           \A c \in X : D[c] \subseteq Work(roots, order),
           \A c \in X : Goes(c, X, D, roots, order), NEW start \in X
    PROVE  Ran(start, roots, order) \in X /\ Finished(Ran(start, roots, order), roots)
<1>1. PICK steps : steps = Cardinality(Work(roots, order)) /\ steps \in Nat
  BY WorkFacts, FS_CardinalityType
<1> DEFINE I == 0 .. steps
           F == [i \in I |-> [c \in X |-> Step(c, roots, order)]]
<1>2. \A c \in X : Step(c, roots, order) \in X
  BY DEF Goes
<1>3. F \in [I -> [X -> X]]
  BY <1>2
<1>4. Store!Downward(I)
  BY <1>1 DEF Store!Downward
<1>5. \A i \in I, c \in X : F[i][c] = Step(c, roots, order)
  OBVIOUS
<1> HIDE DEF F
<1>6. PICK f \in [I -> X] : Store!Loop(f, I, start, F)
  BY <1>3, <1>4, Store!LoopExists
<1>7. \A i \in I : i # 0 => i - 1 \in I
  BY <1>1
<1>8. f = [i \in I |-> IF i = 0 THEN start ELSE Step(f[i - 1], roots, order)]
  BY <1>5, <1>6, <1>7 DEF Store!Loop
<1>9. PICK g : g = After(start, roots, order)
  OBVIOUS
<1>10. g = [i \in I |-> IF i = 0 THEN start ELSE Step(g[i - 1], roots, order)]
  BY <1>1, <1>8, <1>9, Zenon DEF After
<1>11. Ran(start, roots, order) = g[steps]
  BY <1>1, <1>9, Zenon DEF Ran, After
<1> DEFINE Left(i) == Cardinality(D[g[i]])
           Good == {i \in Nat : i \in I => /\ g[i] \in X
                                           /\ Finished(g[i], roots) \/ Left(i) <= steps - i}
<1>12. \A c \in X : IsFiniteSet(D[c]) /\ Cardinality(D[c]) \in Nat /\ Cardinality(D[c]) <= steps
  <2>1. IsFiniteSet(Work(roots, order))
    BY WorkFacts
  <2> QED BY <1>1, <2>1, FS_Subset, FS_CardinalityType
<1>13. 0 \in Good
  <2>1. 0 \in I
    BY <1>1
  <2>2. g[0] = start
    BY <1>10, <2>1
  <2>3. Cardinality(D[g[0]]) <= steps /\ steps - 0 = steps
    BY <1>1, <1>12, <2>2
  <2> QED BY <2>2, <2>3
<1>14. ASSUME NEW i \in Nat, i \in Good PROVE i + 1 \in Good
  <2> SUFFICES ASSUME i + 1 \in I
               PROVE  g[i + 1] \in X /\ (Finished(g[i + 1], roots) \/ Left(i + 1) <= steps - (i + 1))
    OBVIOUS
  <2>1. i \in I /\ i + 1 # 0 /\ i + 1 - 1 = i
    BY <1>1
  <2>2. g[i + 1] = Step(g[i], roots, order)
    BY <1>10, <2>1
  <2>3. g[i] \in X /\ (Finished(g[i], roots) \/ Left(i) <= steps - i)
    BY <1>14, <2>1
  <2>4. Goes(g[i], X, D, roots, order)
    BY <2>3
  <2>5. g[i + 1] \in X
    BY <2>2, <2>4 DEF Goes
  <2>6. CASE Finished(g[i], roots)
    <3>1. Step(g[i], roots, order) = g[i]
      BY <2>6 DEF Finished, Step
    <3> QED BY <2>2, <2>5, <2>6, <3>1
  <2>7. CASE Shrinks(D[g[i]], D[g[i + 1]]) /\ ~ Finished(g[i], roots)
    <3>1. PICK x \in D[g[i]] : D[g[i + 1]] \subseteq D[g[i]] \ {x}
      BY <2>7 DEF Shrinks
    <3>2. IsFiniteSet(D[g[i]]) /\ Left(i) \in Nat /\ Left(i + 1) \in Nat
      BY <1>12, <2>3, <2>5
    <3>3. Cardinality(D[g[i]] \ {x}) = Left(i) - 1 /\ IsFiniteSet(D[g[i]] \ {x})
      BY <3>1, <3>2, FS_RemoveElement
    <3>4. Left(i + 1) <= Left(i) - 1
      BY <3>1, <3>3, FS_Subset
    <3>5. Left(i) <= steps - i
      BY <2>3, <2>7
    <3>6. Left(i + 1) <= steps - (i + 1)
      <4> HIDE DEF Left
      <4> QED BY <1>1, <3>2, <3>4, <3>5
    <3> QED BY <2>5, <3>6
  <2> QED BY <2>2, <2>4, <2>6, <2>7 DEF Goes
<1>15. steps \in Good
  <2> HIDE DEF Good
  <2> QED BY <1>1, <1>13, <1>14, Store!SetInduction
<1>16. steps \in I /\ steps - steps = 0
  BY <1>1
<1>17. g[steps] \in X /\ (Finished(g[steps], roots) \/ Left(steps) <= 0)
  BY <1>15, <1>16
<1>18. ASSUME ~ Finished(g[steps], roots) PROVE FALSE
  <2>1. PICK x \in D[g[steps]] : TRUE
    BY <1>17, <1>18 DEF Goes, Shrinks
  <2>2. IsFiniteSet(D[g[steps]]) /\ Left(steps) \in Nat /\ Left(steps) <= 0
    BY <1>12, <1>17, <1>18
  <2>3. Left(steps) = 0
    <3> HIDE DEF Left
    <3> QED BY <2>2
  <2> QED BY <2>1, <2>2, <2>3, FS_EmptySet
<1> QED BY <1>11, <1>17, <1>18

(***************************************************************************)
(* The first recursion gives an address to each node the roots reach.      *)
(***************************************************************************)
Maps == UNION {[S -> Ref] : S \in SUBSET Live}

Stacks(order) == Seq([ref : Live, at : 1 .. Len(order) + 1])

Firsts(roots, order) ==
    {First(BareGraph(l), m, r, q) :
        l \in 0 .. MaxRef, m \in Maps, r \in 1 .. Len(roots) + 1, q \in Stacks(order)}

FirstStates(roots, order) ==
    {c \in Firsts(roots, order) :
        \E l, m, r, q : c = First(BareGraph(l), m, r, q) /\ Adding(l, m, r, q, roots, order)}

LEMMA NumberedType ==
    ASSUME NEW m, NEW l, Numbered(m, l)
    PROVE  l \in 0 .. MaxRef /\ m \in Maps /\ \A n \in DOMAIN m : m[n] \in Ref
<1>1. l \in 0 .. MaxRef /\ MaxRef \in Nat /\ DOMAIN m \subseteq Live /\ m \in [DOMAIN m -> 1 .. l]
  BY NullFacts DEF Numbered
<1>2. 1 .. l \subseteq Ref
  BY <1>1 DEF Ref
<1>3. m \in [DOMAIN m -> Ref]
  BY <1>1, <1>2
<1> QED BY <1>1, <1>3 DEF Maps

LEMMA WalkType ==
    ASSUME NEW roots, NEW order, Asked(roots, order), NEW S, NEW r, NEW q, Walk(S, r, q, roots, order)
    PROVE  r \in 1 .. Len(roots) + 1 /\ q \in Stacks(order)
<1>1. S \subseteq Live /\ q \in Seq([ref : S, at : 1 .. Len(order) + 1]) /\ r \in 1 .. Len(roots) + 1
  BY OldFacts DEF Walk
<1>2. \A i \in 1 .. Len(q) : q[i] \in [ref : Live, at : 1 .. Len(order) + 1]
  <2>1. \A i \in 1 .. Len(q) : q[i] \in [ref : S, at : 1 .. Len(order) + 1]
    BY <1>1, Items
  <2> QED BY <1>1, <2>1
<1>3. q \in [1 .. Len(q) -> [ref : Live, at : 1 .. Len(order) + 1]] /\ Len(q) \in Nat
  <2>1. q = [i \in 1 .. Len(q) |-> q[i]] /\ Len(q) \in Nat
    BY <1>1
  <2> QED BY <1>2, <2>1
<1> QED BY <1>1, <1>3, ItemsSeq DEF Stacks

LEMMA FirstState ==
    ASSUME NEW roots, NEW order, Asked(roots, order),
           NEW l, NEW m, NEW r, NEW q, Adding(l, m, r, q, roots, order)
    PROVE  First(BareGraph(l), m, r, q) \in FirstStates(roots, order)
<1>1. l \in 0 .. MaxRef /\ m \in Maps /\ r \in 1 .. Len(roots) + 1 /\ q \in Stacks(order)
  BY NumberedType, WalkType DEF Adding
<1>2. PICK c : c = First(BareGraph(l), m, r, q)
  OBVIOUS
<1>3. c \in Firsts(roots, order)
  BY <1>1, <1>2 DEF Firsts
<1>4. \E l1, m1, r1, q1 : c = First(BareGraph(l1), m1, r1, q1) /\ Adding(l1, m1, r1, q1, roots, order)
  BY <1>2
<1>5. c \in FirstStates(roots, order)
  BY <1>3, <1>4 DEF FirstStates
<1> QED BY <1>2, <1>5

LEMMA FirstRun ==
    ASSUME NEW roots, NEW order, Asked(roots, order)
    PROVE  \E l, m, r : /\ Ran(Start, roots, order) = First(BareGraph(l), m, r, <<>>)
                        /\ Adding(l, m, r, <<>>, roots, order)
                        /\ DOMAIN m = Old(roots)
<1> DEFINE X == FirstStates(roots, order)
           D == [c \in X |-> ToDo(DOMAIN c.map, c.root, c.calls, roots, order)]
<1>1. ASSUME NEW c \in X PROVE \E l, m, r, q : /\ c = First(BareGraph(l), m, r, q)
                                               /\ Adding(l, m, r, q, roots, order)
                                               /\ D[c] = ToDo(DOMAIN m, r, q, roots, order)
  <2>1. PICK l, m, r, q : c = First(BareGraph(l), m, r, q) /\ Adding(l, m, r, q, roots, order)
    BY DEF FirstStates
  <2>2. c.map = m /\ c.root = r /\ c.calls = q
    BY <2>1 DEF First
  <2> QED BY <2>1, <2>2
<1>2. \A c \in X : D[c] \subseteq Work(roots, order)
  BY DEF ToDo
<1> HIDE DEF X, D
<1>3. ASSUME NEW c \in X PROVE Goes(c, X, D, roots, order)
  <2>1. PICK l, m, r, q : /\ c = First(BareGraph(l), m, r, q) /\ Adding(l, m, r, q, roots, order)
                          /\ D[c] = ToDo(DOMAIN m, r, q, roots, order)
    BY <1>1
  <2>2. PICK d : d = Step(c, roots, order)
    OBVIOUS
  <2>3. Added(d, c, l, m, r, q, roots, order)
    BY <2>1, <2>2, AddStep
  <2>4. PICK l1, m1, r1, q1 : /\ d = First(BareGraph(l1), m1, r1, q1)
                              /\ Adding(l1, m1, r1, q1, roots, order)
                              /\ \/ Finished(c, roots) /\ d = c
                                 \/ Shrinks(ToDo(DOMAIN m, r, q, roots, order),
                                            ToDo(DOMAIN m1, r1, q1, roots, order))
    BY <2>3 DEF Added
  <2>5. d \in X
    BY <2>4, FirstState DEF X
  <2>6. D[d] = ToDo(DOMAIN m1, r1, q1, roots, order)
    <3>1. d.map = m1 /\ d.root = r1 /\ d.calls = q1
      BY <2>4 DEF First
    <3> QED BY <2>5, <3>1 DEF D
  <2> QED BY <2>1, <2>2, <2>4, <2>5, <2>6 DEF Goes
<1>4. Start \in X
  <2>1. PICK m : m = [n \in {} |-> NullRef]
    OBVIOUS
  <2>2. Start = First(BareGraph(0), m, 1, <<>>)
    BY <2>1, NewIsBare, Zenon DEF Start, First
  <2>3. Numbered(m, 0)
    BY <2>1, NullFacts DEF Numbered
  <2>4. Walk({}, 1, <<>>, roots, order)
    <3>1. Len(roots) \in Nat
      BY DEF Asked
    <3>2. 1 \in 1 .. Len(roots) + 1 /\ ~ \E i : i \in 1 .. 1 - 1
      BY <3>1
    <3> QED BY <3>2 DEF Walk
  <2>5. Adding(0, m, 1, <<>>, roots, order)
    <3>1. DOMAIN m = {}
      BY <2>1
    <3> QED BY <2>3, <2>4, <3>1 DEF Adding
  <2> QED BY <2>2, <2>5, FirstState DEF X
<1>5. PICK c \in X : c = Ran(Start, roots, order) /\ Finished(c, roots)
  BY <1>2, <1>3, <1>4, RanEnds
<1>6. PICK l, m, r, q : c = First(BareGraph(l), m, r, q) /\ Adding(l, m, r, q, roots, order)
  BY <1>1
<1>7. q = <<>> /\ r > Len(roots)
  <2>1. c.calls = q /\ c.root = r
    BY <1>6 DEF First
  <2> QED BY <1>5, <2>1 DEF Finished
<1>8. DOMAIN m = Old(roots)
  BY <1>6, <1>7, WalkDone DEF Adding
<1> QED BY <1>5, <1>6, <1>7, <1>8

(***************************************************************************)
(* A copy in the second recursion, with the nodes f, 1 .. l.               *)
(***************************************************************************)
NodesTo(f, l) == [node |-> f, sweep |-> 0, last_id |-> l]

Second(f, l, m, r, q) == [to |-> NodesTo(f, l), map |-> m, fixing |-> TRUE, root |-> r, calls |-> q]

IsSecond(c, f, l, m, r, q) ==
    \E T : /\ T = [node |-> f, sweep |-> 0, last_id |-> l]
           /\ c = [to |-> T, map |-> m, fixing |-> TRUE, root |-> r, calls |-> q]

LEMMA SecondIs ==
    ASSUME NEW c, NEW f, NEW l, NEW m, NEW r, NEW q
    PROVE  IsSecond(c, f, l, m, r, q) <=> c = Second(f, l, m, r, q)
BY DEF IsSecond, Second, NodesTo

LEMMA SecondParts ==
    ASSUME NEW f, NEW l, NEW m, NEW r, NEW q, NEW c, IsSecond(c, f, l, m, r, q)
    PROVE  c.to.node = f /\ c.map = m /\ c.fixing /\ c.root = r /\ c.calls = q
BY DEF IsSecond

LEMMA SecondRoot ==
    ASSUME NEW f, NEW l, NEW m, NEW r, NEW q, NEW c, IsSecond(c, f, l, m, r, q), NEW s
    PROVE  IsSecond([c EXCEPT !.root = s], f, l, m, s, q)
<1>1. PICK T : /\ T = [node |-> f, sweep |-> 0, last_id |-> l]
               /\ c = [to |-> T, map |-> m, fixing |-> TRUE, root |-> r, calls |-> q]
  BY DEF IsSecond
<1>2. PICK d : d = [c EXCEPT !.root = s]
  OBVIOUS
<1>3. d = [to |-> T, map |-> m, fixing |-> TRUE, root |-> s, calls |-> q]
  BY <1>1, <1>2
<1> QED BY <1>1, <1>2, <1>3, Zenon DEF IsSecond

LEMMA SecondCalls ==
    ASSUME NEW f, NEW l, NEW m, NEW r, NEW q, NEW c, IsSecond(c, f, l, m, r, q), NEW p
    PROVE  IsSecond([c EXCEPT !.calls = p], f, l, m, r, p)
<1>1. PICK T : /\ T = [node |-> f, sweep |-> 0, last_id |-> l]
               /\ c = [to |-> T, map |-> m, fixing |-> TRUE, root |-> r, calls |-> q]
  BY DEF IsSecond
<1>2. PICK d : d = [c EXCEPT !.calls = p]
  OBVIOUS
<1>3. d = [to |-> T, map |-> m, fixing |-> TRUE, root |-> r, calls |-> p]
  BY <1>1, <1>2
<1> QED BY <1>1, <1>2, <1>3, Zenon DEF IsSecond

LEMMA SecondSweep ==
    ASSUME NEW f, NEW l, NEW m, NEW r, NEW q, NEW c, IsSecond(c, f, l, m, r, q), NEW i, NEW v
    PROVE  IsSecond([c EXCEPT !.to.node[i].gcsweep = v],
                    [f EXCEPT ![i] = [f[i] EXCEPT !.gcsweep = v]], l, m, r, q)
<1>1. PICK T : /\ T = [node |-> f, sweep |-> 0, last_id |-> l]
               /\ c = [to |-> T, map |-> m, fixing |-> TRUE, root |-> r, calls |-> q]
  BY DEF IsSecond
<1>2. PICK g : g = [f EXCEPT ![i] = [f[i] EXCEPT !.gcsweep = v]]
  OBVIOUS
<1>3. PICK U : U = [T EXCEPT !.node = g]
  OBVIOUS
<1>4. U = [node |-> g, sweep |-> 0, last_id |-> l]
  BY <1>1, <1>3
<1>5. PICK d : d = [c EXCEPT !.to = U]
  OBVIOUS
<1>6. d = [to |-> U, map |-> m, fixing |-> TRUE, root |-> r, calls |-> q]
  BY <1>1, <1>5
<1>7. c.to = T /\ T.node = f
  BY <1>1
<1>8. d = [c EXCEPT !.to.node[i].gcsweep = v]
  BY <1>2, <1>3, <1>5, <1>7
<1> QED BY <1>2, <1>4, <1>6, <1>8, Zenon DEF IsSecond

LEMMA SecondBack ==
    ASSUME NEW f, NEW l, NEW m, NEW r, NEW q, NEW c, IsSecond(c, f, l, m, r, q), NEW i, NEW v
    PROVE  IsSecond([c EXCEPT !.to.node[i].back = v],
                    [f EXCEPT ![i] = [f[i] EXCEPT !.back = v]], l, m, r, q)
<1>1. PICK T : /\ T = [node |-> f, sweep |-> 0, last_id |-> l]
               /\ c = [to |-> T, map |-> m, fixing |-> TRUE, root |-> r, calls |-> q]
  BY DEF IsSecond
<1>2. PICK g : g = [f EXCEPT ![i] = [f[i] EXCEPT !.back = v]]
  OBVIOUS
<1>3. PICK U : U = [T EXCEPT !.node = g]
  OBVIOUS
<1>4. U = [node |-> g, sweep |-> 0, last_id |-> l]
  BY <1>1, <1>3
<1>5. PICK d : d = [c EXCEPT !.to = U]
  OBVIOUS
<1>6. d = [to |-> U, map |-> m, fixing |-> TRUE, root |-> r, calls |-> q]
  BY <1>1, <1>5
<1>7. c.to = T /\ T.node = f
  BY <1>1
<1>8. d = [c EXCEPT !.to.node[i].back = v]
  BY <1>2, <1>3, <1>5, <1>7
<1> QED BY <1>2, <1>4, <1>6, <1>8, Zenon DEF IsSecond

LEMMA SecondPair ==
    ASSUME NEW f, NEW l, NEW m, NEW r, NEW q, NEW c, IsSecond(c, f, l, m, r, q), NEW i, NEW k, NEW v
    PROVE  IsSecond([c EXCEPT !.to.node[i].pairs[k] = v],
                    [f EXCEPT ![i] = [f[i] EXCEPT !.pairs[k] = v]], l, m, r, q)
<1>1. PICK T : /\ T = [node |-> f, sweep |-> 0, last_id |-> l]
               /\ c = [to |-> T, map |-> m, fixing |-> TRUE, root |-> r, calls |-> q]
  BY DEF IsSecond
<1>2. PICK g : g = [f EXCEPT ![i] = [f[i] EXCEPT !.pairs[k] = v]]
  OBVIOUS
<1>3. PICK U : U = [T EXCEPT !.node = g]
  OBVIOUS
<1>4. U = [node |-> g, sweep |-> 0, last_id |-> l]
  BY <1>1, <1>3
<1>5. PICK d : d = [c EXCEPT !.to = U]
  OBVIOUS
<1>6. d = [to |-> U, map |-> m, fixing |-> TRUE, root |-> r, calls |-> q]
  BY <1>1, <1>5
<1>7. c.to = T /\ T.node = f
  BY <1>1
<1>8. d = [c EXCEPT !.to.node[i].pairs[k] = v]
  BY <1>2, <1>3, <1>5, <1>7
<1> QED BY <1>2, <1>4, <1>6, <1>8, Zenon DEF IsSecond

NewNode == [gcsweep : {Copying, -1, 0}, back : [Ref -> Nat], pairs : [Keys -> Ref \cup {NullRef}]]

(* x is what is made of n, as far as that has come.                        *)
NodeFixed(x, m, n, r, q, roots, order) ==
    /\ x.gcsweep # Copying => x.back = Back(m, n)
    /\ x.gcsweep # Copying => x.gcsweep = IF \E i \in 1 .. r - 1 : roots[i] = n THEN -1 ELSE 0
    /\ \A k \in Keys : x.pairs[k] # NullRef => Kid(n, k) # NullRef /\ x.pairs[k] = m[Kid(n, k)]
    /\ \A j \in 1 .. Len(order) :
         x.gcsweep # Copying /\ PairDone(q, n, j) /\ Kid(n, order[j]) # NullRef
            => x.pairs[order[j]] = m[Kid(n, order[j])]

(* The second recursion.                                                   *)
Fixing(f, l, m, r, q, roots, order) ==
    /\ Numbered(m, l) /\ DOMAIN m = Old(roots) /\ m[roots[1]] = 1
    /\ f \in [1 .. l -> NewNode]
    /\ Walk(Filled(f, m), r, q, roots, order)
    /\ \A n \in DOMAIN m : NodeFixed(f[m[n]], m, n, r, q, roots, order)

LEMMA OpenedParts ==
    ASSUME NEW f, NEW l, NEW m, NEW r, NEW q, NEW c, IsSecond(c, f, l, m, r, q),
           NEW n, NEW i \in DOMAIN f, i = m[n],
           NEW x, x = [[f[i] EXCEPT !.gcsweep = 0] EXCEPT !.back = Back(m, n)]
    PROVE  IsSecond(Called(c, n), [f EXCEPT ![i] = x], l, m, r, Pushed(q, n))
<1>1. PICK g, b : g = [f EXCEPT ![i] = [f[i] EXCEPT !.gcsweep = 0]] /\ b = Back(m, n)
  OBVIOUS
<1>2. PICK c1 : c1 = [c EXCEPT !.to.node[i].gcsweep = 0]
  OBVIOUS
<1>3. IsSecond(c1, g, l, m, r, q)
  BY <1>1, <1>2, SecondSweep
<1>4. PICK c2 : c2 = [c1 EXCEPT !.to.node[i].back = b]
  OBVIOUS
<1>5. PICK h : h = [g EXCEPT ![i] = [g[i] EXCEPT !.back = b]]
  OBVIOUS
<1>6. IsSecond(c2, h, l, m, r, q)
  BY <1>3, <1>4, <1>5, SecondBack
<1>7. h = [f EXCEPT ![i] = x]
  <2>1. g[i] = [f[i] EXCEPT !.gcsweep = 0]
    BY <1>1
  <2>2. [g[i] EXCEPT !.back = b] = x
    BY <1>1, <2>1
  <2>3. h = [g EXCEPT ![i] = x]
    BY <1>5, <2>2
  <2> QED BY <1>1, <2>3
<1>8. c.map = m /\ c.fixing /\ c2.calls = q
  BY <1>6, SecondParts
<1>9. Opened(c, n) = c2
  BY <1>1, <1>2, <1>4, <1>8 DEF Opened
<1>10. Called(c, n) = [c2 EXCEPT !.calls = Pushed(q, n)]
  BY <1>8, <1>9 DEF Called, Pushed
<1> QED BY <1>6, <1>7, <1>10, SecondCalls

(* Another node in place of what is made of n.                             *)
Became(f, i, x) == [f EXCEPT ![i] = x]

Elsewhere(g, f, m, n) == \A o \in DOMAIN m : o # n => g[m[o]] = f[m[o]]

LEMMA NodePut ==
    ASSUME NEW l, NEW m, Numbered(m, l), NEW f \in [1 .. l -> NewNode], NEW n \in DOMAIN m,
           NEW x \in NewNode, NEW g, g = Became(f, m[n], x)
    PROVE  /\ g \in [1 .. l -> NewNode] /\ g[m[n]] = x
           /\ Elsewhere(g, f, m, n)
<1>1. \A o \in DOMAIN m : m[o] \in 1 .. l /\ (m[o] = m[n] => o = n)
  BY DEF Numbered
<1> QED BY <1>1 DEF Became, Elsewhere

LEMMA NodeAt ==
    ASSUME NEW l, NEW m, Numbered(m, l), NEW f \in [1 .. l -> NewNode], NEW n \in DOMAIN m
    PROVE  m[n] \in 1 .. l /\ m[n] \in DOMAIN f /\ f[m[n]] \in NewNode
<1>1. m[n] \in 1 .. l
  BY DEF Numbered
<1> QED BY <1>1

LEMMA BackNumbers ==
    ASSUME NEW roots, NEW order, Asked(roots, order), NEW m, NEW n \in Live, NEW l, Numbered(m, l)
    PROVE  Back(m, n) \in [Ref -> Nat]
<1>1. \A o \in Ref : graph.node[n].back[o] \in Nat
  <2>1. graph.node[n] \in Node
    BY GraphNode DEF Asked, Live
  <2>2. graph.node[n].back \in [Ref -> Nat]
    BY <2>1, NodeFacts
  <2> QED BY <2>2
<1>2. \A o \in DOMAIN m : o \in Ref
  BY DEF Numbered, Asked, GraphOK, Live
<1>3. ASSUME NEW i \in Ref, \E o \in DOMAIN m : m[o] = i
      PROVE  (CHOOSE o \in DOMAIN m : m[o] = i) \in Ref
  BY <1>2, <1>3
<1>4. \A i \in Ref : (IF \E o \in DOMAIN m : m[o] = i
                     THEN graph.node[n].back[CHOOSE o \in DOMAIN m : m[o] = i] ELSE 0) \in Nat
  BY <1>1, <1>3
<1> QED BY <1>4 DEF Back

(* Calls that have got less far.                                           *)
LEMMA FixedLess ==
    ASSUME NEW x, NEW m, NEW n, NEW r, NEW q, NEW p, NEW roots, NEW order,
           NodeFixed(x, m, n, r, q, roots, order),
           x.gcsweep # Copying => \A j \in 1 .. Len(order) : PairDone(p, n, j) => PairDone(q, n, j)
    PROVE  NodeFixed(x, m, n, r, p, roots, order)
BY Zenon DEF NodeFixed

Fixed(d, c, f, l, m, r, q, roots, order) ==
    \E f1, r1, q1 :
        /\ IsSecond(d, f1, l, m, r1, q1)
        /\ Fixing(f1, l, m, r1, q1, roots, order)
        /\ \/ Finished(c, roots) /\ d = c
           \/ Shrinks(ToDo(Filled(f, m), r, q, roots, order), ToDo(Filled(f1, m), r1, q1, roots, order))

LEMMA FixStep ==
    ASSUME NEW roots, NEW order, Asked(roots, order), NEW f, NEW l, NEW m, NEW r, NEW q,
           Fixing(f, l, m, r, q, roots, order), NEW c, IsSecond(c, f, l, m, r, q)
    PROVE  Fixed(Step(c, roots, order), c, f, l, m, r, q, roots, order)
<1>1. PICK S : S = Filled(f, m)
  OBVIOUS
<1>2. /\ Numbered(m, l) /\ DOMAIN m = Old(roots) /\ m[roots[1]] = 1 /\ f \in [1 .. l -> NewNode]
      /\ Walk(S, r, q, roots, order) /\ \A n \in DOMAIN m : NodeFixed(f[m[n]], m, n, r, q, roots, order)
  BY <1>1 DEF Fixing
<1>3. HasSeen(c, S, roots) /\ c.root = r /\ c.calls = q /\ c.map = m /\ c.fixing
  BY <1>1, <1>2, SecondParts DEF HasSeen
<1>4. PICK d : d = Step(c, roots, order)
  OBVIOUS
<1>5. \A n \in DOMAIN m : m[n] \in DOMAIN f /\ f[m[n]] \in NewNode /\ (n \in S <=> f[m[n]].gcsweep # Copying)
  BY <1>1, <1>2, NodeAt DEF Filled
<1>6. S \subseteq DOMAIN m
  BY <1>1 DEF Filled
<1>7. CASE Pause(c, q, r, roots, order)
  BY <1>4, <1>7 DEF Pause, Fixed
<1>8. CASE \E n \in Old(roots) \ S : Call1(c, q, r, n, roots, order)
  <2>1. PICK n \in Old(roots) : n \notin S /\ Call1(c, q, r, n, roots, order)
    BY <1>8
  <2>2. PICK y, x : y = f[m[n]] /\ x = [[y EXCEPT !.gcsweep = 0] EXCEPT !.back = Back(m, n)]
    OBVIOUS
  <2>3. PICK g : g = Became(f, m[n], x)
    OBVIOUS
  <2>4. PICK p : p = Pushed(q, n)
    OBVIOUS
  <2>5. n \in DOMAIN m /\ n \in Live /\ y \in NewNode /\ m[n] \in DOMAIN f
    BY <1>2, <1>5, <2>2, OldFacts
  <2>6. x \in NewNode /\ x.gcsweep = 0 /\ x.back = Back(m, n) /\ x.pairs = y.pairs /\ 0 # Copying
    <3>1. PICK b : b = Back(m, n) /\ b \in [Ref -> Nat]
      BY <1>2, <2>5, BackNumbers
    <3>2. y.pairs \in [Keys -> Ref \cup {NullRef}] /\ x = [gcsweep |-> 0, back |-> b, pairs |-> y.pairs]
      BY <2>2, <2>5, <3>1 DEF NewNode
    <3> QED BY <3>1, <3>2 DEF NewNode, Copying
  <2>7. g \in [1 .. l -> NewNode] /\ g[m[n]] = x /\ \A o \in DOMAIN m : o # n => g[m[o]] = f[m[o]]
    <3>1. g \in [1 .. l -> NewNode] /\ g[m[n]] = x /\ Elsewhere(g, f, m, n)
      BY <1>2, <2>3, <2>5, <2>6, NodePut
    <3> QED BY <3>1 DEF Elsewhere
  <2>8. IsSecond(d, g, l, m, r, p)
    <3>1. IsSecond(Called(c, n), g, l, m, r, p)
      BY <2>2, <2>3, <2>4, <2>5, OpenedParts DEF Became
    <3> QED BY <1>4, <2>1, <3>1 DEF Call1
  <2>9. Filled(g, m) = S \cup {n}
    BY <1>5, <1>6, <2>5, <2>6, <2>7 DEF Filled
  <2>10. /\ Walk(S \cup {n}, r, p, roots, order)
         /\ Shrinks(ToDo(S, r, q, roots, order), ToDo(S \cup {n}, r, p, roots, order))
         /\ \A o \in S \cup {n}, j \in 1 .. Len(order) : PairDone(p, o, j) => o # n /\ PairDone(q, o, j)
    BY <1>2, <2>1, <2>4, WalkCall
  <2>11. NodeFixed(x, m, n, r, p, roots, order)
    <3>1. \A i \in 1 .. r - 1 : roots[i] # n
      BY <1>2, <2>1 DEF Walk
    <3>2. \A k \in Keys : x.pairs[k] # NullRef => Kid(n, k) # NullRef /\ x.pairs[k] = m[Kid(n, k)]
      BY <1>2, <2>2, <2>5, <2>6 DEF NodeFixed
    <3>3. \A j \in 1 .. Len(order) : ~ PairDone(p, n, j)
      BY <2>10
    <3> QED BY <2>6, <3>1, <3>2, <3>3 DEF NodeFixed
  <2>12. ASSUME NEW o \in DOMAIN m, o # n PROVE NodeFixed(g[m[o]], m, o, r, p, roots, order)
    <3>1. g[m[o]] = f[m[o]] /\ NodeFixed(f[m[o]], m, o, r, q, roots, order)
      BY <1>2, <2>7, <2>12
    <3>2. f[m[o]].gcsweep # Copying => \A j \in 1 .. Len(order) : PairDone(p, o, j) => PairDone(q, o, j)
      BY <1>5, <2>10
    <3> QED BY <3>1, <3>2, FixedLess
  <2>13. Fixing(g, l, m, r, p, roots, order)
    BY <1>2, <2>7, <2>9, <2>10, <2>11, <2>12 DEF Fixing
  <2> QED BY <1>1, <1>4, <2>8, <2>9, <2>10, <2>13 DEF Fixed
<1>9. CASE Root1(c, S, q, r, roots, order)
  <2>1. PICK n : n = roots[r] /\ n \in S /\ n \in DOMAIN m
    BY <1>6, <1>9 DEF Root1
  <2>2. PICK y, x : y = f[m[n]] /\ x = [y EXCEPT !.gcsweep = -1]
    OBVIOUS
  <2>3. PICK g : g = Became(f, m[n], x)
    OBVIOUS
  <2>4. x \in NewNode /\ x.gcsweep = -1 /\ x.back = y.back /\ x.pairs = y.pairs /\ -1 # Copying
    <3>1. y \in NewNode
      BY <1>5, <2>1, <2>2
    <3> QED BY <2>2, <3>1 DEF NewNode, Copying
  <2>5. g \in [1 .. l -> NewNode] /\ g[m[n]] = x /\ \A o \in DOMAIN m : o # n => g[m[o]] = f[m[o]]
    <3>1. g \in [1 .. l -> NewNode] /\ g[m[n]] = x /\ Elsewhere(g, f, m, n)
      BY <1>2, <2>1, <2>3, <2>4, NodePut
    <3> QED BY <3>1 DEF Elsewhere
  <2>6. IsSecond(d, g, l, m, r + 1, q)
    <3>1. PICK e : e = RootFixed(c, n)
      OBVIOUS
    <3>2. e = [c EXCEPT !.to.node[m[n]].gcsweep = -1]
      BY <1>3, <3>1 DEF RootFixed
    <3>3. IsSecond(e, g, l, m, r, q)
      BY <2>2, <2>3, <3>2, SecondSweep DEF Became
    <3>4. e.root = r
      BY <3>3, SecondParts
    <3>5. d = [e EXCEPT !.root = r + 1]
      BY <1>4, <1>9, <2>1, <3>1, <3>4 DEF Root1
    <3> QED BY <3>3, <3>5, SecondRoot
  <2>7. Filled(g, m) = S
    BY <1>5, <1>6, <2>1, <2>4, <2>5 DEF Filled
  <2>8. Walk(S, r + 1, q, roots, order)
        /\ Shrinks(ToDo(S, r, q, roots, order), ToDo(S, r + 1, q, roots, order))
    BY <1>2, <1>9, WalkRoot DEF Root1
  <2>9. (r + 1) - 1 = r /\ \A i : i \in 1 .. r <=> i \in 1 .. r - 1 \/ i = r
    <3>1. r \in 1 .. Len(roots) /\ Len(roots) \in Nat
      BY <1>9 DEF Root1, Asked
    <3> QED BY <3>1
  <2>10. NodeFixed(x, m, n, r + 1, q, roots, order)
    <3>1. NodeFixed(y, m, n, r, q, roots, order) /\ y.gcsweep # Copying
      BY <1>2, <1>5, <2>1, <2>2
    <3>2. \E i \in 1 .. (r + 1) - 1 : roots[i] = n
      BY <2>1, <2>9
    <3> QED BY <2>4, <3>1, <3>2 DEF NodeFixed
  <2>11. ASSUME NEW o \in DOMAIN m, o # n PROVE NodeFixed(g[m[o]], m, o, r + 1, q, roots, order)
    <3>1. g[m[o]] = f[m[o]] /\ NodeFixed(f[m[o]], m, o, r, q, roots, order)
      BY <1>2, <2>5, <2>11
    <3>2. (\E i \in 1 .. (r + 1) - 1 : roots[i] = o) <=> \E i \in 1 .. r - 1 : roots[i] = o
      BY <2>1, <2>9, <2>11
    <3> QED BY <3>1, <3>2 DEF NodeFixed
  <2>12. Fixing(g, l, m, r + 1, q, roots, order)
    BY <1>2, <2>5, <2>7, <2>8, <2>10, <2>11 DEF Fixing
  <2> QED BY <1>1, <1>4, <2>6, <2>7, <2>8, <2>12 DEF Fixed
<1>10. CASE Return1(c, q, roots, order)
  <2>1. PICK p : p = SubSeq(q, 1, Len(q) - 1)
    OBVIOUS
  <2>2. IsSecond(d, f, l, m, r, p)
    <3>1. d = [c EXCEPT !.calls = p]
      BY <1>4, <1>10, <2>1 DEF Return1
    <3> QED BY <3>1, SecondCalls
  <2>3. /\ Walk(S, r, p, roots, order)
        /\ Shrinks(ToDo(S, r, q, roots, order), ToDo(S, r, p, roots, order))
        /\ \A o \in S, j \in 1 .. Len(order) : PairDone(p, o, j) => PairDone(q, o, j)
    <3>1. q # <<>> /\ ~ (q[Len(q)].at <= Len(order)) /\ Walk(S, r, q, roots, order)
      BY <1>2, <1>10 DEF Return1
    <3>2. /\ Walk(S, r, p, roots, order)
          /\ Shrinks(ToDo(S, r, q, roots, order), ToDo(S, r, p, roots, order))
      BY <2>1, <3>1, WalkReturn
    <3>3. Alongside(p, q, S, order)
      BY <2>1, <3>1, WalkReturn
    <3> QED BY <3>2, <3>3 DEF Alongside
  <2>4. ASSUME NEW o \in DOMAIN m PROVE NodeFixed(f[m[o]], m, o, r, p, roots, order)
    <3>1. NodeFixed(f[m[o]], m, o, r, q, roots, order)
      BY <1>2
    <3>2. f[m[o]].gcsweep # Copying => \A j \in 1 .. Len(order) : PairDone(p, o, j) => PairDone(q, o, j)
      BY <1>5, <2>3
    <3> QED BY <3>1, <3>2, FixedLess
  <2>5. Fixing(f, l, m, r, p, roots, order)
    BY <1>1, <1>2, <2>3, <2>4 DEF Fixing
  <2> QED BY <1>1, <1>4, <2>2, <2>3, <2>5 DEF Fixed
<1>11. ASSUME NEW n, NEW a, NEW k, NEW v, Pair1(c, S, q, n, a, k, v, roots, order)
       PROVE  Fixed(d, c, f, l, m, r, q, roots, order)
  <2>1. PICK p : p = [q EXCEPT ![Len(q)].at = @ + 1]
    OBVIOUS
  <2>2. /\ q # <<>> /\ n = q[Len(q)].ref /\ a = q[Len(q)].at /\ a \in 1 .. Len(order)
        /\ k = order[a] /\ k \in Keys /\ v = Kid(n, k) /\ v \in S \cup {NullRef} /\ n \in S /\ n \in DOMAIN m
    BY <1>6, <1>11 DEF Pair1
  <2>3. /\ Walk(S, r, p, roots, order)
        /\ Shrinks(ToDo(S, r, q, roots, order), ToDo(S, r, p, roots, order))
        /\ \A o \in S, j \in 1 .. Len(order) : PairDone(p, o, j) => PairDone(q, o, j) \/ (o = n /\ j = a)
    <3>1. a <= Len(order)
      BY <2>2
    <3>2. q[Len(q)].at <= Len(order) /\ Kid(q[Len(q)].ref, order[q[Len(q)].at]) \in S \cup {NullRef}
      BY <2>2, <3>1
    <3>3. q # <<>> /\ Walk(S, r, q, roots, order)
      BY <1>2, <2>2
    <3>4. /\ Walk(S, r, p, roots, order)
          /\ Shrinks(ToDo(S, r, q, roots, order), ToDo(S, r, p, roots, order))
      BY <2>1, <3>2, <3>3, WalkPair
    <3>5. Ahead(p, q, S, order)
      BY <2>1, <3>2, <3>3, WalkPair
    <3> QED BY <2>2, <3>4, <3>5 DEF Ahead
  <2>4. PICK g : /\ IsSecond(d, g, l, m, r, p) /\ g \in [1 .. l -> NewNode]
                 /\ \A o \in DOMAIN m : o # n => g[m[o]] = f[m[o]]
                 /\ g[m[n]].gcsweep = f[m[n]].gcsweep /\ g[m[n]].back = f[m[n]].back
                 /\ g[m[n]].pairs = IF v = NullRef THEN f[m[n]].pairs
                                    ELSE [f[m[n]].pairs EXCEPT ![k] = m[v]]
    <3>1. PICK e : e = PairFixed(c, n, k, v)
      OBVIOUS
    <3>2. ASSUME NEW g, IsSecond(e, g, l, m, r, q) PROVE IsSecond(d, g, l, m, r, p)
      <4>1. e.calls = q
        BY <3>2, SecondParts
      <4>2. d = [e EXCEPT !.calls[Len(q)].at = @ + 1]
        BY <1>4, <1>11, <3>1 DEF Pair1
      <4>3. d = [e EXCEPT !.calls = p]
        BY <2>1, <4>1, <4>2
      <4> QED BY <3>2, <4>3, SecondCalls
    <3>3. CASE v = NullRef
      <4>1. e = c
        BY <3>1, <3>3 DEF PairFixed
      <4> QED BY <1>2, <3>2, <3>3, <4>1
    <3>4. CASE v # NullRef
      <4>1. PICK y, x, i : y = f[m[n]] /\ i = m[v] /\ x = [y EXCEPT !.pairs[k] = i]
        OBVIOUS
      <4>2. PICK g : g = Became(f, m[n], x)
        OBVIOUS
      <4>3. v \in DOMAIN m /\ i \in Ref
        BY <1>2, <1>6, <2>2, <3>4, <4>1, NumberedType
      <4>4. y \in NewNode
        BY <1>5, <2>2, <4>1
      <4>5. x \in NewNode /\ x.gcsweep = y.gcsweep /\ x.back = y.back /\ x.pairs = [y.pairs EXCEPT ![k] = i]
        BY <2>2, <4>1, <4>3, <4>4 DEF NewNode
      <4>6. e = [c EXCEPT !.to.node[m[n]].pairs[k] = i]
        BY <1>3, <3>1, <3>4, <4>1 DEF PairFixed
      <4>7. IsSecond(e, g, l, m, r, q)
        BY <4>1, <4>2, <4>6, SecondPair DEF Became
      <4>8. g \in [1 .. l -> NewNode] /\ g[m[n]] = x /\ \A o \in DOMAIN m : o # n => g[m[o]] = f[m[o]]
        <5>1. g \in [1 .. l -> NewNode] /\ g[m[n]] = x /\ Elsewhere(g, f, m, n)
          BY <1>2, <2>2, <4>2, <4>5, NodePut
        <5> QED BY <5>1 DEF Elsewhere
      <4> QED BY <3>2, <3>4, <4>1, <4>5, <4>7, <4>8
    <3> QED BY <3>3, <3>4
  <2>5. Filled(g, m) = S
    BY <1>5, <1>6, <2>2, <2>4 DEF Filled
  <2>6. NodeFixed(g[m[n]], m, n, r, p, roots, order)
    <3>1. PICK y, x : y = f[m[n]] /\ x = g[m[n]]
      OBVIOUS
    <3>2. NodeFixed(y, m, n, r, q, roots, order) /\ y.gcsweep # Copying
          /\ y.pairs \in [Keys -> Ref \cup {NullRef}]
      BY <1>2, <1>5, <2>2, <3>1 DEF NewNode
    <3>3. x.gcsweep = y.gcsweep /\ x.back = y.back
      BY <2>4, <3>1
    <3>4. \A h \in Keys : x.pairs[h] = IF v # NullRef /\ h = k THEN m[v] ELSE y.pairs[h]
      BY <2>4, <3>1, <3>2
    <3>5. \A h \in Keys : x.pairs[h] # NullRef => Kid(n, h) # NullRef /\ x.pairs[h] = m[Kid(n, h)]
      BY <2>2, <3>2, <3>4 DEF NodeFixed
    <3>6. ASSUME NEW j \in 1 .. Len(order), PairDone(p, n, j), Kid(n, order[j]) # NullRef
          PROVE  x.pairs[order[j]] = m[Kid(n, order[j])]
      <4>1. order[j] \in Keys
        BY Items DEF Asked
      <4>2. CASE j = a
        BY <2>2, <3>4, <3>6, <4>1, <4>2
      <4>3. CASE j # a
        <5>1. PairDone(q, n, j)
          BY <2>2, <2>3, <3>6, <4>3
        <5>2. y.pairs[order[j]] = m[Kid(n, order[j])]
          BY <3>2, <3>6, <5>1 DEF NodeFixed
        <5> QED BY <2>2, <3>4, <4>1, <5>2
      <4> QED BY <4>2, <4>3
    <3>7. NodeFixed(x, m, n, r, p, roots, order)
      BY <3>2, <3>3, <3>5, <3>6 DEF NodeFixed
    <3> QED BY <3>1, <3>7
  <2>7. ASSUME NEW o \in DOMAIN m, o # n PROVE NodeFixed(g[m[o]], m, o, r, p, roots, order)
    <3>1. g[m[o]] = f[m[o]] /\ NodeFixed(f[m[o]], m, o, r, q, roots, order)
      BY <1>2, <2>4, <2>7
    <3>2. f[m[o]].gcsweep # Copying => \A j \in 1 .. Len(order) : PairDone(p, o, j) => PairDone(q, o, j)
      BY <1>5, <2>3, <2>7
    <3> QED BY <3>1, <3>2, FixedLess
  <2>8. Fixing(g, l, m, r, p, roots, order)
    BY <1>2, <2>3, <2>4, <2>5, <2>6, <2>7 DEF Fixing
  <2> QED BY <1>1, <1>4, <2>3, <2>4, <2>5, <2>8 DEF Fixed
<1> QED
  <2>1. \/ Pause(c, q, r, roots, order)
        \/ \E n \in Old(roots) \ S : Call1(c, q, r, n, roots, order)
        \/ Root1(c, S, q, r, roots, order)
        \/ Return1(c, q, roots, order)
        \/ \E n, a, k, v : Pair1(c, S, q, n, a, k, v, roots, order)
    BY <1>2, <1>3, StepCases
  <2> QED BY <1>4, <1>7, <1>8, <1>9, <1>10, <1>11, <2>1

LEMMA WalkStart ==
    ASSUME NEW roots, NEW order, Asked(roots, order)
    PROVE  Walk({}, 1, <<>>, roots, order)
<1>1. Len(roots) \in Nat
  BY DEF Asked
<1>2. 1 \in 1 .. Len(roots) + 1 /\ ~ \E i : i \in 1 .. 1 - 1
  BY <1>1
<1> QED BY <1>2 DEF Walk

Seconds(roots, order) ==
    {Second(f, l, m, r, q) :
        f \in UNION {[1 .. i -> NewNode] : i \in 0 .. MaxRef},
        l \in 0 .. MaxRef, m \in Maps, r \in 1 .. Len(roots) + 1, q \in Stacks(order)}

SecondStates(roots, order) ==
    {c \in Seconds(roots, order) :
        \E f, l, m, r, q : IsSecond(c, f, l, m, r, q) /\ Fixing(f, l, m, r, q, roots, order)}

LEMMA SecondState ==
    ASSUME NEW roots, NEW order, Asked(roots, order), NEW c,
           NEW f, NEW l, NEW m, NEW r, NEW q, IsSecond(c, f, l, m, r, q), Fixing(f, l, m, r, q, roots, order)
    PROVE  c \in SecondStates(roots, order)
<1>1. l \in 0 .. MaxRef /\ m \in Maps /\ r \in 1 .. Len(roots) + 1 /\ q \in Stacks(order)
  BY NumberedType, WalkType DEF Fixing
<1>2. f \in UNION {[1 .. i -> NewNode] : i \in 0 .. MaxRef}
  BY <1>1 DEF Fixing
<1>3. c = Second(f, l, m, r, q)
  BY SecondIs
<1>4. c \in Seconds(roots, order)
  BY <1>1, <1>2, <1>3 DEF Seconds
<1> QED BY <1>4 DEF SecondStates

LEMMA SecondRun ==
    ASSUME NEW roots, NEW order, Asked(roots, order), NEW b, b \in SecondStates(roots, order)
    PROVE  \E f, l, m, r : /\ IsSecond(Ran(b, roots, order), f, l, m, r, <<>>)
                           /\ Fixing(f, l, m, r, <<>>, roots, order)
                           /\ r > Len(roots) /\ Filled(f, m) = Old(roots)
<1> DEFINE X == SecondStates(roots, order)
           D == [c \in X |-> ToDo(Filled(c.to.node, c.map), c.root, c.calls, roots, order)]
<1>1. ASSUME NEW c \in X
      PROVE  \E f, l, m, r, q : /\ IsSecond(c, f, l, m, r, q) /\ Fixing(f, l, m, r, q, roots, order)
                                /\ D[c] = ToDo(Filled(f, m), r, q, roots, order)
  <2>1. PICK f, l, m, r, q : IsSecond(c, f, l, m, r, q) /\ Fixing(f, l, m, r, q, roots, order)
    BY DEF SecondStates
  <2>2. c.to.node = f /\ c.map = m /\ c.root = r /\ c.calls = q
    BY <2>1, SecondParts
  <2> QED BY <2>1, <2>2
<1>2. \A c \in X : D[c] \subseteq Work(roots, order)
  BY DEF ToDo
<1> HIDE DEF X, D
<1>3. ASSUME NEW c \in X PROVE Goes(c, X, D, roots, order)
  <2>1. PICK f, l, m, r, q : /\ IsSecond(c, f, l, m, r, q) /\ Fixing(f, l, m, r, q, roots, order)
                             /\ D[c] = ToDo(Filled(f, m), r, q, roots, order)
    BY <1>1
  <2>2. PICK d : d = Step(c, roots, order)
    OBVIOUS
  <2>3. Fixed(d, c, f, l, m, r, q, roots, order)
    BY <2>1, <2>2, FixStep
  <2>4. PICK f1, r1, q1 : /\ IsSecond(d, f1, l, m, r1, q1)
                          /\ Fixing(f1, l, m, r1, q1, roots, order)
                          /\ \/ Finished(c, roots) /\ d = c
                             \/ Shrinks(ToDo(Filled(f, m), r, q, roots, order),
                                        ToDo(Filled(f1, m), r1, q1, roots, order))
    BY <2>3 DEF Fixed
  <2>5. d \in X
    BY <2>4, SecondState DEF X
  <2>6. D[d] = ToDo(Filled(f1, m), r1, q1, roots, order)
    <3>1. d.to.node = f1 /\ d.map = m /\ d.root = r1 /\ d.calls = q1
      BY <2>4, SecondParts
    <3> QED BY <2>5, <3>1 DEF D
  <2> QED BY <2>1, <2>2, <2>4, <2>5, <2>6 DEF Goes
<1>4. b \in X
  BY DEF X
<1>5. PICK c \in X : c = Ran(b, roots, order) /\ Finished(c, roots)
  BY <1>2, <1>3, <1>4, RanEnds
<1>6. PICK f, l, m, r, q : IsSecond(c, f, l, m, r, q) /\ Fixing(f, l, m, r, q, roots, order)
  BY <1>1
<1>7. q = <<>> /\ r > Len(roots)
  <2>1. c.calls = q /\ c.root = r
    BY <1>6, SecondParts
  <2> QED BY <1>5, <2>1 DEF Finished
<1>8. Filled(f, m) = Old(roots)
  BY <1>6, <1>7, WalkDone DEF Fixing
<1> QED BY <1>5, <1>6, <1>7, <1>8

(* The second recursion starts on what the first has left.                 *)
LEMMA SecondStart ==
    ASSUME NEW roots, NEW order, Asked(roots, order)
    PROVE  [Ran(Start, roots, order) EXCEPT !.fixing = TRUE, !.root = 1] \in SecondStates(roots, order)
<1>1. PICK l, m, r : /\ Ran(Start, roots, order) = First(BareGraph(l), m, r, <<>>)
                     /\ Adding(l, m, r, <<>>, roots, order) /\ DOMAIN m = Old(roots)
  BY FirstRun
<1>2. PICK f : f = [i \in 1 .. l |-> Bare]
  OBVIOUS
<1>3. PICK T : T = [node |-> f, sweep |-> 0, last_id |-> l]
  OBVIOUS
<1>4. PICK c : c = [to |-> T, map |-> m, fixing |-> FALSE, root |-> r, calls |-> <<>>]
  OBVIOUS
<1>5. Ran(Start, roots, order) = c
  BY <1>1, <1>2, <1>3, <1>4, Zenon DEF First, BareGraph
<1>6. PICK d : d = [c EXCEPT !.fixing = TRUE]
  OBVIOUS
<1>7. d = [to |-> T, map |-> m, fixing |-> TRUE, root |-> r, calls |-> <<>>]
  BY <1>4, <1>6
<1>8. PICK e : e = [d EXCEPT !.root = 1]
  OBVIOUS
<1>9. e = [to |-> T, map |-> m, fixing |-> TRUE, root |-> 1, calls |-> <<>>]
  BY <1>7, <1>8
<1>10. e = [Ran(Start, roots, order) EXCEPT !.fixing = TRUE, !.root = 1]
  BY <1>5, <1>6, <1>8
<1>11. IsSecond(e, f, l, m, 1, <<>>)
  BY <1>3, <1>9 DEF IsSecond
<1>12. Numbered(m, l) /\ m[roots[1]] = 1
  <2>1. 1 \in 1 .. Len(roots)
    BY DEF Asked
  <2>2. roots[1] \in DOMAIN m
    BY <1>1, <2>1, OldFacts
  <2> QED BY <1>1, <2>2 DEF Adding
<1>13. /\ Bare \in NewNode /\ Bare.gcsweep = Copying
       /\ \A k \in Keys : Bare.pairs[k] = NullRef
  BY DEF Bare, NewNode
<1>14. f \in [1 .. l -> NewNode] /\ \A n \in DOMAIN m : f[m[n]] = Bare
  <2>1. \A n \in DOMAIN m : m[n] \in 1 .. l
    BY <1>12 DEF Numbered
  <2> QED BY <1>2, <1>13, <2>1
<1>15. Filled(f, m) = {}
  BY <1>13, <1>14 DEF Filled
<1>16. \A n \in DOMAIN m : NodeFixed(f[m[n]], m, n, 1, <<>>, roots, order)
  BY <1>13, <1>14 DEF NodeFixed
<1>17. Fixing(f, l, m, 1, <<>>, roots, order)
  BY <1>1, <1>12, <1>14, <1>15, <1>16, WalkStart DEF Fixing
<1> QED BY <1>10, <1>11, <1>17, SecondState

LEMMA CopyIsWhole ==
    ASSUME NEW roots, NEW order, Asked(roots, order)
    PROVE  IsCopy(DCopy(roots, order), roots)
<1>1. PICK c : c = Ran([Ran(Start, roots, order) EXCEPT !.fixing = TRUE, !.root = 1], roots, order)
  OBVIOUS
<1>2. PICK f, l, m, r : /\ IsSecond(c, f, l, m, r, <<>>) /\ Fixing(f, l, m, r, <<>>, roots, order)
                        /\ r > Len(roots) /\ Filled(f, m) = Old(roots)
  BY <1>1, SecondStart, SecondRun
<1>3. c.to.node = f /\ c.map = m
  BY <1>2, SecondParts
<1>4. PICK y : y = DCopy(roots, order)
  OBVIOUS
<1>5. y.to.node = f /\ y.map = m /\ y.roots = [i \in DOMAIN roots |-> m[roots[i]]]
  BY <1>1, <1>3, <1>4 DEF DCopy
<1>6. /\ Numbered(m, l) /\ DOMAIN m = Old(roots) /\ m[roots[1]] = 1 /\ f \in [1 .. l -> NewNode]
      /\ \A n \in DOMAIN m : NodeFixed(f[m[n]], m, n, r, <<>>, roots, order)
      /\ \A n \in DOMAIN m : f[m[n]].gcsweep # Copying
  BY <1>2 DEF Fixing, Filled
<1>7. DOMAIN roots = 1 .. Len(roots) /\ 1 \in DOMAIN roots /\ r - 1 = Len(roots)
  <2>1. Len(roots) \in Nat /\ DOMAIN roots = 1 .. Len(roots) /\ Len(roots) > 0
    BY DEF Asked
  <2>2. r \in 1 .. Len(roots) + 1
    BY <1>2 DEF Fixing, Walk
  <2> QED BY <1>2, <2>1, <2>2
<1>8. /\ \A n, o \in Old(roots) : m[n] = m[o] => n = o
      /\ DOMAIN f = {m[n] : n \in Old(roots)}
  <2>1. DOMAIN f = 1 .. l /\ m \in [DOMAIN m -> 1 .. l]
    BY <1>6 DEF Numbered
  <2>2. \A i \in 1 .. l : \E n \in DOMAIN m : m[n] = i
    BY <1>6 DEF Numbered
  <2>3. \A n, o \in DOMAIN m : m[n] = m[o] => n = o
    BY <1>6 DEF Numbered
  <2> QED BY <1>6, <2>1, <2>2, <2>3
<1>9. ASSUME NEW n \in Old(roots)
      PROVE  /\ f[m[n]].gcsweep = IF \E i \in DOMAIN roots : roots[i] = n THEN -1 ELSE 0
             /\ \A k \in Keys : f[m[n]].pairs[k] = IF Kid(n, k) = NullRef THEN NullRef ELSE m[Kid(n, k)]
             /\ \A o \in Old(roots) : f[m[n]].back[m[o]] = graph.node[n].back[o]
             /\ \A i \in Ref \ DOMAIN f : f[m[n]].back[i] = 0
  <2>1. NodeFixed(f[m[n]], m, n, r, <<>>, roots, order) /\ f[m[n]].gcsweep # Copying
        /\ f[m[n]].back = Back(m, n)
    BY <1>6 DEF NodeFixed
  <2>2. f[m[n]].gcsweep = IF \E i \in DOMAIN roots : roots[i] = n THEN -1 ELSE 0
    BY <1>7, <2>1 DEF NodeFixed
  <2>3. ASSUME NEW k \in Keys
        PROVE  f[m[n]].pairs[k] = IF Kid(n, k) = NullRef THEN NullRef ELSE m[Kid(n, k)]
    <3>1. CASE Kid(n, k) = NullRef
      BY <2>1, <3>1 DEF NodeFixed
    <3>2. CASE Kid(n, k) # NullRef
      <4>1. PICK j \in 1 .. Len(order) : order[j] = k
        BY DEF Asked
      <4>2. PairDone(<<>>, n, j)
        BY DEF PairDone
      <4> QED BY <2>1, <3>2, <4>1, <4>2 DEF NodeFixed
    <3> QED BY <3>1, <3>2
  <2>4. ASSUME NEW o \in Old(roots) PROVE f[m[n]].back[m[o]] = graph.node[n].back[o]
    <3>1. m[o] \in Ref
      BY <1>6, NumberedType
    <3>2. (CHOOSE a \in DOMAIN m : m[a] = m[o]) = o
      BY <1>6, <1>8
    <3> QED BY <1>6, <2>1, <3>1, <3>2 DEF Back
  <2>5. ASSUME NEW i \in Ref \ DOMAIN f PROVE f[m[n]].back[i] = 0
    <3>1. ~ \E a \in DOMAIN m : m[a] = i
      BY <1>6, <1>8
    <3> QED BY <2>1, <3>1 DEF Back
  <2> QED BY <2>2, <2>3, <2>4, <2>5
<1> DEFINE asked == {roots[i] : i \in DOMAIN roots}
           old   == ReachedBy(asked)
<1>10. Old(roots) = old
  BY Zenon DEF Old
<1>11. \A n : n \in asked <=> \E i \in DOMAIN roots : roots[i] = n
  OBVIOUS
<1> HIDE DEF asked, old
<1>12. ASSUME NEW n \in old
       PROVE  LET new == y.to.node[y.map[n]] IN
              /\ new.gcsweep = IF n \in asked THEN -1 ELSE 0
              /\ \A k \in Keys : LET v == graph.node[n].pairs[k] IN
                     new.pairs[k] = IF v = NullRef THEN NullRef ELSE y.map[v]
              /\ \A o \in old : new.back[y.map[o]] = graph.node[n].back[o]
              /\ \A i \in Ref \ DOMAIN y.to.node : new.back[i] = 0
  BY <1>5, <1>9, <1>10, <1>11 DEF Kid
<1>13. /\ DOMAIN y.map = old
       /\ \A n, o \in old : y.map[n] = y.map[o] => n = o
       /\ DOMAIN y.to.node = {y.map[n] : n \in old}
       /\ \A i \in DOMAIN roots : y.roots[i] = y.map[roots[i]]
       /\ y.roots[1] = 1
  BY <1>5, <1>6, <1>7, <1>8, <1>10
<1>14. IsCopy(y, roots)
  BY <1>12, <1>13, Zenon DEF IsCopy, asked, old
<1> QED BY <1>4, <1>14

LEMMA TracedCopies == Traced => CopiesReached
<1> SUFFICES ASSUME Traced, pc = "idle", NEW order \in Orders,
                    NEW n \in 1 .. 2, NEW roots \in [1 .. n -> {o \in Live : graph.node[o].gcsweep = -1}]
             PROVE  IsCopy(DCopy(roots, order), roots)
  BY DEF CopiesReached
<1>1. GraphOK(graph) /\ Whole(graph)
  BY DEF Traced
<1>2. roots \in Seq(Live) /\ Len(roots) > 0
  <2>1. roots \in [1 .. n -> Live] /\ n \in Nat /\ n > 0
    OBVIOUS
  <2> QED BY <2>1, ItemsSeq
<1>3. order \in Seq(Keys) /\ \A k \in Keys : \E j \in 1 .. Len(order) : order[j] = k
  <2>1. Cardinality(Keys) \in Nat
    BY GraphAssumption, FS_CardinalityType
  <2>2. order \in [1 .. Cardinality(Keys) -> Keys] /\ \A k \in Keys : \E j \in DOMAIN order : order[j] = k
    BY DEF Orders
  <2>3. order \in Seq(Keys) /\ DOMAIN order = 1 .. Len(order)
    BY <2>1, <2>2, ItemsSeq
  <2> QED BY <2>2, <2>3
<1>4. Asked(roots, order)
  BY <1>1, <1>2, <1>3 DEF Asked
<1> QED BY <1>4, CopyIsWhole

(* Of any graph the calls and collections lead to, with any number of      *)
(* nodes and keys, in any order of the keys: ndl_graph_dcopy ends, and     *)
(* what it leaves in the new graph is what the roots reach, with its       *)
(* cycles, counts and roots, the first root as node 1.                     *)
THEOREM CopiesAreWhole == Spec => []CopiesReached
BY AlwaysTraced, TracedCopies, PTL
=============================================================================
