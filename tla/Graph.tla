------------------------------- MODULE Graph -------------------------------
(***************************************************************************)
(* The node graph of core/graph.c over core/nodepool.c: nodes with pairs,  *)
(* counts of back references, roots, and the mark-and-sweep collector.     *)
(*                                                                         *)
(* Every function of graph.h is one step, but for ndl_graph_clean, whose   *)
(* loops and recursion run step by step: `pc` says which loop, `gc` holds  *)
(* its locals.  Nothing else may touch the graph meanwhile.                *)
(*                                                                         *)
(* A pair is there for the node it refers to: a missing pair, a pair that  *)
(* holds data and one that holds the null reference are all NullRef.  A    *)
(* node's hidden pairs are the fields gcsweep (-1 for a root, else the     *)
(* last sweep that reached it) and back (0 where there is no count).  The  *)
(* tables under nodes are taken for maps; HashTable.tla looks into them.   *)
(***************************************************************************)
EXTENDS Integers, FiniteSets, Sequences

CONSTANTS MaxRef,      \* bound: the last address in use
          Keys,        \* the keys of pairs
          Clients      \* the programs over the graph, each [
                       \*   keys:       the keys it uses,
                       \*   sweeps:     bound: its collections,
                       \*   overwrites: it sallocs pairs that refer to a node]

ASSUME GraphAssumption ==
    /\ MaxRef \in Nat
    /\ IsFiniteSet(Keys)
    /\ Clients \subseteq [keys : SUBSET Keys, sweeps : Nat, overwrites : BOOLEAN]

VARIABLES graph,  \* [node, sweep, last_id]
          pc,     \* "idle", or the loop of ndl_graph_clean that runs
          gc,     \* [todo: nodes the loop has not come to,
                  \*  stack: the calls of clean_mark, with the keys to come]
          client  \* the program that calls; it stays the same

vars == <<graph, pc, gc, client>>

Ref     == 1 .. MaxRef
NullRef == -1

Node == [gcsweep : Nat \cup {-1}, back : [Ref -> Nat], pairs : [Keys -> Ref \cup {NullRef}]]

Live == DOMAIN graph.node

NoLoop == [todo |-> {}, stack |-> <<>>]

Init == /\ graph = [node |-> [n \in {} |-> NullRef], sweep |-> 0, last_id |-> 0]
        /\ pc = "idle"
        /\ gc = NoLoop
        /\ client \in Clients

(***************************************************************************)
(* Operators on a graph g.                                                 *)
(***************************************************************************)
(* ndl_node_pool_alloc: the first free address after the last one given.   *)
NextRef(g) ==
    CHOOSE r \in g.last_id + 1 .. MaxRef + 1 :
        r \notin DOMAIN g.node /\ g.last_id + 1 .. r - 1 \subseteq DOMAIN g.node

(* Mutant: the counter runs one ahead.                                    *)
AllocatedAhead(g, r, gcsweep) ==
    [g EXCEPT
        !.node = [n \in DOMAIN g.node \cup {r} |->
                    IF n = r THEN [gcsweep |-> gcsweep,
                                   back    |-> [m \in Ref |-> 0],
                                   pairs   |-> [k \in Keys |-> NullRef]]
                    ELSE g.node[n]],
        !.last_id = r + 1]

Allocated(g, r, gcsweep) ==
    [g EXCEPT
        !.node = [n \in DOMAIN g.node \cup {r} |->
                    IF n = r THEN [gcsweep |-> gcsweep,
                                   back    |-> [m \in Ref |-> 0],
                                   pairs   |-> [k \in Keys |-> NullRef]]
                    ELSE g.node[n]],
        !.last_id = r]

(* Mutant: the count of a second reference is not kept.                   *)
AddBackrefOnce(g, to, from) ==
    IF to \in DOMAIN g.node THEN [g EXCEPT !.node[to].back[from] = 1] ELSE g

AddBackref(g, to, from) ==
    IF to \in DOMAIN g.node THEN [g EXCEPT !.node[to].back[from] = @ + 1] ELSE g

RmBackref(g, to, from) ==
    IF to \in DOMAIN g.node /\ g.node[to].back[from] > 0
    THEN [g EXCEPT !.node[to].back[from] = @ - 1] ELSE g

Refs(g, to, from) == Cardinality({k \in Keys : g.node[from].pairs[k] = to})

(* Mutant: a node goes without a word to those it refers to.              *)
Forgotten(g, n) == [g EXCEPT !.node = [m \in DOMAIN @ \ {n} |-> @[m]]]

(* ndl_graph_clean_remove: one rm_backref for each pair, then the node is  *)
(* freed.                                                                  *)
CleanRemove(g, n) ==
    [g EXCEPT !.node = [m \in DOMAIN g.node \ {n} |->
        [g.node[m] EXCEPT !.back[n] = IF @ > Refs(g, m, n) THEN @ - Refs(g, m, n) ELSE 0]]]

(***************************************************************************)
(* The functions of graph.h.  Where a node is missing they fail and leave  *)
(* the graph alone.                                                        *)
(***************************************************************************)
Call(g) == pc = "idle" /\ graph' = g /\ UNCHANGED <<pc, gc>>

Alloc == LET r == NextRef(graph) IN r \in Ref \ Live /\ Call(Allocated(graph, r, -1))

(* The new node refers to nothing and is counted under base; what base.k   *)
(* referred to before keeps its count.  If base is missing the new node is *)
(* freed, but its address is used up.  Base may be the new node.           *)
Salloc(base, k) ==
    LET r   == NextRef(graph)
        new == Allocated(graph, r, 0)
    IN  /\ r \in Ref \ Live
        /\ base \in Live => client.overwrites \/ graph.node[base].pairs[k] = NullRef
        /\ Call(IF base \in DOMAIN new.node
                THEN [new EXCEPT !.node[r].back[base] = 1, !.node[base].pairs[k] = r]
                ELSE [graph EXCEPT !.last_id = r])

Mark(n)   == n \in Live /\ Call([graph EXCEPT !.node[n].gcsweep = -1])
Unmark(n) == n \in Live /\ Call([graph EXCEPT !.node[n].gcsweep = 0])

(* The new reference is counted first, and the pair keeps its value if     *)
(* that fails; the old one is discounted last.                             *)
SetPair(n, k, v) ==
    /\ n \in Live
    /\ v \in Live \cup {NullRef}
    /\ LET put == [AddBackref(graph, v, n) EXCEPT !.node[n].pairs[k] = v]
       IN  Call(RmBackref(put, graph.node[n].pairs[k], n))

DelPair(n, k) ==
    /\ n \in Live
    /\ LET old == graph.node[n].pairs[k]
       IN  Call([RmBackref(graph, old, n) EXCEPT !.node[n].pairs[k] = NullRef])

(***************************************************************************)
(* ndl_graph_clean.                                                        *)
(***************************************************************************)
Clean ==
    /\ pc = "idle" /\ graph.sweep < client.sweeps
    /\ pc' = "mark"
    /\ graph' = [graph EXCEPT !.sweep = @ + 1]
    /\ gc' = [todo |-> Live, stack |-> <<>>]

(* The pairs of n that clean_mark does not just pass over.                 *)
Referring(n) == {k \in Keys : graph.node[n].pairs[k] # NullRef}

(* The marking loop comes to n, and calls clean_mark if n is a root.       *)
MarkRoot(n) ==
    /\ pc = "mark" /\ gc.stack = <<>>
    /\ gc' = [todo  |-> gc.todo \ {n},
              stack |-> IF graph.node[n].gcsweep = -1 THEN <<[ref |-> n, keys |-> Referring(n)]>>
                        ELSE <<>>]
    /\ UNCHANGED <<graph, pc>>

Top == gc.stack[Len(gc.stack)]

(* Mutant: clean_mark goes back into what this sweep has reached.         *)
UnmarkedAgain(n) == n \in Live /\ graph.node[n].gcsweep \in 0 .. graph.sweep

(* Mutant: clean_mark takes 0 for reached.                                *)
UnmarkedOld(n) == n \in Live /\ graph.node[n].gcsweep \in 1 .. graph.sweep - 1

(* clean_mark does not return at once.                                     *)
Unmarked(n) == n \in Live /\ graph.node[n].gcsweep \in 0 .. graph.sweep - 1

(* clean_mark goes through the pairs of the node on top, in any order, and *)
(* calls itself for what they refer to.                                    *)
MarkPair(k) ==
    LET n == Top.ref
        v == graph.node[n].pairs[k]
        rest == [gc.stack EXCEPT ![Len(gc.stack)].keys = @ \ {k}]
    IN  /\ IF Unmarked(v)
           THEN /\ graph' = [graph EXCEPT !.node[v].gcsweep = graph.sweep]
                /\ gc' = [gc EXCEPT !.stack = Append(rest, [ref |-> v, keys |-> Referring(v)])]
           ELSE gc' = [gc EXCEPT !.stack = rest] /\ UNCHANGED graph
        /\ UNCHANGED pc

MarkReturn ==
    /\ Top.keys = {}
    /\ gc' = [gc EXCEPT !.stack = SubSeq(@, 1, Len(@) - 1)]
    /\ UNCHANGED <<graph, pc>>

MarkDone ==
    /\ pc = "mark" /\ gc = NoLoop
    /\ pc' = "sweep" /\ gc' = [gc EXCEPT !.todo = Live]
    /\ UNCHANGED graph

(* Mutant: sweep treats a node of the last sweep as reached.              *)
KeptLast(n) == graph.node[n].gcsweep = -1 \/ graph.node[n].gcsweep >= graph.sweep - 1

(* Mutant: sweep asks for more than the sweep number.                     *)
KeptPast(n) == graph.node[n].gcsweep = -1 \/ graph.node[n].gcsweep > graph.sweep

Kept(n) == graph.node[n].gcsweep = -1 \/ graph.node[n].gcsweep >= graph.sweep

SweepNode(n) ==
    /\ pc = "sweep"
    /\ graph' = IF Kept(n) THEN graph ELSE CleanRemove(graph, n)
    /\ gc' = [gc EXCEPT !.todo = @ \ {n}]
    /\ UNCHANGED pc

CleanDone ==
    /\ pc = "sweep" /\ gc = NoLoop
    /\ pc' = "idle"
    /\ UNCHANGED <<graph, gc>>

CleanStep == \/ \E n \in gc.todo : MarkRoot(n) \/ SweepNode(n)
             \/ pc = "mark" /\ gc.stack # <<>> /\ (MarkReturn \/ \E k \in Top.keys : MarkPair(k))
             \/ MarkDone \/ CleanDone

Mutate == \/ Alloc
          \/ \E base \in Ref, k \in client.keys : Salloc(base, k)
          \/ \E n \in Ref :
               \/ Mark(n) \/ Unmark(n)
               \/ \E k \in client.keys :
                    DelPair(n, k) \/ \E v \in Ref \cup {NullRef} : SetPair(n, k, v)

Next == (Mutate \/ Clean \/ CleanStep) /\ UNCHANGED client

Spec == Init /\ [][Next]_vars

-----------------------------------------------------------------------------
(* The fields of the graph and the locals of a collection have their types.*)
TypeOK ==
    /\ graph.node \in [Live -> Node] /\ Live \subseteq Ref
    /\ graph.sweep \in 0 .. client.sweeps /\ client \in Clients
    /\ graph.last_id \in 0 .. MaxRef
    /\ pc \in {"idle", "mark", "sweep"}
    /\ gc.todo \subseteq Live
    /\ \A i \in DOMAIN gc.stack : gc.stack[i] \in [ref : Live, keys : SUBSET Keys]

(* The graph is what graph.h promises; above all, no step of a collection  *)
(* frees a node that a root reaches, whatever has happened since the last. *)
Promised == INSTANCE NodeGraph WITH
    root  <- {n \in Live : graph.node[n].gcsweep = -1},
    pairs <- [n \in Live |-> graph.node[n].pairs]
ImplementsNodeGraph == Promised!Spec

(* A collection leaves no garbage: when it ends, every node that is left   *)
(* can be reached from a root.                                             *)
CleanComplete == [][pc = "sweep" /\ pc' = "idle" => (Live \subseteq Promised!Reachable)']_vars

(* No pair refers to a node that was freed.  Halfway through a sweep that  *)
(* goes for the nodes that stay, and one that is to go may dangle.         *)
NoDangling ==
    \A n \in IF pc = "sweep" THEN Promised!Reachable ELSE Live :
        \A k \in Keys : graph.node[n].pairs[k] \in Live \cup {NullRef}

(* A reference is never missing from the counts of the node it refers to,  *)
(* though salloc over another reference leaves a count too many.           *)
BackrefsCover == \A to, from \in Live : graph.node[to].back[from] >= Refs(graph, to, from)

(* clean_mark is not called for a node that a call is under way for, so    *)
(* its recursion ends, on cycles too, and is no deeper than the graph has  *)
(* nodes.                                                                  *)
MarkedOnce == \A i, j \in DOMAIN gc.stack : gc.stack[i].ref = gc.stack[j].ref => i = j

(* graph.h: "backrefs() gets the number of references the 'from' node has  *)
(* to the 'to' node."  True as long as salloc overwrites no reference.     *)
BackrefsExact ==
    ~ client.overwrites =>
    \A to \in Live, from \in Ref :
        graph.node[to].back[from] = IF from \in Live THEN Refs(graph, to, from) ELSE 0
=============================================================================
