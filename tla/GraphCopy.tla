----------------------------- MODULE GraphCopy -----------------------------
(***************************************************************************)
(* ndl_graph_dcopy of core/graph.c: the nodes that some roots reach are    *)
(* copied into another graph, under addresses of its own.  nodelasm copies *)
(* what it has assembled into a new graph, to leave the rest behind.       *)
(*                                                                         *)
(* Two recursions go through the original.  The first makes the new nodes, *)
(* bare but for a mark, and the table of what became of what; the second   *)
(* takes the mark off and fills in the pairs.  Both go through a node's    *)
(* pairs in the order of its table; `order` is an order of the keys.  The  *)
(* hidden pairs only say what is copied of themselves, so theirs does not  *)
(* matter.  As memory is not exhausted and nothing dangles, no step fails. *)
(***************************************************************************)
EXTENDS Graph

Copying == -3  \* the mark of a node whose pairs are still to come

(***************************************************************************)
(* A copy that is under way: [to:     the new graph,                       *)
(*                            map:    old -> new,                          *)
(*                            fixing: which of the recursions it is in,    *)
(*                            root:   the root it is at,                   *)
(*                            calls:  the nodes it was called for, each    *)
(*                                    with the pair the call is at].       *)
(***************************************************************************)
NewGraph == [node |-> [n \in {} |-> NullRef], sweep |-> 0, last_id |-> 0]

Start == [to |-> NewGraph, map |-> [n \in {} |-> NullRef], fixing |-> FALSE,
          root |-> 1, calls |-> <<>>]

(* A call for n returns at once.                                           *)
Seen(c, n) == IF c.fixing THEN c.to.node[c.map[n]].gcsweep # Copying ELSE n \in DOMAIN c.map

(* ndl_graph_dcopy_add, up to its loop.                                    *)
Made(c, n) ==
    LET r == NextRef(c.to)
    IN  [c EXCEPT !.to  = Allocated(@, r, Copying),
                  !.map = [m \in DOMAIN @ \cup {n} |-> IF m = n THEN r ELSE @[m]]]

(* Mutant: the counts keep the addresses of the original.                 *)
BackKept(map, n) == [m \in Ref |-> graph.node[n].back[m]]

(* The counts go along under the new addresses, those of nodes that are    *)
(* not copied are dropped.                                                 *)
Back(map, n) ==
    [m \in Ref |-> IF \E o \in DOMAIN map : map[o] = m
                   THEN graph.node[n].back[CHOOSE o \in DOMAIN map : map[o] = m] ELSE 0]

(* ndl_graph_dcopy_fix, up to the pairs.                                   *)
Opened(c, n) ==
    [c EXCEPT !.to.node[c.map[n]].gcsweep = 0, !.to.node[c.map[n]].back = Back(c.map, n)]

Called(c, n) ==
    [(IF c.fixing THEN Opened(c, n) ELSE Made(c, n)) EXCEPT
        !.calls = Append(@, [ref |-> n, at |-> 1])]

(* What is left to do when the call for a pair, or a root, has returned.   *)
PairFixed(c, n, k, v) ==
    IF c.fixing /\ v # NullRef THEN [c EXCEPT !.to.node[c.map[n]].pairs[k] = c.map[v]] ELSE c
RootFixed(c, n) ==
    IF c.fixing THEN [c EXCEPT !.to.node[c.map[n]].gcsweep = -1] ELSE c

(* A step.  When a call has returned, the pair or root that it was for is  *)
(* come back to, which by then is seen.                                    *)
Step(c, roots, order) ==
    IF c.calls = <<>>
    THEN IF c.root > Len(roots) THEN c
         ELSE IF ~ Seen(c, roots[c.root]) THEN Called(c, roots[c.root])
         ELSE [RootFixed(c, roots[c.root]) EXCEPT !.root = @ + 1]
    ELSE LET call == c.calls[Len(c.calls)]
             k    == order[call.at]
             v    == graph.node[call.ref].pairs[k]
         IN  IF call.at > Len(order) THEN [c EXCEPT !.calls = SubSeq(@, 1, Len(@) - 1)]
             ELSE IF v # NullRef /\ ~ Seen(c, v) THEN Called(c, v)
             ELSE [PairFixed(c, call.ref, k, v) EXCEPT !.calls[Len(c.calls)].at = @ + 1]

(* One recursion: bound by a step for each root, and for each node one to  *)
(* call, one a pair, and one to return.                                    *)
Work(roots, order) == (Live \X (0 .. Len(order) + 1)) \cup ({NullRef} \X DOMAIN roots)

Ran(start, roots, order) ==
    LET steps == Cardinality(Work(roots, order))
        after[i \in 0 .. steps] == IF i = 0 THEN start ELSE Step(after[i - 1], roots, order)
    IN  after[steps]

Finished(c, roots) == c.calls = <<>> /\ c.root > Len(roots)

(* The array of roots is left holding what each of them became.            *)
DCopy(roots, order) ==
    LET c == Ran([Ran(Start, roots, order) EXCEPT !.fixing = TRUE, !.root = 1], roots, order)
    IN  [to |-> c.to, map |-> c.map, roots |-> [i \in DOMAIN roots |-> c.map[roots[i]]]]

-----------------------------------------------------------------------------
(* The nodes that some nodes reach.                                        *)
Holds(S, T) == S \subseteq T /\ \A n \in T, k \in Keys : graph.node[n].pairs[k] \in T \cup {NullRef}

ReachedBy(S) == {n \in Live : \A T \in SUBSET Live : n \in T \/ ~ Holds(S, T)}

(* c is the subgraph the roots reach under other addresses, cycles, shared *)
(* nodes and counts included; its roots are those asked for, no node looks *)
(* visited to the first collection, and the first root is node 1, which is *)
(* where nodelrun starts the program it loads.                             *)
IsCopy(c, roots) ==
    LET asked == {roots[i] : i \in DOMAIN roots}
        old   == ReachedBy(asked)
    IN
    /\ DOMAIN c.map = old
    /\ \A m, n \in old : c.map[m] = c.map[n] => m = n
    /\ DOMAIN c.to.node = {c.map[n] : n \in old}
    /\ \A i \in DOMAIN roots : c.roots[i] = c.map[roots[i]]
    /\ c.roots[1] = 1
    /\ \A n \in old :
         LET new == c.to.node[c.map[n]] IN
         /\ new.gcsweep = IF n \in asked THEN -1 ELSE 0
         /\ \A k \in Keys : LET v == graph.node[n].pairs[k] IN
                new.pairs[k] = IF v = NullRef THEN NullRef ELSE c.map[v]
         /\ \A m \in old : new.back[c.map[m]] = graph.node[n].back[m]
         /\ \A r \in Ref \ DOMAIN c.to.node : new.back[r] = 0

Orders == {order \in [1 .. Cardinality(Keys) -> Keys] : \A k \in Keys : \E j \in DOMAIN order : order[j] = k}

(* Whatever graph the calls and collections have led to, and whatever the  *)
(* order of the pairs, a copy of roots of it is what graph.h says:         *)
(* "preserve structure", "all nodes reachable from the given" roots, "the  *)
(* roots as roots".  (Marks do not matter to a copy, so roots are enough.) *)
CopiesReached ==
    LET marked == {n \in Live : graph.node[n].gcsweep = -1} IN
    pc = "idle" =>
        \A order \in Orders, roots \in UNION {[1 .. n -> marked] : n \in 1 .. 2} :
            IsCopy(DCopy(roots, order), roots)
=============================================================================
