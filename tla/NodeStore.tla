------------------------------ MODULE NodeStore ------------------------------
(***************************************************************************)
(* Values (core/node.h) and the operations of core/graph.h on a graph g    *)
(* that maps nodes to keys to values, for the nodes and pairs there are.   *)
(* Of the hidden pairs only the marks of roots matter to those who use     *)
(* this module, and they keep them; Graph.tla has the others, and shows    *)
(* that a collection leaves what the roots reach.                          *)
(***************************************************************************)
EXTENDS Integers, FiniteSets, Sequences

NullRef == -1
NullSym == ""

(* A value is a pair <<type, data>>; floating point numbers are all alike. *)
None   == <<"none", 0>>
Ref(n) == <<"ref", n>>
Sym(s) == <<"sym", s>>
Num(n) == <<"int", n>>
Real   == <<"float", 0>>

Is(val, type) == val[1] = type
Data(val)     == val[2]
NonNull(val)  == Is(val, "ref") /\ Data(val) # NullRef

Get(g, n, k) == IF n \in DOMAIN g /\ k \in DOMAIN g[n] THEN g[n][k] ELSE None

Put(g, n, k, val) ==
    [g EXCEPT ![n] = [j \in DOMAIN @ \cup {k} |-> IF j = k THEN val ELSE g[n][j]]]

Del(g, n, k) == [g EXCEPT ![n] = [j \in DOMAIN @ \ {k} |-> g[n][j]]]

(* set fails unless the node, and the node referred to, exist.             *)
CanSet(g, n, val) == n \in DOMAIN g /\ (NonNull(val) => Data(val) \in DOMAIN g)

(* A node r that refers to nothing, and a reference to it.                 *)
Salloc(g, base, k, r) ==
    Put([n \in DOMAIN g \cup {r} |-> IF n = r THEN <<>> ELSE g[n]], base, k, Ref(r))

Children(g, n) == {Data(g[n][k]) : k \in {j \in DOMAIN g[n] : NonNull(g[n][j])}}

(* What the nodes of S reach.                                              *)
Reach(g, S) ==
    LET within[i \in Nat] ==
            IF i = 0 THEN S
            ELSE within[i - 1] \cup UNION {Children(g, n) : n \in within[i - 1] \cap DOMAIN g}
    IN  within[Cardinality(DOMAIN g)] \cap DOMAIN g

Cleaned(g, roots) == [n \in Reach(g, roots) |-> g[n]]

(* Every pair holds a value, and every reference names a node or is null.  *)
WellFormed(g) ==
    \A n \in DOMAIN g : \A k \in DOMAIN g[n] :
        /\ g[n][k][1] \in {"ref", "sym", "int", "float"}
        /\ NonNull(g[n][k]) => Data(g[n][k]) \in DOMAIN g
=============================================================================
