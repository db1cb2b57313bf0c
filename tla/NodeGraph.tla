----------------------------- MODULE NodeGraph -----------------------------
(***************************************************************************)
(* What core/graph.h promises: nodes whose pairs refer to other nodes,     *)
(* some of them roots, where only a node that no root reaches may vanish.  *)
(***************************************************************************)
EXTENDS Integers

CONSTANTS Ref,   \* addresses of nodes
          Keys,  \* keys of pairs
          NullRef

VARIABLES root,  \* the nodes marked as roots
          pairs  \* node -> its pairs, for the nodes that exist

vars == <<root, pairs>>

Live == DOMAIN pairs

Children(n) == {pairs[n][k] : k \in Keys} \ {NullRef}

(* The nodes in every set that holds the roots and, with a node, what it   *)
(* refers to.                                                              *)
Closed(S) == root \subseteq S /\ \A n \in S \cap Live : Children(n) \cap Live \subseteq S
Reachable == {n \in Live : \A S \in SUBSET Live : Closed(S) => n \in S}

Init == root = {} /\ pairs = [n \in {} |-> root]

Empty == [k \in Keys |-> NullRef]
With(n, p) == [m \in Live \cup {n} |-> IF m = n THEN p ELSE pairs[m]]

Alloc(n) == n \notin Live /\ root' = root \cup {n} /\ pairs' = With(n, Empty)

(* A new node under base.k; base may be the new node itself.               *)
Salloc(n, base, k) ==
    /\ n \notin Live
    /\ base \in Live \cup {n}
    /\ pairs' = [With(n, Empty) EXCEPT ![base][k] = n]
    /\ UNCHANGED root

Mark(n)   == root' = root \cup {n} /\ UNCHANGED pairs
Unmark(n) == root' = root \ {n} /\ UNCHANGED pairs

(* Set or delete a pair.                                                   *)
Assign(n, k, v) ==
    /\ v \in Live \cup {NullRef}
    /\ pairs' = [pairs EXCEPT ![n][k] = v]
    /\ UNCHANGED root

Collect(n) ==
    /\ UNCHANGED root
    /\ pairs' = [m \in Live \ {n} |-> pairs[m]]
    /\ n \notin Reachable

Next == \/ \E n \in Live :
             \/ Mark(n) \/ Unmark(n) \/ Collect(n)
             \/ \E k \in Keys, v \in Ref \cup {NullRef} : Assign(n, k, v)
        \/ \E n \in Ref :
             Alloc(n) \/ \E base \in Ref, k \in Keys : Salloc(n, base, k)

Spec == Init /\ [][Next]_vars
=============================================================================
