--------------------------- MODULE PriorityQueue ---------------------------
(***************************************************************************)
(* What container/heap.h promises: a collection of timed events from which *)
(* the earliest can be taken, and any can be removed or retimed.           *)
(***************************************************************************)
EXTENDS Integers

CONSTANTS Ids,    \* owners of events, at most one event each
          Times,  \* the instants an event may be set to
          None    \* no event was taken by the last operation

VARIABLES contents,  \* the events in the queue
          out        \* the event the last operation took from the top

vars == <<contents, out>>

Init == contents = {} /\ out = None

Add(id, t) ==
    /\ \A e \in contents : e.pid # id
    /\ contents' = contents \cup {[when |-> t, pid |-> id]}
    /\ out' = None

TakeEarliest ==
    \E e \in contents :
        /\ \A f \in contents : e.when <= f.when
        /\ contents' = contents \ {e}
        /\ out' = e

Remove(e) == contents' = contents \ {e} /\ out' = None

Retime(e, t) ==
    /\ contents' = (contents \ {e}) \cup {[e EXCEPT !.when = t]}
    /\ out' = None

Next == \/ \E id \in Ids, t \in Times : Add(id, t)
        \/ TakeEarliest
        \/ \E e \in contents : Remove(e) \/ \E t \in Times : Retime(e, t)

Spec == Init /\ [][Next]_vars
=============================================================================
