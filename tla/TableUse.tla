------------------------------ MODULE TableUse ------------------------------
(***************************************************************************)
(* The table of HashTable in the hands of clients that hold a pointer into *)
(* it over several of its operations:                                      *)
(*   a walk over the pairs, with pairs_head and pairs_next, during which   *)
(*   the collector deletes the pair it is at (ndl_graph_clean), or deletes *)
(*   and overwrites others (ndl_graph_clean_remove, when a node refers to  *)
(*   itself);                                                              *)
(*   a pair that is held, read and written through its pointer while       *)
(*   others are put (ndl_proc_step keeps its ndl_proc over FORK's put).    *)
(* A pointer is the bucket it points into.  Once the table is resized it   *)
(* points into freed memory: what happens then is undefined, and the       *)
(* behaviour ends.  One client at a time.                                  *)
(***************************************************************************)
EXTENDS HashTable

VARIABLE use  \* who holds a pointer

Nobody == [by |-> "nobody"]
Walk(at, seen) == [by |-> "walk", at |-> at, seen |-> seen, fresh |-> TRUE]

UseInit == Init /\ use = Nobody

(* ndl_hashtable_bucketscan: the first used bucket from b on, or the end.  *)
Scan(t, b) ==
    LET used == {c \in b .. t.cap - 1 : t.bucket[c].marker = 1}
    IN  IF used = {} THEN t.cap ELSE First(used)

(* Mutant: the walk skips a bucket.                                       *)
PairsSkipping(t, b) == Scan(t, b + 2)

PairsHead(t)    == Scan(t, 0)
PairsNext(t, b) == Scan(t, b + 1)

(* Without a pointer every operation is allowed.                           *)
Operate == use = Nobody /\ Next /\ UNCHANGED use

StartWalk == use = Nobody /\ use' = Walk(PairsHead(table), {}) /\ UNCHANGED table

Walking == use.by = "walk" /\ use.fresh

(* The loop's body at the pair it has come to, and the step to the next.   *)
Visit ==
    /\ Walking /\ use.at < table.cap
    /\ \/ UNCHANGED table
       \/ \E k \in Keys : \/ Del(k)
                          \/ \E v \in Vals : Found(table, k) /\ Put(k, v)
    /\ use' = IF table'.cap = table.cap
              THEN Walk(PairsNext(table', use.at),
                        use.seen \cup {table.bucket[use.at].key})
              ELSE [use EXCEPT !.fresh = FALSE]

EndWalk == Walking /\ use.at = table.cap /\ use' = Nobody /\ UNCHANGED table

Hold(k) ==
    /\ use = Nobody /\ Found(table, k)
    /\ use' = [by |-> "holder", at |-> Find(table, k), key |-> k, val |-> Get(table, k),
               fresh |-> TRUE]
    /\ UNCHANGED table

Holding == use.by = "holder" /\ use.fresh

Write(v) ==
    /\ Holding
    /\ table' = [table EXCEPT !.bucket[use.at].val = v]
    /\ use' = [use EXCEPT !.val = v]

PutNew(k, v) ==
    /\ Holding /\ ~ Found(table, k)
    /\ Put(k, v)
    /\ use' = [use EXCEPT !.fresh = (table'.cap = table.cap)]

Release == Holding /\ use' = Nobody /\ UNCHANGED table

UseNext ==
    \/ Operate
    \/ StartWalk \/ Visit \/ EndWalk
    \/ Release
    \/ \E k \in Keys : Hold(k) \/ \E v \in Vals : PutNew(k, v)
    \/ \E v \in Vals : Write(v)

UseSpec == UseInit /\ [][UseNext]_<<table, use>>

-----------------------------------------------------------------------------
Present(t)  == {k \in Keys : Found(t, k)}
Ahead(t, b) == {t.bucket[c].key : c \in {c \in b .. t.cap - 1 : t.bucket[c].marker = 1}}

(* As long as the table is not resized under it, a walk misses no pair and *)
(* visits none twice, whatever pairs are deleted or overwritten meanwhile: *)
(* the collector's sweep judges every node.                                *)
SweepCovers ==
    use.by = "walk" /\ use.fresh =>
        /\ Present(table) \subseteq use.seen \cup Ahead(table, use.at)
        /\ use.seen \cap Ahead(table, use.at) = {}

(* As long as the table is not resized under it, a pointer to a pair leads *)
(* to that pair, however many pairs are put meanwhile: a process that      *)
(* forks goes on as itself.                                                *)
HeldInPlace ==
    use.by = "holder" /\ use.fresh => table.bucket[use.at] = Used(use.key, use.val)
=============================================================================
