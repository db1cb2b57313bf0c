----------------------------- MODULE HashTable -----------------------------
(***************************************************************************)
(* The resizable hash table of container/rehashtable.c over the open       *)
(* addressing one of container/hashtable.c.  A table t is the record       *)
(*   cap     number of buckets,                                            *)
(*   size    number of pairs, as counted,                                  *)
(*   bucket  the buckets; each has the code's marker: 0 never used, 1 in   *)
(*           use, -1 deleted (the key and value left there are not read).  *)
(* Keys are numbers, hashed as the code hashes an 8-byte key.              *)
(*                                                                         *)
(* Every function is one step; TableUse adds clients that hold a pointer   *)
(* into the table over several.  Memory is not exhausted.                  *)
(***************************************************************************)
EXTENDS Integers, FiniteSets

CONSTANTS Keys, Vals,
          MinSize,     \* min_size: the table is never smaller
          MaxCap,      \* bound: the table is never larger
          Overwrites   \* clients put keys that are behind deleted buckets

ASSUME HashAssumption ==
    /\ Keys \subseteq Nat
    /\ MinSize \in Nat \ {0} /\ MaxCap \in Nat /\ MinSize <= MaxCap
    /\ Overwrites \in BOOLEAN

VARIABLE table  \* the table in use

Unused  == [marker |-> 0, key |-> 0, val |-> 0]
Deleted == [marker |-> -1, key |-> 0, val |-> 0]
Used(k, v) == [marker |-> 1, key |-> k, val |-> v]

Created(cap) == [cap |-> cap, size |-> 0, bucket |-> [b \in 0 .. cap - 1 |-> Unused]]

Init == table = Created(MinSize)

(***************************************************************************)
(* hashtable.c.                                                            *)
(***************************************************************************)
First(S) == CHOOSE i \in S : \A j \in S : i <= j

(* The i-th bucket that is probed for k.                                   *)
Probe(t, k, i) == (3 * k + i) % t.cap
At(t, k, i)    == t.bucket[Probe(t, k, i)]

Holds(b, k) == b.marker = 1 /\ b.key = k

(* Mutant: a probe for a key ends at a deleted bucket.                    *)
EndsDeleted(t, k, i) == At(t, k, i).marker # 1 \/ Holds(At(t, k, i), k)

(* The i-th probe ends ndl_hashtable_get: it goes on over used and deleted *)
(* buckets, once round the table.                                          *)
Ends(t, k, i) == At(t, k, i).marker = 0 \/ Holds(At(t, k, i), k)

(* The probe at which get ends, or cap after all of them.                  *)
End(t, k) == CHOOSE i \in 0 .. t.cap :
                (i = t.cap \/ Ends(t, k, i)) /\ \A j \in 0 .. i - 1 : ~ Ends(t, k, j)

Found(t, k) == End(t, k) < t.cap /\ Holds(At(t, k, End(t, k)), k)
Find(t, k)  == Probe(t, k, End(t, k))
Get(t, k)   == t.bucket[Find(t, k)].val

(* Mutant: put takes the first bucket, whatever it holds.                 *)
InsertHome(t, k, v) ==
    [t EXCEPT !.bucket[Probe(t, k, 0)] = Used(k, v),
              !.size = IF At(t, k, 0).marker = 1 THEN @ ELSE @ + 1]

(* ndl_hashtable_put takes the first bucket that is free or holds k.       *)
Insert(t, k, v) ==
    LET stops == {i \in 0 .. t.cap - 1 : At(t, k, i).marker # 1 \/ Holds(At(t, k, i), k)}
        b == Probe(t, k, First(stops))
    IN  IF t.size = t.cap \/ stops = {} THEN t
        ELSE [t EXCEPT !.bucket[b] = Used(k, v),
                       !.size = IF t.bucket[b].marker = 1 THEN @ ELSE @ + 1]

(* Mutant: a deleted bucket is marked as never used.                      *)
DeleteToUnused(t, k) == [t EXCEPT !.bucket[Find(t, k)] = Unused, !.size = @ - 1]

(* Mutant: a deleted pair is counted still.                               *)
DeleteUncounted(t, k) == [t EXCEPT !.bucket[Find(t, k)] = Deleted]

Delete(t, k) == [t EXCEPT !.bucket[Find(t, k)] = Deleted, !.size = @ - 1]

(* ndl_hashtable_copy into a new table, bucket after bucket.               *)
Copied(t, cap) ==
    LET upto[i \in 0 .. t.cap] ==
            IF i = 0 THEN Created(cap)
            ELSE LET b == t.bucket[i - 1] IN
                 IF b.marker = 1 THEN Insert(upto[i - 1], b.key, b.val) ELSE upto[i - 1]
    IN  upto[t.cap]

(***************************************************************************)
(* rehashtable.c.                                                          *)
(***************************************************************************)
Grows(t)   == t.size * 4 >= t.cap * 3
Shrinks(t) == t.cap \div 2 >= MinSize /\ t.size * 16 <= t.cap * 3

(* Mutant: a table shrinks below its least size.                          *)
ShrunkBelow(t) ==
    IF t.cap >= 2 /\ t.size * 16 <= t.cap * 3 THEN Copied(t, t.cap \div 2) ELSE t

Grown(t)  == IF Grows(t) THEN Copied(t, t.cap * 2) ELSE t
Shrunk(t) == IF Shrinks(t) THEN Copied(t, t.cap \div 2) ELSE t

(* k is present, and put would stop at a deleted bucket before it.         *)
Hidden(t, k) ==
    Found(t, k) /\ \E i \in 0 .. End(t, k) - 1 : At(t, k, i).marker = -1

Put(k, v) ==
    /\ Overwrites \/ ~ Hidden(Grown(table), k)
    /\ Grows(table) => table.cap * 2 <= MaxCap
    /\ table' = Insert(Grown(table), k, v)

Del(k) ==
    /\ Found(table, k)
    /\ table' = Shrunk(Delete(table, k))

Next == \E k \in Keys : Del(k) \/ \E v \in Vals : Put(k, v)

Spec == Init /\ [][Next]_table

-----------------------------------------------------------------------------
(* A table is its capacity, its count and that many buckets.               *)
TypeOK ==
    /\ table.cap \in MinSize .. MaxCap
    /\ table.size \in 0 .. table.cap
    /\ table.bucket \in [0 .. table.cap - 1 -> {Unused, Deleted} \cup {Used(k, v) : k \in Keys, v \in Vals}]

(* No pair is out of reach and no key is there twice: from the place its   *)
(* key hashes to, every bucket before it was used once, whatever was       *)
(* deleted, and however the table grew and shrank since.                   *)
Reachable ==
    \A b \in 0 .. table.cap - 1 : table.bucket[b].marker = 1 =>
        /\ Found(table, table.bucket[b].key)
        /\ Find(table, table.bucket[b].key) = b

(* The count is right, and put always finds room: the buckets never run    *)
(* out, though deleted ones are not reclaimed one by one.                  *)
Counted == /\ table.size = Cardinality({b \in 0 .. table.cap - 1 : table.bucket[b].marker = 1})
           /\ Grown(table).size < Grown(table).cap

(* Clients that put no key that is hidden have a map: nothing they put is  *)
(* lost or altered, by deletes, by resizing or through a pointer that put  *)
(* or get returned.                                                        *)
Map == INSTANCE KeyValue WITH
    map <- [k \in {j \in Keys : Found(table, j)} |-> Get(table, k)]
IsMap == Map!Init /\ [][table' = table \/ Map!Next]_table

(* hashtable.h: "del() deletes a key from the hashtable."                  *)
DelDeletes == [][\A k \in Keys : Del(k) => ~ Found(table', k)]_table
=============================================================================
