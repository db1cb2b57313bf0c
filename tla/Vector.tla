------------------------------- MODULE Vector -------------------------------
(***************************************************************************)
(* The growing array of container/vector.c, byte by byte.  A vector v is   *)
(* the record                                                              *)
(*   width  elem_size; 0 before ndl_vector_minit,                          *)
(*   count  elem_count,  cap  elem_cap,                                    *)
(*   room   how many bytes its storage has,                                *)
(*   data   the bytes of the elements,                                     *)
(*   list   the elements it should have by vector.h (history),             *)
(*   intact nothing undefined has happened to it (history).                *)
(* All the bytes of an element x are written x here; those that are live   *)
(* and were never written are Junk.  A vector whose elements were torn, or *)
(* whose storage was cut below its capacity, is not used any further: the  *)
(* code would read and write memory that is not its own.  Clients pop only *)
(* what is there, as ndl_heap_delete's do.  Memory is not exhausted.       *)
(***************************************************************************)
EXTENDS Integers, Sequences, FiniteSetsExt

CONSTANTS Widths,   \* sizes of elements
          Lengths,  \* lengths of the ranges that are inserted
          MaxCount, \* bound: a vector has no more elements
          MaxOnes   \* bound: nor more of them that are 1, the others being 0

ASSUME VectorAssumption ==
    /\ Widths \subseteq Nat \ {0} /\ Lengths \subseteq Nat
    /\ MaxCount \in Nat /\ MaxOnes \in Nat

VARIABLE vec

Junk == -1

VecInit == vec = [width |-> 0, count |-> 0, cap |-> 0, room |-> 0,
                  data |-> [b \in {} |-> Junk], list |-> <<>>, intact |-> TRUE]

Create(w) == vec.width = 0 /\ vec' = [vec EXCEPT !.width = w]

(* ndl_vector_grow: at least four, twice the capacity, or so often twice   *)
(* that the range would fit above the old capacity.                        *)
Room(v, d) ==
    IF v.count + d <= v.cap THEN v
    ELSE LET twice[k \in 0 .. d] == IF k = 0 THEN Max({v.cap * 2, 4}) ELSE 2 * twice[k - 1]
             ncap == twice[Min({k \in 0 .. d : twice[k] >= v.cap + d})]
         IN  [v EXCEPT !.cap = ncap, !.room = ncap * v.width]

(* ndl_vector_shrink, which looks at the count before the delete and       *)
(* reallocates to a number of bytes that is the new number of elements.    *)
(* (Its loop never runs: a quarter of the capacity is not above four       *)
(* times it.)                                                              *)
Cut(v, d) ==
    IF v.count + d >= v.cap \div 4 THEN v
    ELSE [v EXCEPT !.cap = @ \div 4, !.room = v.cap \div 4,
                   !.intact = v.width = 1]

(* The bytes of n elements, those beyond the old ones unwritten.           *)
Bytes(v, n) == [b \in 0 .. n * v.width - 1 |-> IF b \in DOMAIN v.data THEN v.data[b] ELSE Junk]

(* ndl_vector_delta, up and down.                                          *)
More(v, d) == [Room(v, d) EXCEPT !.count = v.count + d, !.data = Bytes(v, v.count + d)]
Less(v, d) == IF d = 0 THEN v
              ELSE [Cut(v, d) EXCEPT !.count = v.count - d, !.data = Bytes(v, v.count - d)]

(* memmove of n bytes, and memcpy of the elements s to the index.          *)
Moved(v, dst, src, n) ==
    [v EXCEPT !.data = [b \in DOMAIN @ |->
        IF b \in dst .. dst + n - 1 THEN @[src + b - dst] ELSE @[b]]]
Written(v, index, s) ==
    [v EXCEPT !.data = [b \in DOMAIN @ |->
        LET e == b \div v.width - index + 1 IN IF e \in DOMAIN s THEN s[e] ELSE @[b]]]

Push(v, x) == Written(More(v, 1), v.count, <<x>>)
Pop(v)     == Less(v, 1)

(* insert and delete move as many bytes as there are elements to move.     *)
Tears(v, n) == v.width > 1 /\ n > 0

InsertOne(v, index, x) ==
    LET m == More(v, 1)
        n == m.count - index - 1
    IN  [Written(Moved(m, (index + 1) * v.width, index * v.width, n), index, <<x>>)
            EXCEPT !.intact = @ /\ ~ Tears(v, n)]

DeleteOne(v, index) ==
    LET n == v.count - index - 1
    IN  [Less(Moved(v, index * v.width, (index + 1) * v.width, n), 1)
            EXCEPT !.intact = @ /\ ~ Tears(v, n)]

(* Mutant: the range's functions, too, move bytes for elements.           *)
InsertRangeNarrow(v, index, s) ==
    LET m == More(v, Len(s))
    IN  Written(Moved(m, (index + Len(s)) * v.width, index * v.width,
                      m.count - index - Len(s)), index, s)

InsertRange(v, index, s) ==
    LET m == More(v, Len(s))
    IN  Written(Moved(m, (index + Len(s)) * v.width, index * v.width,
                      (m.count - index - Len(s)) * v.width), index, s)

DeleteRange(v, index, n) ==
    Less(Moved(v, index * v.width, (index + n) * v.width,
               (v.count - index - n) * v.width), n)

(* The same operations on lists: s put before the index, n elements gone.  *)
Before(s, index) == SubSeq(s, 1, index)
After(s, index)  == SubSeq(s, index + 1, Len(s))

Ones(s) == {i \in DOMAIN s : s[i] = 1}
Small(s) == Len(s) <= MaxCount /\ Cardinality(Ones(s)) <= MaxOnes

Becomes(v, list) == Small(list) /\ vec' = [v EXCEPT !.list = list]

Pieces == UNION {[1 .. n -> {0, 1}] : n \in Lengths}

Operation ==
    \/ \E x \in {0, 1} : Becomes(Push(vec, x), Append(vec.list, x))
    \/ vec.count > 0 /\ Becomes(Pop(vec), Before(vec.list, vec.count - 1))
    \/ \E i \in 0 .. vec.count, x \in {0, 1} :
         Becomes(InsertOne(vec, i, x), Before(vec.list, i) \o <<x>> \o After(vec.list, i))
    \/ \E i \in 0 .. vec.count - 1 :
         Becomes(DeleteOne(vec, i), Before(vec.list, i) \o After(vec.list, i + 1))
    \/ \E i \in 0 .. vec.count, s \in Pieces :
         Becomes(InsertRange(vec, i, s), Before(vec.list, i) \o s \o After(vec.list, i))
    \/ \E i \in 0 .. vec.count : \E n \in 0 .. vec.count - i :
         Becomes(DeleteRange(vec, i, n), Before(vec.list, i) \o After(vec.list, i + n))

VecNext == \/ \E w \in Widths : Create(w)
           \/ vec.width > 0 /\ vec.intact /\ Operation

VecSpec == VecInit /\ [][VecNext]_vec

-----------------------------------------------------------------------------
(* The elements are those of the list that vector.h promises, each whole,  *)
(* wherever they were moved and however the storage was replaced; and they *)
(* are within the capacity.  For elements wider than a byte this is so     *)
(* until one is inserted or deleted by itself in the middle, or the vector *)
(* shrinks.                                                                *)
ListLike ==
    vec.intact =>
        /\ vec.count = Len(vec.list) /\ vec.count <= vec.cap
        /\ \A b \in 0 .. vec.count * vec.width - 1 :
                vec.data[b] = vec.list[b \div vec.width + 1]

(* vector.h: "cap() gets the capacity in the current backend."  The        *)
(* storage has room for as many elements as the capacity says.             *)
CapacityHeld == vec.room >= vec.cap * vec.width
=============================================================================
