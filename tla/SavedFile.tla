----------------------------- MODULE SavedFile -----------------------------
(***************************************************************************)
(* A graph as a file: ndl_graph_to_mem and ndl_graph_from_mem of           *)
(* core/graph.c, with the programs around them.  nodelasm writes: it       *)
(* guesses a size and tries with ever more room.  nodeldump reads the      *)
(* whole file, nodelrun as much as its buffer holds.                       *)
(*                                                                         *)
(* A pool is the sequence of its nodes in the order of its table, a node   *)
(* that of its pairs, hidden ones included.  All numbers are unsigned; the *)
(* file has them with the highest byte first.  A word of a width is cut    *)
(* off at it.  Memory is not exhausted and files can be read and written.  *)
(* Writer and reader go through a file by the same steps: its count, then  *)
(* for every node what it begins with and its pairs.                       *)
(***************************************************************************)
EXTENDS Integers, Sequences, TLC

CONSTANTS Byte,     \* how many values a byte has; 256, smaller for TLC
          Pools,    \* the pools that are saved
          Guess,    \* pairs of a node that the estimate allows for (16)
          Buffers   \* sizes of nodelrun's buffer (FILE_BUFFER_SIZE)

VARIABLE disk  \* [at:   "none", "try", "write", "file", "load", "good" or "bad",
               \*  pool: what is saved (history),
               \*  add:  by how much nodelasm's vector was last made longer,
               \*  size, mem: the vector, the file or what was read of it,
               \*  pos, nodes, pairs: where writer or reader is, how many nodes
               \*        are still to come and how many pairs of the last one,
               \*  node: the node the reader is at,
               \*  read: what it has read: id -> key -> [type, val]]

SavedInit == disk = [at |-> "none", pool |-> <<>>, add |-> 0, size |-> 0, mem |-> <<>>,
                     pos |-> 0, nodes |-> 0, pairs |-> 0, node |-> 0,
                     read |-> [n \in {} |-> n]]

(***************************************************************************)
(* Numbers as bytes: MEMPUSH and MEMPOP.                                   *)
(***************************************************************************)
Power[i \in Nat]      == IF i = 0 THEN 1 ELSE Byte * Power[i - 1]
Digit(v, width, i)    == (v \div Power[width - i]) % Byte
Number(mem, p, width) ==
    LET upto[i \in 0 .. width] == IF i = 0 THEN 0 ELSE Byte * upto[i - 1] + mem[p + i]
    IN  upto[width]

Pushed(f, v, width) ==
    [f EXCEPT !.pos = @ + width,
              !.mem = [b \in 1 .. f.size |-> IF b \in f.pos + 1 .. f.pos + width
                                             THEN Digit(v, width, b - f.pos) ELSE f.mem[b]]]
Popped(f, at, width) == Number(f.mem, f.pos + at, width)

(* Mutant: a last chunk that fits exactly is refused.                     *)
MoreThan(f, n) == f.size - f.pos > n

Enough(f, n) == f.size - f.pos >= n

NodeSize == 6
PairSize == 17

(* A node has an id, and pairs under different keys; a table has an id     *)
(* once.  Keys and values have eight bytes and a type has one.             *)
ASSUME SavedFileAssumption ==
    /\ Byte \in Nat /\ Byte > 1
    /\ Guess \in Nat
    /\ Buffers \subseteq Nat
    /\ LET Pair == [key : 0 .. Power[8] - 1, type : 0 .. Byte - 1, val : 0 .. Power[8] - 1]
       IN  Pools \subseteq Seq([id : Nat, pairs : Seq(Pair)])
    /\ \A pool \in Pools : \A i, j \in DOMAIN pool :
        /\ pool[i].id = pool[j].id => i = j
        /\ \A m, n \in DOMAIN pool[i].pairs :
                pool[i].pairs[m].key = pool[i].pairs[n].key => m = n

(***************************************************************************)
(* Writing.                                                                *)
(***************************************************************************)
MemEst(pool) == 4 + NodeSize * Len(pool) + PairSize * Guess * Len(pool)

Sized(f, n) ==
    [f EXCEPT !.size = n, !.mem = [b \in 1 .. n |-> IF b <= f.size THEN f.mem[b] ELSE 0]]

(* assemble_tomem, up to its first try and from one to the next.           *)
Save(pool) ==
    /\ disk.at = "none"
    /\ disk' = Sized([disk EXCEPT !.at = "try", !.pool = pool, !.add = MemEst(pool)],
                       MemEst(pool))

Again == Sized([disk EXCEPT !.at = "try", !.add = 2 * @, !.pos = 0],
                 disk.size + 2 * disk.add)

(* ndl_graph_to_mem: what does not fit ends the try.                       *)
WriteCount ==
    /\ disk.at = "try"
    /\ disk' = IF Enough(disk, 4)
               THEN [Pushed(disk, Len(disk.pool), 4) EXCEPT
                        !.at = "write", !.nodes = Len(disk.pool), !.pairs = 0]
               ELSE Again

WriteNode ==
    LET node == disk.pool[Len(disk.pool) - disk.nodes + 1]
    IN  /\ disk.at = "write" /\ disk.pairs = 0 /\ disk.nodes > 0
        /\ disk' = IF Enough(disk, NodeSize)
                   THEN [Pushed(Pushed(disk, node.id, 4), Len(node.pairs), 2) EXCEPT
                            !.nodes = @ - 1, !.pairs = Len(node.pairs)]
                   ELSE Again

WritePair ==
    LET pairs == disk.pool[Len(disk.pool) - disk.nodes].pairs
        pair  == pairs[Len(pairs) - disk.pairs + 1]
    IN  /\ disk.at = "write" /\ disk.pairs > 0
        /\ disk' = IF Enough(disk, PairSize)
                   THEN [Pushed(Pushed(Pushed(disk, pair.key, 8), pair.type, 1), pair.val, 8) EXCEPT
                            !.pairs = @ - 1]
                   ELSE Again

(* The vector is cut down to what was written, and saved.                  *)
WriteEnd ==
    /\ disk.at = "write" /\ disk.pairs = 0 /\ disk.nodes = 0
    /\ disk' = [Sized(disk, disk.pos) EXCEPT !.at = "file", !.pos = 0]

(***************************************************************************)
(* Reading.                                                                *)
(***************************************************************************)
(* ndl_graph_from_mem up to its loop, on the first bytes of the file.      *)
FromMem(n) ==
    LET f == Sized([disk EXCEPT !.at = "load"], n)
    IN  /\ disk.at = "file"
        /\ disk' = IF Enough(f, 4) THEN [f EXCEPT !.nodes = Popped(f, 0, 4), !.pos = 4]
                   ELSE [f EXCEPT !.at = "bad"]

RunLoads(buffer) == FromMem(IF disk.size < buffer THEN disk.size ELSE buffer)
DumpLoads        == FromMem(disk.size)

With(f, x, y) == [z \in DOMAIN f \cup {x} |-> IF z = x THEN y ELSE f[z]]

(* ndl_graph_from_mem_node, up to its pairs: an id that is there is refused.*)
LoadNode ==
    LET id == Popped(disk, 0, 4)
    IN  /\ disk.at = "load" /\ disk.pairs = 0 /\ disk.nodes > 0
        /\ disk' = IF Enough(disk, NodeSize) /\ id \notin DOMAIN disk.read
                   THEN [disk EXCEPT !.nodes = @ - 1, !.pos = @ + NodeSize,
                                     !.node = id, !.pairs = Popped(disk, 4, 2),
                                     !.read = With(@, id, [k \in {} |-> k])]
                   ELSE [disk EXCEPT !.at = "bad"]

LoadPair ==
    LET pair == [type |-> Popped(disk, 8, 1), val |-> Popped(disk, 9, 8)]
    IN  /\ disk.at = "load" /\ disk.pairs > 0
        /\ disk' = IF Enough(disk, PairSize)
                   THEN [disk EXCEPT !.pairs = @ - 1, !.pos = @ + PairSize,
                            !.read[disk.node] = With(@, Popped(disk, 0, 8), pair)]
                   ELSE [disk EXCEPT !.at = "bad"]

LoadEnd == /\ disk.at = "load" /\ disk.pairs = 0 /\ disk.nodes = 0
           /\ disk' = [disk EXCEPT !.at = "good"]

SavedNext ==
    \/ \E pool \in Pools : Save(pool)
    \/ WriteCount \/ WriteNode \/ WritePair \/ WriteEnd
    \/ DumpLoads \/ \E buffer \in Buffers : RunLoads(buffer)
    \/ LoadNode \/ LoadPair \/ LoadEnd

-----------------------------------------------------------------------------
(* Nothing in the pool is wider than its place in the file.                *)
FitsFile(pool) ==
    /\ Len(pool) < Power[4]
    /\ \A i \in DOMAIN pool : pool[i].id < Power[4] /\ Len(pool[i].pairs) < Power[2]

(* Where each node ends in the file, and what there is in it.              *)
EndOf(pool) ==
    LET end[i \in 0 .. Len(pool)] ==
            IF i = 0 THEN 4 ELSE end[i - 1] + NodeSize + PairSize * Len(pool[i].pairs)
    IN  end

FileSize(pool) == EndOf(pool)[Len(pool)]

PairsOf(pairs) ==
    [k \in {pairs[j].key : j \in DOMAIN pairs} |->
        LET pair == pairs[CHOOSE j \in DOMAIN pairs : pairs[j].key = k]
        IN  [type |-> pair.type, val |-> pair.val]]

Contents(pool) ==
    [id \in {pool[i].id : i \in DOMAIN pool} |->
        PairsOf(pool[CHOOSE i \in DOMAIN pool : pool[i].id = id].pairs)]

(* A file that is read as a whole gives back the graph that was saved, "as *)
(* well as addressing" (graph.h), and one of which a part is read is       *)
(* refused, wherever it is cut off: no program runs with half a graph.     *)
(* However bad its guess, the writer stops before it has taken twice the   *)
(* room it needs and its guess; and the reader never reads past the end,   *)
(* not even in a file whose counts were cut off.                           *)
FileKeepsGraph ==
    /\ disk.pos <= disk.size
    /\ disk.at \in {"try", "write"} => disk.size < 2 * FileSize(disk.pool) + MemEst(disk.pool)
    /\ FitsFile(disk.pool) =>
        /\ disk.at = "good" => disk.read = Contents(disk.pool)
        /\ disk.at = "bad"  => disk.size < FileSize(disk.pool)
=============================================================================
