--------------------------------- MODULE Asm ---------------------------------
(***************************************************************************)
(* The assembler of core/asm.c: lines become instruction nodes linked in   *)
(* the order of the text, labels are noted in a table in the graph, and    *)
(* references to labels that are not defined yet are chained, in the graph *)
(* too, and patched at the end.                                            *)
(*                                                                         *)
(* An action is one line, or one patch.  The text is a sequence of lines   *)
(* that are told apart by what the parser does with them: tokens, columns  *)
(* and the line numbers of messages are left out.  Lines are not indented. *)
(***************************************************************************)
EXTENDS NodeStore, FiniteSetsExt

CONSTANTS Names,    \* the symbols of texts and graphs
          Sources,  \* the texts
          Users     \* the graphs assembled into: [graph, last_id, roots]

(* An instruction has at most 26 arguments; here, few.                     *)
ArgKeys == <<"syma", "symb", "symc">>

(* What the assembler writes itself.                                       *)
Words == {ArgKeys[i] : i \in DOMAIN ArgKeys}
         \cup {"op", "opcode", "next", "labels", "head", "curr",
               "brefhead", "label", "inst", "symbol", "brefnext"}

Value == ({"ref"} \X Int) \cup ({"sym"} \X Names) \cup ({"int"} \X Int) \cup {Real}

(* A node maps keys to values.                                             *)
IsNode(node) == DOMAIN node \subseteq Names /\ node \in [DOMAIN node -> Value]

(* An object in the text is a number, a symbol, or a label: <<":", l>>.    *)
Labels  == {":"} \X Names
Objects == Labels \cup {val \in Value : ~ Is(val, "ref")}

IsLabel(obj) == obj[1] = ":"

(* A line as the parser takes it; end is how it ends.                      *)
IsLine(line) ==
    /\ line.kind \in {"blank", "comment", "junk", "label", "op"}
    /\ line.kind = "label" => line.name \in Names
    /\ line.kind = "op" => /\ line.args \in Seq(Objects) /\ Len(line.args) <= Len(ArgKeys)
                           /\ line.kvs \in Seq(Names \X Objects)

ASSUME AsmAssumption ==
    /\ Words \subseteq Names
    /\ \A u \in Users :
         /\ u.last_id \in Nat /\ DOMAIN u.graph \subseteq 1 .. u.last_id
         /\ WellFormed(u.graph) /\ \A n \in DOMAIN u.graph : IsNode(u.graph[n])
         /\ u.roots \subseteq DOMAIN u.graph
    /\ \A text \in Sources : text \in Seq({text[i] : i \in DOMAIN text})
                              /\ \A i \in DOMAIN text : IsLine(text[i])

VARIABLES source,  \* the text
          user,    \* the graph before (history)
          at,      \* for each line with an opcode, its number and node (history)
          pc,      \* "start", "parse", "resolve", "done" or "failed"
          pos,     \* the line that is parsed next
          asm      \* the graph, last_id and roots, and the fields of
                   \* ndl_asm_result: root, labels, head, tail, badref

vars == <<source, user, at, pc, pos, asm>>

(***************************************************************************)
(* Operators on an assembler a.                                            *)
(***************************************************************************)
Set(a, n, k, val) == [a EXCEPT !.graph = Put(@, n, k, val)]

(* Mutant: the node that was made last is handed out again.               *)
SallocatedSame(a, base, k) == [a EXCEPT !.graph = Salloc(@, base, k, a.last_id + 1)]

Sallocated(a, base, k) ==
    [a EXCEPT !.graph = Salloc(@, base, k, a.last_id + 1), !.last_id = @ + 1]

(* Mutant: a reference that waits forgets the ones before it.             *)
DelayedAlone(a, label, key) ==
    LET b == Sallocated(a, a.root, "brefhead")
        record == [label |-> Sym(label), inst |-> Ref(a.tail), symbol |-> Sym(key),
                   brefnext |-> Ref(NullRef)]
    IN  [b EXCEPT !.graph[b.last_id] = record, !.badref = b.last_id]

(* Mutant: a reference that waits has itself behind it.                    *)
DelayedTwice(a, label, key) ==
    LET b == Sallocated(a, a.root, "brefhead")
        record == [label |-> Sym(label), inst |-> Ref(a.tail), symbol |-> Sym(key),
                   brefnext |-> Ref(b.last_id)]
    IN  [b EXCEPT !.graph[b.last_id] = record, !.badref = b.last_id]

(* A reference to a label that is not defined is put in front of the list  *)
(* of those that wait.                                                     *)
Delayed(a, label, key) ==
    LET b == Sallocated(a, a.root, "brefhead")
        record == [label |-> Sym(label), inst |-> Ref(a.tail), symbol |-> Sym(key),
                   brefnext |-> Ref(a.badref)]
    IN  [b EXCEPT !.graph[b.last_id] = record, !.badref = b.last_id]

(* The object is stored, the node of a label for the label.                *)
Object(a, key, obj) ==
    LET to == IF IsLabel(obj) THEN Get(a.graph, a.labels, obj[2]) ELSE obj
    IN  IF IsLabel(obj) /\ Is(to, "none") THEN Delayed(a, obj[2], key)
        ELSE Set(a, a.tail, key, to)

(* The objects of the sequence w of pairs <<key, object>> are stored in    *)
(* turn.                                                                   *)
Stored(a, w) ==
    LET done[n \in 0 .. Len(w)] ==
            IF n = 0 THEN a ELSE LET b == done[n - 1] IN Object(b, w[n][1], w[n][2])
    IN  done[Len(w)]

Args(line) == [i \in DOMAIN line.args |-> <<ArgKeys[i], line.args[i]>>]

(* The node of the next instruction is made before the pairs are read,     *)
(* which may overwrite the reference to it.                                *)
Opcode(a, line) ==
    LET args == Stored(Set(a, a.tail, "opcode", Sym("op")), Args(line))
        next == Sallocated(args, a.tail, "next")
    IN  [Stored(next, line.kvs) EXCEPT !.tail = next.last_id]

(* An opcode that ends its line at once: arglist eats the end of the line, *)
(* and what is left of the next line must be what may follow an opcode.    *)
Bare(i) ==
    /\ source[i].kind = "op" /\ source[i].end = "eol"
    /\ source[i].args = <<>> /\ source[i].kvs = <<>>
    /\ i < Len(source)

(***************************************************************************)
(* ndl_asm_parse.                                                          *)
(***************************************************************************)
Start ==
    /\ pc = "start" /\ pc' = "parse"
    /\ LET r == asm.last_id + 1
           nodes == [n \in DOMAIN asm.graph \cup r .. r + 2 |->
                       IF n = r THEN [labels |-> Ref(r + 1), head |-> Ref(r + 2), curr |-> Ref(r + 2)]
                       ELSE IF n > r THEN <<>> ELSE asm.graph[n]]
       IN  asm' = [graph |-> nodes, last_id |-> r + 2, roots |-> asm.roots \cup {r},
                   root |-> r, labels |-> r + 1, head |-> r + 2, tail |-> r + 2,
                   badref |-> NullRef]
    /\ UNCHANGED <<source, user, at, pos>>

(* Mutant: the assembler's root stays a root.                             *)
KilledMarked(a) == [a EXCEPT !.graph = Cleaned(@, a.roots)]

(* What has been assembled is given up.                                    *)
Killed(a) == [a EXCEPT !.roots = @ \ {a.root}, !.graph = Cleaned(@, a.roots \ {a.root})]

Abort(a) == pc' = "failed" /\ asm' = Killed(a) /\ pos' = pos

Lines(n) == pc' = pc /\ pos' = pos + n

ParseEmpty ==
    /\ source[pos].kind \in {"blank", "comment"}
    /\ Lines(1)
    /\ UNCHANGED <<asm, at>>

ParseJunk == source[pos].kind = "junk" /\ Abort(asm) /\ UNCHANGED at

(* A label may be defined again; the table then forgets the first.         *)
ParseMarker ==
    /\ source[pos].kind = "label"
    /\ LET a == Set(asm, asm.labels, source[pos].name, Ref(asm.tail))
       IN  IF source[pos].end = "junk" THEN Abort(a) ELSE asm' = a /\ Lines(1)
    /\ UNCHANGED at

ParseOpcode ==
    LET a     == Opcode(asm, source[pos])
        eaten == Bare(pos)
        fits  == IF eaten THEN source[pos + 1].kind \in {"blank", "comment"}
                 ELSE source[pos].end # "junk"
    IN  /\ source[pos].kind = "op"
        /\ at' = Append(at, [line |-> pos, node |-> asm.tail])
        /\ IF fits THEN asm' = a /\ Lines(IF eaten THEN 2 ELSE 1) ELSE Abort(a)

ParseLine ==
    /\ pc = "parse" /\ pos <= Len(source)
    /\ ParseEmpty \/ ParseJunk \/ ParseMarker \/ ParseOpcode
    /\ UNCHANGED <<source, user>>

(* Without references that wait, nothing is collected.                     *)
ParseEnd ==
    /\ pc = "parse" /\ pos > Len(source)
    /\ pc' = IF asm.badref = NullRef THEN "done" ELSE "resolve"
    /\ UNCHANGED <<source, user, at, pos, asm>>

(* One of the references that wait, the last in the text first.            *)
Resolve ==
    LET delayed == asm.graph[asm.badref]
        dest    == Get(asm.graph, asm.labels, Data(delayed["label"]))
        patched == Set(asm, Data(delayed["inst"]), Data(delayed["symbol"]), dest)
    IN  /\ pc = "resolve" /\ asm.badref # NullRef
        /\ IF Is(dest, "ref")
           THEN asm' = [patched EXCEPT !.badref = Data(delayed["brefnext"])] /\ UNCHANGED <<pc, pos>>
           ELSE Abort(asm)
        /\ UNCHANGED <<source, user, at>>

(* Mutant: the list that was worked through stays in the root.            *)
ListKept(a) == [a EXCEPT !.graph = Cleaned(@, a.roots)]

ListFreed(a) == [a EXCEPT !.graph = Cleaned(Del(@, a.root, "brefhead"), a.roots)]

ResolveEnd ==
    /\ pc = "resolve" /\ asm.badref = NullRef
    /\ pc' = "done"
    /\ asm' = ListFreed(asm)
    /\ UNCHANGED <<source, user, at, pos>>

Init == /\ source \in Sources /\ user \in Users
        /\ at = <<>> /\ pc = "start" /\ pos = 1
        /\ asm = [graph |-> user.graph, last_id |-> user.last_id,
                  roots |-> user.roots, root |-> NullRef, labels |-> NullRef,
                  head |-> NullRef, tail |-> NullRef, badref |-> NullRef]

Next == Start \/ ParseLine \/ ParseEnd \/ Resolve \/ ResolveEnd

Spec == Init /\ [][Next]_vars
-----------------------------------------------------------------------------
(* The graph holds no reference to a node it does not have, and the fields *)
(* of the result name nodes of it as long as it can be used (asm.c:57-89,  *)
(* 222-256, 482-532).                                                      *)
TypeOK ==
    /\ pc \in {"start", "parse", "resolve", "done", "failed"}
    /\ pos \in 1 .. Len(source) + 1
    /\ WellFormed(asm.graph) /\ DOMAIN asm.graph \subseteq 1 .. asm.last_id
    /\ asm.roots \subseteq DOMAIN asm.graph
    /\ pc \in {"parse", "resolve", "done"} =>
         {asm.root, asm.labels, asm.head} \subseteq DOMAIN asm.graph
    /\ pc \in {"parse", "resolve"} => {asm.tail, asm.badref} \ {NullRef} \subseteq DOMAIN asm.graph

(* What the text means.  The node of line i is that of the first           *)
(* instruction from there on, and after the last one there is the tail.    *)
NodeFrom(i) ==
    LET later == {n \in DOMAIN at : at[n].line >= i}
    IN  IF later = {} THEN asm.tail ELSE at[Min(later)].node

Marks(l) == {i \in DOMAIN source : source[i].kind = "label" /\ source[i].name = l}

(* A label that is defined nowhere means nothing.                          *)
Means(obj) ==
    CASE ~ IsLabel(obj)                     -> obj
      [] IsLabel(obj) /\ Marks(obj[2]) # {} -> Ref(NodeFrom(Min(Marks(obj[2]))))
      [] IsLabel(obj) /\ Marks(obj[2]) = {} -> None

(* The pairs that a line writes, as it writes them.                        *)
Writes(line) == Args(line) \o line.kvs

(* No label is there twice, and no pair overwrites a reference to a label. *)
Careful ==
    \A i \in DOMAIN source :
        IF source[i].kind = "label" THEN Cardinality(Marks(source[i].name)) = 1
        ELSE source[i].kind = "op" =>
               LET w == Writes(source[i])
               IN  \A m, n \in DOMAIN w : m < n /\ w[m][1] = w[n][1] => ~IsLabel(w[m][2])

(* The pairs of the instruction of line i: the opcode, the instruction     *)
(* that follows, and what the line writes, the last one counting.          *)
Instruction(i) ==
    LET w      == Writes(source[i])
        key    == {w[n][1] : n \in DOMAIN w}
        last(k) == Max({n \in DOMAIN w : w[n][1] = k})
    IN  [k \in {"opcode", "next"} \cup key |->
            CASE k \in key  -> Means(w[last(k)][2])
              [] k = "opcode" /\ k \notin key -> Sym("op")
              [] k = "next" /\ k \notin key   -> Ref(NodeFrom(i + 1))]

(* A text that assembles becomes the program it says: every line with an   *)
(* opcode one instruction, in order, with the arguments, pairs and labels, *)
(* wherever these are defined (asm.h:6-39).  An instruction that nothing   *)
(* leads to may be gone.                                                   *)
Assembled ==
    pc = "done" /\ Careful =>
        /\ asm.head = NodeFrom(1)
        /\ {at[n].line : n \in DOMAIN at} = {i \in DOMAIN source : source[i].kind = "op"}
        /\ \A n \in DOMAIN at :
             at[n].node \in DOMAIN asm.graph => asm.graph[at[n].node] = Instruction(at[n].line)

(* The references that waited leave no node behind, and what the user had  *)
(* reachable is as it was (asm.c:671-682).                                 *)
DelayedFreed ==
    pc = "done" =>
        /\ DOMAIN asm.graph \subseteq DOMAIN user.graph \cup {asm.root, asm.labels, asm.tail}
                                     \cup {at[n].node : n \in DOMAIN at}
        /\ \A n \in Reach(user.graph, user.roots) :
             n \in DOMAIN asm.graph /\ asm.graph[n] = user.graph[n]

(* A text that does not assemble leaves of the graph what its roots        *)
(* reached before, and nothing else (asm.c:91-101).                        *)
FailureFrees ==
    pc = "failed" => asm.graph = Cleaned(user.graph, user.roots) /\ asm.roots = user.roots

(* Every text is assembled or refused, whatever the labels are: each step  *)
(* gets further in the text or to an older reference, so that both loops   *)
(* come to their end (asm.c:602-669).                                      *)
GetsOn == [][pc' = pc => pos' > pos \/ asm'.badref < asm.badref]_vars
=============================================================================
