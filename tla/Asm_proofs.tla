----------------------------- MODULE Asm_proofs -----------------------------
(***************************************************************************)
(* For every text and every graph it is assembled into.                    *)
(***************************************************************************)
EXTENDS Asm, NodeStore_proofs, SequenceTheorems

Nodes  == UNION {[K -> Value] : K \in SUBSET Names}
Graphs == UNION {[D -> Nodes] : D \in SUBSET Int}
Asms   == [graph : Graphs, last_id : Nat, roots : SUBSET Int, root : Int, labels : Int,
           head : Int, tail : Int, badref : Int]

LEMMA NodeTypes ==
    /\ \A node : IsNode(node) <=> node \in Nodes
    /\ <<>> \in Nodes /\ DOMAIN <<>> = {}
<1>1. \A node : IsNode(node) <=> node \in Nodes
  BY DEF IsNode, Nodes
<1>2. <<>> \in [{} -> Value] /\ DOMAIN <<>> = {}
  OBVIOUS
<1> QED BY <1>1, <1>2 DEF Nodes

LEMMA GraphTypes ==
    ASSUME NEW g
    PROVE  g \in Graphs <=> /\ DOMAIN g \subseteq Int /\ g = [n \in DOMAIN g |-> g[n]]
                            /\ \A n \in DOMAIN g : g[n] \in Nodes
<1>1. ASSUME g \in Graphs
      PROVE  DOMAIN g \subseteq Int /\ g = [n \in DOMAIN g |-> g[n]] /\ \A n \in DOMAIN g : g[n] \in Nodes
  <2>1. PICK D \in SUBSET Int : g \in [D -> Nodes]
    BY <1>1 DEF Graphs
  <2> QED BY <2>1
<1>2. ASSUME DOMAIN g \subseteq Int, g = [n \in DOMAIN g |-> g[n]], \A n \in DOMAIN g : g[n] \in Nodes
      PROVE  g \in Graphs
  <2>1. g \in [DOMAIN g -> Nodes]
    BY <1>2
  <2> QED BY <1>2, <2>1 DEF Graphs
<1> QED BY <1>1, <1>2

LEMMA ValueTypes ==
    /\ \A n \in Int : Ref(n) \in Value /\ Ref(n)[1] = "ref" /\ Data(Ref(n)) = n /\ Is(Ref(n), "ref")
    /\ \A s \in Names : Sym(s) \in Value /\ Data(Sym(s)) = s /\ ~ Is(Sym(s), "ref")
    /\ \A val \in Value : val[1] \in {"ref", "sym", "int", "float"}
    /\ \A val \in Value : Is(val, "ref") => \E n \in Int : val = Ref(n)
    /\ \A val \in Value : ~ Is(val, "none")
BY DEF Value, Ref, Sym, Num, Real, Is, Data

LEMMA PutTyped ==
    ASSUME NEW g \in Graphs, NEW n \in DOMAIN g, NEW k \in Names, NEW val \in Value
    PROVE  Put(g, n, k, val) \in Graphs
<1>1. IsNode(g[n]) /\ DOMAIN g \subseteq Int
  BY GraphTypes, NodeTypes
<1> DEFINE node == [j \in DOMAIN g[n] \cup {k} |-> IF j = k THEN val ELSE g[n][j]]
<1>2. IsNode(node)
  BY <1>1 DEF IsNode
<1>3. Put(g, n, k, val) = [g EXCEPT ![n] = node]
  BY DEF Put
<1> HIDE DEF node
<1> QED BY <1>2, <1>3, GraphTypes, NodeTypes

LEMMA AddTyped ==
    ASSUME NEW g \in Graphs, NEW r \in Int
    PROVE  [n \in DOMAIN g \cup {r} |-> IF n = r THEN <<>> ELSE g[n]] \in Graphs
<1> DEFINE h == [n \in DOMAIN g \cup {r} |-> IF n = r THEN <<>> ELSE g[n]]
<1>1. \A n \in DOMAIN g : g[n] \in Nodes /\ n \in Int
  BY GraphTypes
<1>2. \A n \in DOMAIN h : h[n] \in Nodes
  BY <1>1, NodeTypes
<1> QED BY <1>1, <1>2, GraphTypes

LEMMA WordsThere ==
    /\ {"op", "opcode", "next", "label", "inst", "symbol", "brefnext", "brefhead"} \subseteq Names
    /\ {"head", "labels", "curr"} \subseteq Names
    /\ DOMAIN ArgKeys = 1 .. 3 /\ Len(ArgKeys) = 3
    /\ \A i \in 1 .. 3 : ArgKeys[i] \in Names /\ ArgKeys[i] # "next" /\ ArgKeys[i] # "opcode"
<1>1. \A i \in 1 .. 3 : i = 1 \/ i = 2 \/ i = 3
  OBVIOUS
<1>2. ArgKeys[1] = "syma" /\ ArgKeys[2] = "symb" /\ ArgKeys[3] = "symc" /\ DOMAIN ArgKeys = 1 .. 3
      /\ Len(ArgKeys) = 3
  BY DEF ArgKeys
<1> QED BY <1>1, <1>2, AsmAssumption DEF Words

(***************************************************************************)
(* The operations on assemblers, each with all that it does.               *)
(***************************************************************************)
(* b has the roots and fields of a but for what is said otherwise.         *)
Alike(a, b) == /\ b.roots = a.roots /\ b.root = a.root /\ b.labels = a.labels
               /\ b.head = a.head /\ b.tail = a.tail

LEMMA AsmTypes ==
    ASSUME NEW a \in Asms
    PROVE  /\ a.graph \in Graphs /\ a.last_id \in Nat /\ DOMAIN a.graph \subseteq Int
           /\ a.root \in Int /\ a.labels \in Int /\ a.head \in Int /\ a.tail \in Int
           /\ a.badref \in Int
           /\ \A n \in DOMAIN a.graph : IsNode(a.graph[n])
BY GraphTypes, NodeTypes DEF Asms

(* One pair is written.                                                    *)
Wrote(a, b, n, k, val) ==
    /\ b \in Asms /\ Alike(a, b) /\ b.last_id = a.last_id /\ b.badref = a.badref
    /\ DOMAIN b.graph = DOMAIN a.graph
    /\ \A m \in DOMAIN a.graph : m # n => b.graph[m] = a.graph[m]
    /\ DOMAIN b.graph[n] = DOMAIN a.graph[n] \cup {k}
    /\ b.graph[n][k] = val
    /\ \A j \in DOMAIN a.graph[n] : j # k => b.graph[n][j] = a.graph[n][j]

LEMMA SetFacts ==
    ASSUME NEW a \in Asms, NEW n \in DOMAIN a.graph, NEW k \in Names, NEW val \in Value,
           NEW b, b = Set(a, n, k, val)
    PROVE  Wrote(a, b, n, k, val)
<1>1. PICK g \in Graphs : g = Put(a.graph, n, k, val)
  BY PutTyped, AsmTypes
<1>2. b = [a EXCEPT !.graph = g]
  BY <1>1 DEF Set
<1>3. b \in Asms /\ Alike(a, b) /\ b.last_id = a.last_id /\ b.badref = a.badref /\ b.graph = g
  BY <1>2 DEF Asms, Alike
<1>4. /\ DOMAIN g = DOMAIN a.graph
      /\ \A m \in DOMAIN a.graph : m # n => g[m] = a.graph[m]
      /\ DOMAIN g[n] = DOMAIN a.graph[n] \cup {k}
      /\ \A j \in DOMAIN a.graph[n] \cup {k} : g[n][j] = IF j = k THEN val ELSE a.graph[n][j]
  BY <1>1, PutFacts
<1> QED BY <1>3, <1>4 DEF Wrote

(* The new node is empty; the old ones but base are left alone.            *)
Added(a, b, base, k) ==
    /\ b \in Asms /\ Alike(a, b) /\ b.last_id = a.last_id + 1
    /\ DOMAIN b.graph = DOMAIN a.graph \cup {b.last_id}
    /\ \A m \in DOMAIN a.graph : m # base => b.graph[m] = a.graph[m]
    /\ DOMAIN b.graph[base] = DOMAIN a.graph[base] \cup {k}
    /\ b.graph[base][k] = Ref(b.last_id)
    /\ \A j \in DOMAIN a.graph[base] : j # k => b.graph[base][j] = a.graph[base][j]

LEMMA SallocatedFacts ==
    ASSUME NEW a \in Asms, DOMAIN a.graph \subseteq 1 .. a.last_id, NEW base \in DOMAIN a.graph,
           NEW k \in Names, NEW b, b = Sallocated(a, base, k)
    PROVE  Added(a, b, base, k) /\ b.badref = a.badref /\ DOMAIN b.graph[b.last_id] = {}
<1>1. PICK r \in Nat : r = a.last_id + 1
  BY AsmTypes
<1>2. r \notin DOMAIN a.graph
  BY <1>1, AsmTypes
<1>3. PICK h \in Graphs : h = [n \in DOMAIN a.graph \cup {r} |-> IF n = r THEN <<>> ELSE a.graph[n]]
  <2>1. r \in Int /\ a.graph \in Graphs
    BY AsmTypes
  <2> QED BY <2>1, AddTyped
<1>4. base \in DOMAIN h /\ Ref(r) \in Value
  BY <1>3, ValueTypes
<1>5. PICK g \in Graphs : g = Put(h, base, k, Ref(r))
  BY <1>4, PutTyped
<1>6. b = [a EXCEPT !.graph = g, !.last_id = r]
  BY <1>1, <1>3, <1>5 DEF Sallocated, Salloc
<1>7. b \in Asms /\ Alike(a, b) /\ b.last_id = r /\ b.badref = a.badref /\ b.graph = g
  BY <1>6 DEF Asms, Alike
<1>8. /\ DOMAIN g = DOMAIN h
      /\ \A m \in DOMAIN h : m # base => g[m] = h[m]
      /\ DOMAIN g[base] = DOMAIN h[base] \cup {k}
      /\ \A j \in DOMAIN h[base] \cup {k} : g[base][j] = IF j = k THEN Ref(r) ELSE h[base][j]
  BY <1>4, <1>5, PutFacts
<1>9. DOMAIN h = DOMAIN a.graph \cup {r} /\ \A m \in DOMAIN a.graph : h[m] = a.graph[m]
  BY <1>2, <1>3
<1>10. DOMAIN h[r] = {} /\ r # base
  BY <1>2, <1>3, NodeTypes
<1> QED BY <1>1, <1>7, <1>8, <1>9, <1>10 DEF Added

(* The node of a reference that waits.                                     *)
Waits(g, n, label, inst, key, next) ==
    /\ DOMAIN g[n] = {"label", "inst", "symbol", "brefnext"}
    /\ g[n]["label"] = Sym(label) /\ g[n]["inst"] = Ref(inst)
    /\ g[n]["symbol"] = Sym(key) /\ g[n]["brefnext"] = Ref(next)

LEMMA DelayedFacts ==
    ASSUME NEW a \in Asms, DOMAIN a.graph \subseteq 1 .. a.last_id, a.root \in DOMAIN a.graph,
           NEW label \in Names, NEW key \in Names, NEW b, b = Delayed(a, label, key)
    PROVE  /\ Added(a, b, a.root, "brefhead") /\ b.badref = b.last_id
           /\ Waits(b.graph, b.last_id, label, a.tail, key, a.badref)
<1>1. PICK c : c = Sallocated(a, a.root, "brefhead")
  OBVIOUS
<1>2. Added(a, c, a.root, "brefhead") /\ c.badref = a.badref
  BY <1>1, SallocatedFacts, WordsThere
<1>3. c.last_id \in DOMAIN c.graph /\ c.last_id # a.root /\ c \in Asms /\ a.root \in Int
      /\ c.last_id \notin DOMAIN a.graph /\ c.last_id \in Nat /\ c.graph \in Graphs
  BY <1>2, AsmTypes DEF Added
<1> DEFINE rec == [label |-> Sym(label), inst |-> Ref(a.tail), symbol |-> Sym(key),
                   brefnext |-> Ref(a.badref)]
<1>4. /\ DOMAIN rec = {"label", "inst", "symbol", "brefnext"}
      /\ rec["label"] = Sym(label) /\ rec["inst"] = Ref(a.tail)
      /\ rec["symbol"] = Sym(key) /\ rec["brefnext"] = Ref(a.badref)
      /\ rec = [j \in DOMAIN rec |-> rec[j]]
  OBVIOUS
<1> HIDE DEF rec
<1>5. \A j \in DOMAIN rec : rec[j] \in Value /\ j \in Names
  BY <1>4, ValueTypes, AsmTypes, WordsThere
<1>6. rec \in Nodes
  BY <1>4, <1>5, NodeTypes DEF IsNode
<1>7. PICK g : g = [c.graph EXCEPT ![c.last_id] = rec]
  OBVIOUS
<1>8. g \in Graphs /\ DOMAIN g = DOMAIN c.graph /\ g[c.last_id] = rec
      /\ \A m \in DOMAIN c.graph : m # c.last_id => g[m] = c.graph[m]
  BY <1>3, <1>6, <1>7, GraphTypes
<1>9. PICK r \in Int : r = c.last_id
  BY <1>3
<1>0. b = [c EXCEPT !.graph = g, !.badref = r]
  BY <1>1, <1>7, <1>9 DEF Delayed, rec
<1>10. /\ b \in Asms /\ Alike(c, b) /\ b.last_id = c.last_id /\ b.badref = c.last_id
       /\ b.graph = g
  BY <1>3, <1>8, <1>9, <1>0 DEF Asms, Alike
<1>11. Alike(a, b)
  BY <1>2, <1>10 DEF Alike, Added
<1>12. Added(a, b, a.root, "brefhead")
  BY <1>2, <1>3, <1>8, <1>10, <1>11 DEF Added
<1>13. Waits(b.graph, b.last_id, label, a.tail, key, a.badref)
  BY <1>4, <1>8, <1>10 DEF Waits
<1> QED BY <1>10, <1>12, <1>13

(***************************************************************************)
(* What has been built.  The nodes that the assembler has made are its     *)
(* root, the table of labels, the instructions S, and the references that  *)
(* wait.                                                                   *)
(***************************************************************************)
Waiting(u, a, S) == DOMAIN a.graph \ (DOMAIN u.graph \cup {a.root, a.labels} \cup S)

(* c is the last of W before n, or null.                                   *)
Precedes(c, n, W) == /\ c = NullRef \/ (c \in W /\ c < n)
                     /\ \A m \in W : m < n => m <= c

IsDelayed(g, n, S, W) ==
    \E label, key \in Names, inst \in S, next \in W \cup {NullRef} :
        Waits(g, n, label, inst, key, next) /\ Precedes(next, n, W)

Layout(u, a, S) ==
    /\ DOMAIN a.graph \subseteq 1 .. a.last_id
    /\ a.root = u.last_id + 1 /\ a.labels = u.last_id + 2 /\ {a.root, a.labels} \subseteq DOMAIN a.graph
    /\ \A n \in DOMAIN u.graph : n \in DOMAIN a.graph /\ a.graph[n] = u.graph[n]
    /\ a.roots = u.roots \cup {a.root}
    /\ S \subseteq DOMAIN a.graph /\ \A n \in S : n > a.labels
    /\ a.head \in S /\ a.tail \in S

(* Instructions refer to instructions, and so do labels; the root refers   *)
(* to the others.                                                          *)
StepsClosed(a, S)  == \A n \in S : \A k \in DOMAIN a.graph[n] :
                         Is(a.graph[n][k], "ref") => Data(a.graph[n][k]) \in S
LabelsClosed(a, S) == \A k \in DOMAIN a.graph[a.labels] : \E n \in S : a.graph[a.labels][k] = Ref(n)
RootClosed(a, W)   == /\ {"labels", "head"} \subseteq DOMAIN a.graph[a.root]
                      /\ a.graph[a.root]["labels"] = Ref(a.labels)
                      /\ a.graph[a.root]["head"] = Ref(a.head)
                      /\ \A k \in DOMAIN a.graph[a.root] :
                           IF k = "brefhead" THEN \E n \in W : a.graph[a.root][k] = Ref(n)
                           ELSE \E n \in {a.labels, a.head} : a.graph[a.root][k] = Ref(n)

Built(u, a, S) ==
    /\ a \in Asms /\ Layout(u, a, S)
    /\ StepsClosed(a, S) /\ LabelsClosed(a, S) /\ RootClosed(a, Waiting(u, a, S))
    /\ \A n \in Waiting(u, a, S) : IsDelayed(a.graph, n, S, Waiting(u, a, S))
    /\ a.badref \in Waiting(u, a, S) \cup {NullRef}

(* The whole list waits.                                                   *)
Newest(u, a, S) == \A n \in Waiting(u, a, S) : n <= a.badref

LEMMA UserFacts ==
    ASSUME NEW u \in Users
    PROVE  /\ u.last_id \in Nat /\ u.roots \subseteq DOMAIN u.graph
           /\ \A n \in DOMAIN u.graph : n \in 1 .. u.last_id /\ IsNode(u.graph[n])
           /\ WellFormed(u.graph)
BY AsmAssumption

LEMMA BuiltSet ==
    ASSUME NEW u \in Users, NEW S, NEW a, Built(u, a, S), NEW n \in S, NEW k \in Names,
           NEW val \in Value, Is(val, "ref") => Data(val) \in S,
           NEW b, b = Set(a, n, k, val)
    PROVE  Built(u, b, S) /\ Waiting(u, b, S) = Waiting(u, a, S)
<1>1. a \in Asms /\ n \in DOMAIN a.graph
  BY DEF Built, Layout
<1>0. Wrote(a, b, n, k, val)
  BY <1>1, SetFacts
<1>2. /\ b \in Asms /\ Alike(a, b) /\ b.last_id = a.last_id /\ b.badref = a.badref
      /\ DOMAIN b.graph = DOMAIN a.graph
      /\ \A m \in DOMAIN a.graph : m # n => b.graph[m] = a.graph[m]
      /\ DOMAIN b.graph[n] = DOMAIN a.graph[n] \cup {k}
      /\ b.graph[n][k] = val
      /\ \A j \in DOMAIN a.graph[n] : j # k => b.graph[n][j] = a.graph[n][j]
  BY <1>0 DEF Wrote
<1>3. Layout(u, a, S) /\ n > a.labels /\ n \in Int
  BY <1>1, AsmTypes DEF Built, Layout
<1>4. n \notin DOMAIN u.graph /\ n # a.root /\ n # a.labels
  BY <1>3, UserFacts DEF Layout
<1>5. Waiting(u, b, S) = Waiting(u, a, S)
  BY <1>2 DEF Waiting, Alike
<1>6. Layout(u, b, S)
  BY <1>2, <1>3, <1>4 DEF Layout, Alike
<1>7. StepsClosed(b, S)
  BY <1>1, <1>2, <1>3 DEF Built, StepsClosed, Layout
<1>8. LabelsClosed(b, S) /\ RootClosed(b, Waiting(u, a, S))
  <2>1. b.graph[b.labels] = a.graph[a.labels] /\ b.graph[b.root] = a.graph[a.root]
        /\ b.labels = a.labels /\ b.head = a.head
    BY <1>2, <1>3, <1>4 DEF Layout, Alike
  <2> QED BY <2>1 DEF Built, LabelsClosed, RootClosed
<1>9. \A m \in Waiting(u, a, S) : IsDelayed(b.graph, m, S, Waiting(u, a, S))
  <2>1. \A m \in Waiting(u, a, S) : b.graph[m] = a.graph[m]
    BY <1>2 DEF Waiting
  <2> QED BY <2>1 DEF Built, IsDelayed, Waits
<1> QED BY <1>2, <1>5, <1>6, <1>7, <1>8, <1>9 DEF Built

LEMMA BuiltLabel ==
    ASSUME NEW u \in Users, NEW S, NEW a, Built(u, a, S), NEW n \in S, NEW k \in Names,
           NEW b, b = Set(a, a.labels, k, Ref(n))
    PROVE  Built(u, b, S) /\ Waiting(u, b, S) = Waiting(u, a, S)
<1>1. a \in Asms /\ a.labels \in DOMAIN a.graph /\ Ref(n) \in Value /\ n \in Int
  BY ValueTypes, AsmTypes DEF Built, Layout
<1>0. Wrote(a, b, a.labels, k, Ref(n))
  BY <1>1, SetFacts
<1>2. /\ b \in Asms /\ Alike(a, b) /\ b.last_id = a.last_id /\ b.badref = a.badref
      /\ DOMAIN b.graph = DOMAIN a.graph
      /\ \A m \in DOMAIN a.graph : m # a.labels => b.graph[m] = a.graph[m]
      /\ DOMAIN b.graph[a.labels] = DOMAIN a.graph[a.labels] \cup {k}
      /\ b.graph[a.labels][k] = Ref(n)
      /\ \A j \in DOMAIN a.graph[a.labels] : j # k => b.graph[a.labels][j] = a.graph[a.labels][j]
  BY <1>0 DEF Wrote
<1>3. Layout(u, a, S)
  BY DEF Built
<1>4. a.labels \notin DOMAIN u.graph /\ a.labels # a.root /\ a.labels \notin S
  BY <1>1, <1>3, UserFacts, AsmTypes DEF Layout
<1>5. Waiting(u, b, S) = Waiting(u, a, S)
  BY <1>2 DEF Waiting, Alike
<1>6. Layout(u, b, S)
  BY <1>2, <1>3, <1>4 DEF Layout, Alike
<1>7. StepsClosed(b, S)
  BY <1>2, <1>3, <1>4 DEF Built, StepsClosed, Layout
<1>8. LabelsClosed(b, S) /\ RootClosed(b, Waiting(u, a, S))
  <2>1. b.graph[b.root] = a.graph[a.root] /\ b.labels = a.labels /\ b.head = a.head /\ b.root = a.root
    BY <1>2, <1>3, <1>4 DEF Layout, Alike
  <2>2. RootClosed(b, Waiting(u, a, S))
    BY <2>1 DEF Built, RootClosed
  <2>3. LabelsClosed(b, S)
    BY <1>2, <2>1 DEF Built, LabelsClosed
  <2> QED BY <2>2, <2>3
<1>9. \A m \in Waiting(u, a, S) : IsDelayed(b.graph, m, S, Waiting(u, a, S))
  <2>1. \A m \in Waiting(u, a, S) : b.graph[m] = a.graph[m]
    BY <1>2 DEF Waiting
  <2> QED BY <2>1 DEF Built, IsDelayed, Waits
<1> QED BY <1>2, <1>5, <1>6, <1>7, <1>8, <1>9 DEF Built

(* A new instruction is made under one that is there.                      *)
LEMMA BuiltNext ==
    ASSUME NEW u \in Users, NEW S, NEW a, Built(u, a, S), NEW n \in S, NEW k \in Names,
           NEW b, b = Sallocated(a, n, k)
    PROVE  /\ Built(u, b, S \cup {b.last_id})
           /\ Waiting(u, b, S \cup {b.last_id}) = Waiting(u, a, S)
           /\ b.last_id \notin DOMAIN a.graph
<1>1. a \in Asms /\ n \in DOMAIN a.graph /\ Layout(u, a, S) /\ DOMAIN a.graph \subseteq 1 .. a.last_id
  BY DEF Built, Layout
<1>2. Added(a, b, n, k) /\ b.badref = a.badref /\ DOMAIN b.graph[b.last_id] = {}
  BY <1>1, SallocatedFacts
<1>3. PICK r \in Nat : r = b.last_id /\ r = a.last_id + 1
  BY <1>1, <1>2, AsmTypes DEF Added
<1>4. r \notin DOMAIN a.graph /\ n # r /\ n > a.labels /\ n # a.labels /\ n # a.root
      /\ n \notin DOMAIN u.graph
  BY <1>1, <1>3, UserFacts, AsmTypes DEF Layout
<1>5. PICK T : T = S \cup {r}
  OBVIOUS
<1>6. Waiting(u, b, T) = Waiting(u, a, S)
  BY <1>1, <1>2, <1>3, <1>4, <1>5 DEF Waiting, Added, Alike, Layout
<1>7. Layout(u, b, T)
  <2>1. r > a.labels
    BY <1>1, <1>3, <1>4, AsmTypes DEF Layout
  <2>2. DOMAIN b.graph \subseteq 1 .. r
    BY <1>1, <1>2, <1>3, AsmTypes DEF Added
  <2> QED BY <1>1, <1>2, <1>3, <1>4, <1>5, <2>1, <2>2 DEF Layout, Added, Alike
<1>8. StepsClosed(b, T)
  <2> SUFFICES ASSUME NEW m \in T, NEW j \in DOMAIN b.graph[m], Is(b.graph[m][j], "ref")
               PROVE  Data(b.graph[m][j]) \in T
    BY DEF StepsClosed
  <2>1. CASE m = r
    BY <1>2, <1>3, <2>1
  <2>2. CASE m = n
    <3>1. CASE j = k
      BY <1>2, <1>3, <1>5, <2>2, <3>1, ValueTypes DEF Added
    <3>2. CASE j # k
      BY <1>2, <1>5, <2>2, <3>2 DEF Added, Built, StepsClosed
    <3> QED BY <3>1, <3>2
  <2>3. CASE m # r /\ m # n
    BY <1>1, <1>2, <1>5, <2>3 DEF Added, Built, StepsClosed, Layout
  <2> QED BY <2>1, <2>2, <2>3
<1>9. LabelsClosed(b, T) /\ RootClosed(b, Waiting(u, a, S))
  <2>1. b.graph[b.root] = a.graph[a.root] /\ b.labels = a.labels /\ b.head = a.head /\ b.root = a.root
        /\ b.graph[b.labels] = a.graph[a.labels]
    BY <1>1, <1>2, <1>4 DEF Layout, Alike, Added
  <2>2. RootClosed(b, Waiting(u, a, S))
    BY <2>1 DEF Built, RootClosed
  <2>3. LabelsClosed(b, T)
    BY <1>5, <2>1 DEF Built, LabelsClosed
  <2> QED BY <2>2, <2>3
<1>10. \A m \in Waiting(u, a, S) : IsDelayed(b.graph, m, T, Waiting(u, a, S))
  <2>1. \A m \in Waiting(u, a, S) : b.graph[m] = a.graph[m]
    BY <1>2 DEF Waiting, Added
  <2> QED BY <1>5, <2>1 DEF Built, IsDelayed, Waits
<1>11. b \in Asms /\ b.badref = a.badref
  BY <1>2 DEF Added
<1>12. Built(u, b, T)
  BY <1>6, <1>7, <1>8, <1>9, <1>10, <1>11 DEF Built
<1> QED BY <1>3, <1>4, <1>5, <1>6, <1>12

LEMMA BuiltDelayed ==
    ASSUME NEW u \in Users, NEW S, NEW a, Built(u, a, S), Newest(u, a, S),
           NEW label \in Names, NEW key \in Names, NEW b, b = Delayed(a, label, key)
    PROVE  /\ Built(u, b, S) /\ Newest(u, b, S) /\ Alike(a, b)
           /\ Waiting(u, b, S) = Waiting(u, a, S) \cup {b.last_id}
           /\ b.last_id \notin DOMAIN a.graph
           /\ Waits(b.graph, b.last_id, label, a.tail, key, a.badref)
           /\ \A m \in DOMAIN a.graph : m # a.root => b.graph[m] = a.graph[m]
<1>1. a \in Asms /\ a.root \in DOMAIN a.graph /\ Layout(u, a, S)
      /\ DOMAIN a.graph \subseteq 1 .. a.last_id
  BY DEF Built, Layout
<1>2. Added(a, b, a.root, "brefhead") /\ b.badref = b.last_id
      /\ Waits(b.graph, b.last_id, label, a.tail, key, a.badref)
  BY <1>1, DelayedFacts
<1>3. PICK r \in Nat : r = b.last_id /\ r = a.last_id + 1 /\ r = b.badref
  BY <1>1, <1>2, AsmTypes DEF Added
<1>4. PICK W : W = Waiting(u, b, S)
  OBVIOUS
<1>5. /\ r \notin DOMAIN a.graph /\ \A m \in DOMAIN a.graph : m \in Int /\ m < r
      /\ r > a.labels /\ r \notin DOMAIN u.graph /\ r # a.root /\ r # a.labels
      /\ a.root \notin S /\ a.root # a.labels /\ a.root \notin DOMAIN u.graph
  BY <1>1, <1>3, UserFacts, AsmTypes DEF Layout
<1>6. W = Waiting(u, a, S) \cup {r}
  BY <1>1, <1>2, <1>3, <1>4, <1>5 DEF Waiting, Added, Alike, Layout
<1>7. Layout(u, b, S)
  <2>1. DOMAIN b.graph \subseteq 1 .. r
    BY <1>1, <1>2, <1>3, AsmTypes DEF Added
  <2> QED BY <1>1, <1>2, <1>3, <1>5, <2>1 DEF Layout, Added, Alike
<1>8. StepsClosed(b, S) /\ LabelsClosed(b, S)
  <2>1. \A m \in S \cup {a.labels} : b.graph[m] = a.graph[m]
    BY <1>1, <1>2, <1>5 DEF Added, Layout
  <2> QED BY <1>2, <2>1 DEF Added, Alike, Built, StepsClosed, LabelsClosed
<1>9. RootClosed(b, W)
  <2>1. b.labels = a.labels /\ b.head = a.head /\ b.root = a.root
        /\ DOMAIN b.graph[a.root] = DOMAIN a.graph[a.root] \cup {"brefhead"}
        /\ b.graph[a.root]["brefhead"] = Ref(r)
        /\ \A j \in DOMAIN a.graph[a.root] : j # "brefhead" => b.graph[a.root][j] = a.graph[a.root][j]
    BY <1>2, <1>3 DEF Added, Alike
  <2> QED BY <1>6, <2>1 DEF Built, RootClosed
<1>10. \A m \in W : IsDelayed(b.graph, m, S, W)
  <2>1. CASE \A m \in Waiting(u, a, S) : m # r
    <3>1. ASSUME NEW m \in Waiting(u, a, S) PROVE IsDelayed(b.graph, m, S, W)
      <4>1. b.graph[m] = a.graph[m] /\ m < r /\ m \in Int
        BY <1>2, <1>5, <3>1 DEF Waiting, Added
      <4>2. PICK l, k \in Names, inst \in S, next \in Waiting(u, a, S) \cup {NullRef} :
              Waits(a.graph, m, l, inst, k, next) /\ Precedes(next, m, Waiting(u, a, S))
        BY <3>1 DEF Built, IsDelayed
      <4>3. Waits(b.graph, m, l, inst, k, next)
        BY <4>1, <4>2 DEF Waits
      <4>4. Precedes(next, m, W) /\ next \in W \cup {NullRef}
        BY <1>6, <4>1, <4>2 DEF Precedes
      <4> QED BY <4>3, <4>4 DEF IsDelayed
    <3>2. IsDelayed(b.graph, r, S, W)
      <4>1. a.badref \in W \cup {NullRef} /\ a.tail \in S
        BY <1>1, <1>6 DEF Built, Layout
      <4>2. Precedes(a.badref, r, W)
        BY <1>5, <1>6 DEF Built, Newest, Precedes, Waiting
      <4> QED BY <1>2, <1>3, <4>1, <4>2 DEF IsDelayed
    <3> QED BY <1>6, <3>1, <3>2
  <2> QED BY <1>5, <2>1 DEF Waiting
<1>11. Newest(u, b, S)
  BY <1>3, <1>4, <1>5, <1>6 DEF Newest, Waiting
<1>12. b \in Asms /\ b.badref \in W
  BY <1>2, <1>3, <1>6 DEF Added
<1>13. Built(u, b, S)
  BY <1>4, <1>7, <1>8, <1>9, <1>10, <1>12 DEF Built
<1> QED BY <1>2, <1>3, <1>4, <1>5, <1>6, <1>11, <1>13 DEF Added

-----------------------------------------------------------------------------
(***************************************************************************)
(* A line's objects.                                                       *)
(***************************************************************************)
Pairs == Names \X Objects

(* The recursion of Stored, as a function of its own.                      *)
Done(a, w) == CHOOSE done : done = [n \in 0 .. Len(w) |->
    IF n = 0 THEN a ELSE Object(done[n - 1], w[n][1], w[n][2])]

LEMMA StoredIsDone ==
    ASSUME NEW a, NEW w
    PROVE  Stored(a, w) = Done(a, w)[Len(w)]
BY Zenon DEF Stored, Done

(* G relates the number of objects stored to what there is then.           *)
LEMMA StoredInduction ==
    ASSUME NEW w, Len(w) \in Nat, NEW a, NEW G \in SUBSET ((0 .. Len(w)) \X Asms), <<0, a>> \in G,
           \A n \in 1 .. Len(w), b \in Asms :
               <<n - 1, b>> \in G => <<n, Object(b, w[n][1], w[n][2])>> \in G
    PROVE  <<Len(w), Stored(a, w)>> \in G
<1> DEFINE D == 0 .. Len(w)
           F == [n \in D |-> [b \in Asms |->
                    IF <<n - 1, b>> \in G /\ n > 0 THEN Object(b, w[n][1], w[n][2]) ELSE b]]
<1>1. a \in Asms /\ Downward(D)
  BY DEF Downward
<1>2. ASSUME NEW n \in D, NEW b \in Asms
      PROVE  (IF <<n - 1, b>> \in G /\ n > 0 THEN Object(b, w[n][1], w[n][2]) ELSE b) \in Asms
  <2>1. CASE <<n - 1, b>> \in G /\ n > 0
    <3>1. <<n, Object(b, w[n][1], w[n][2])>> \in G
      BY <2>1
    <3> QED BY <2>1, <3>1
  <2>2. CASE ~ (<<n - 1, b>> \in G /\ n > 0)
    BY <2>2
  <2> QED BY <2>1, <2>2
<1>3. F \in [D -> [Asms -> Asms]]
  BY <1>2
<1>4. \A n \in D, b \in Asms : n > 0 /\ <<n - 1, b>> \in G => F[n][b] = Object(b, w[n][1], w[n][2])
  OBVIOUS
<1> HIDE DEF F
<1>5. PICK f \in [D -> Asms] : Loop(f, D, a, F)
  BY <1>1, <1>3, LoopExists
<1>6. f[0] = a /\ \A n \in D : n > 0 => f[n] = F[n][f[n - 1]]
  <2>1. \A n \in D : f[n] = IF n = 0 THEN a ELSE F[n][f[n - 1]]
    BY <1>5, Zenon DEF Loop
  <2>2. 0 \in D
    OBVIOUS
  <2> QED BY <2>1, <2>2
<1> DEFINE Good == {n \in Nat : n \in D => <<n, f[n]>> \in G}
<1>7. 0 \in Good
  BY <1>6
<1>8. ASSUME NEW n \in Nat, n \in Good PROVE n + 1 \in Good
  <2> SUFFICES ASSUME n + 1 \in D PROVE <<n + 1, f[n + 1]>> \in G
    OBVIOUS
  <2>1. n \in D /\ n + 1 - 1 = n /\ n + 1 > 0 /\ n + 1 \in 1 .. Len(w)
    OBVIOUS
  <2>2. <<n, f[n]>> \in G /\ f[n] \in Asms
    BY <1>8, <2>1
  <2>3. f[n + 1] = Object(f[n], w[n + 1][1], w[n + 1][2])
    BY <1>4, <1>6, <2>1, <2>2
  <2> QED BY <2>1, <2>2, <2>3
<1> HIDE DEF Good
<1>9. \A n \in Nat : n \in Good
  BY <1>7, <1>8, SetInduction
<1>10. \A n \in D : <<n, f[n]>> \in G
  BY <1>9 DEF Good
<1>11. ASSUME NEW n \in D, n > 0 PROVE f[n] = Object(f[n - 1], w[n][1], w[n][2])
  <2>1. n - 1 \in D
    BY <1>11
  <2>2. <<n - 1, f[n - 1]>> \in G /\ f[n - 1] \in Asms
    BY <1>10, <2>1
  <2> QED BY <1>4, <1>6, <1>11, <2>2
<1>12. f = [n \in D |-> IF n = 0 THEN a ELSE Object(f[n - 1], w[n][1], w[n][2])]
  BY <1>5, <1>6, <1>11
<1>13. Done(a, w) = [n \in D |-> IF n = 0 THEN a ELSE Object(Done(a, w)[n - 1], w[n][1], w[n][2])]
  BY <1>12 DEF Done
<1>14. PICK h : h = Done(a, w)
  OBVIOUS
<1> DEFINE Same == {n \in Nat : n \in D => h[n] = f[n]}
<1>15. 0 \in Same /\ \A n \in Nat : n \in Same => n + 1 \in Same
  <2>1. h[0] = a
    BY <1>13, <1>14
  <2>2. ASSUME NEW n \in Nat, n \in Same, n + 1 \in D PROVE h[n + 1] = f[n + 1]
    <3>1. n \in D /\ n + 1 - 1 = n /\ n + 1 > 0
      BY <2>2
    <3>2. h[n + 1] = Object(h[n], w[n + 1][1], w[n + 1][2])
      BY <1>13, <1>14, <2>2, <3>1
    <3> QED BY <1>11, <2>2, <3>1, <3>2
  <2> QED BY <1>6, <2>1, <2>2
<1> HIDE DEF Same
<1>16. \A n \in Nat : n \in Same
  BY <1>15, SetInduction
<1>17. h[Len(w)] = f[Len(w)]
  BY <1>16 DEF Same
<1> QED BY <1>10, <1>14, <1>17, StoredIsDone

(* What an object stands for at the moment.                                *)
Now(a, obj) == IF IsLabel(obj) THEN Get(a.graph, a.labels, obj[2]) ELSE obj

LEMMA ObjectCases ==
    ASSUME NEW u \in Users, NEW S, NEW a, Built(u, a, S), NEW k, NEW obj \in Objects,
           NEW b, b = Object(a, k, obj)
    PROVE  \/ /\ Now(a, obj) \in Value /\ (Is(Now(a, obj), "ref") => Data(Now(a, obj)) \in S)
              /\ b = Set(a, a.tail, k, Now(a, obj))
           \/ /\ IsLabel(obj) /\ obj[2] \in Names /\ obj[2] \notin DOMAIN a.graph[a.labels]
              /\ b = Delayed(a, obj[2], k)
<1>1. a.labels \in DOMAIN a.graph /\ a \in Asms
  BY DEF Built, Layout
<1>2. CASE obj \in Labels
  <2>1. IsLabel(obj) /\ obj[2] \in Names
    BY <1>2 DEF Labels, IsLabel
  <2>2. CASE obj[2] \in DOMAIN a.graph[a.labels]
    <3>1. PICK n \in S : Now(a, obj) = Ref(n)
      BY <1>1, <2>1, <2>2 DEF Now, Get, Built, LabelsClosed
    <3>2. n \in Int
      BY AsmTypes, <1>1 DEF Built, Layout
    <3> QED BY <2>1, <3>1, <3>2, ValueTypes DEF Object, Now
  <2>3. CASE obj[2] \notin DOMAIN a.graph[a.labels]
    <3>1. Get(a.graph, a.labels, obj[2]) = None
      BY <2>3 DEF Get
    <3> QED BY <2>1, <2>3, <3>1, NoneFacts DEF Object
  <2> QED BY <2>2, <2>3
<1>3. CASE obj \in Value /\ ~ Is(obj, "ref")
  <2>1. ~ IsLabel(obj)
    BY <1>3, ValueTypes DEF IsLabel
  <2> QED BY <1>3, <2>1 DEF Object, Now
<1> QED BY <1>2, <1>3 DEF Objects

(* The reference that waits at d is one of x, under k, to the label.       *)
Wants(g, d, label, x, k) ==
    g[d]["label"] = Sym(label) /\ g[d]["inst"] = Ref(x) /\ g[d]["symbol"] = Sym(k)

(* The pair k of x is what obj stands for, or waits in D to become it.     *)
Holds(a, D, x, k, obj) ==
    \/ k \in DOMAIN a.graph[x] /\ a.graph[x][k] = Now(a, obj)
    \/ IsLabel(obj) /\ \E d \in D : Wants(a.graph, d, obj[2], x, k)

(* The j-th pair of w is not overwritten up to the m-th.                   *)
Last(w, j, m) == \A i \in j + 1 .. m : w[i][1] # w[j][1]

(* Of the pairs w of the instruction x, m are written, over those given.   *)
Progress(a, D, x, w, m, given) ==
    /\ \A k \in DOMAIN a.graph[x] : k \in DOMAIN given \/ \E j \in 1 .. m : w[j][1] = k
    /\ \A k \in DOMAIN given : (\A j \in 1 .. m : w[j][1] # k) =>
         k \in DOMAIN a.graph[x] /\ a.graph[x][k] = given[k]
    /\ \A j \in 1 .. m : Last(w, j, m) => Holds(a, D, x, w[j][1], w[j][2])
    /\ \A d \in D, label, k \in Names : Wants(a.graph, d, label, x, k) =>
         \E j \in 1 .. m : w[j][1] = k /\ w[j][2] = <<":", label>>

(* What a line may do to what was there: only the tail's node is written,  *)
(* and the references that are put off are the tail's.                     *)
Continues(u, a, b, S) ==
    /\ Alike(a, b)
    /\ Waiting(u, a, S) \subseteq Waiting(u, b, S)
    /\ \A n \in S \cup {a.labels} \cup Waiting(u, a, S) : n # a.tail => b.graph[n] = a.graph[n]
    /\ \A n \in Waiting(u, b, S) : n \in Waiting(u, a, S) \/ b.graph[n]["inst"] = Ref(a.tail)

LEMMA BuiltDistinct ==
    ASSUME NEW u \in Users, NEW S, NEW a, Built(u, a, S)
    PROVE  /\ S \subseteq DOMAIN a.graph /\ a.tail \in S /\ a.labels \notin S /\ a.root \notin S
           /\ a.labels # a.root /\ a.tail \in Int
           /\ a.labels \in DOMAIN a.graph /\ a.root \in DOMAIN a.graph
           /\ \A n \in Waiting(u, a, S) : n \in DOMAIN a.graph /\ n \notin S /\ n # a.labels /\ n # a.root
BY UserFacts, AsmTypes DEF Built, Layout, Waiting

LEMMA ObjectStep ==
    ASSUME NEW u \in Users, NEW S, NEW a, Built(u, a, S), Newest(u, a, S),
           NEW k \in Names, NEW obj \in Objects, NEW b, b = Object(a, k, obj)
    PROVE  /\ Built(u, b, S) /\ Newest(u, b, S) /\ Continues(u, a, b, S)
           /\ \A w, given : \A m \in Nat :
                w[m + 1] = <<k, obj>> /\ Progress(a, Waiting(u, a, S), a.tail, w, m, given)
                  => Progress(b, Waiting(u, b, S), a.tail, w, m + 1, given)
<1>1. /\ S \subseteq DOMAIN a.graph /\ a.tail \in S /\ a.labels \notin S /\ a.root \notin S
      /\ a.labels # a.root /\ a.tail \in Int
      /\ a.labels \in DOMAIN a.graph /\ a.root \in DOMAIN a.graph
      /\ \A n \in Waiting(u, a, S) : n \in DOMAIN a.graph /\ n \notin S /\ n # a.labels /\ n # a.root
  BY BuiltDistinct, Zenon
<1>0. PICK W, val : W = Waiting(u, a, S) /\ val = Now(a, obj)
  OBVIOUS
<1>2. PICK x \in S : x = a.tail /\ W = Waiting(u, a, S) /\ val = Now(a, obj)
  BY <1>0, <1>1
<1>3. CASE val \in Value /\ (Is(val, "ref") => Data(val) \in S) /\ b = Set(a, x, k, val)
  <2>1. Built(u, b, S) /\ Waiting(u, b, S) = W
    BY <1>2, <1>3, BuiltSet
  <2>2. Wrote(a, b, x, k, val)
    BY <1>1, <1>2, <1>3, SetFacts DEF Built
  <2>3. Newest(u, b, S)
    BY <1>2, <2>1, <2>2 DEF Newest, Wrote
  <2>4. /\ Alike(a, b) /\ \A n \in DOMAIN a.graph : n # x => b.graph[n] = a.graph[n]
        /\ DOMAIN b.graph[x] = DOMAIN a.graph[x] \cup {k} /\ b.graph[x][k] = val
        /\ \A j \in DOMAIN a.graph[x] : j # k => b.graph[x][j] = a.graph[x][j]
    BY <2>2 DEF Wrote
  <2>5. Continues(u, a, b, S)
    BY <1>1, <1>2, <2>1, <2>4 DEF Continues
  <2>6. ASSUME NEW w, NEW given, NEW m \in Nat, w[m + 1] = <<k, obj>>,
               Progress(a, W, x, w, m, given)
        PROVE  Progress(b, W, x, w, m + 1, given)
    <3>1. \A o : Now(b, o) = Now(a, o)
      <4>1. b.labels = a.labels /\ b.graph[a.labels] = a.graph[a.labels]
            /\ a.labels \in DOMAIN b.graph
        BY <1>1, <1>2, <2>1, <2>4, BuiltDistinct DEF Alike
      <4> QED BY <1>1, <4>1 DEF Now, Get
    <3>2. \A d \in W : \A l, i : Wants(b.graph, d, l, x, i) <=> Wants(a.graph, d, l, x, i)
      BY <1>1, <1>2, <2>4 DEF Wants
    <3>3. /\ w[m + 1][1] = k /\ w[m + 1][2] = obj /\ m + 1 \in 1 .. m + 1
          /\ \A j \in 1 .. m + 1 : j = m + 1 \/ j \in 1 .. m
          /\ \A j \in 1 .. m : j \in 1 .. m + 1
      BY <2>6
    <3>4. \A j \in DOMAIN b.graph[x] : j \in DOMAIN given \/ \E i \in 1 .. m + 1 : w[i][1] = j
      BY <2>4, <2>6, <3>3 DEF Progress
    <3>5. \A j \in DOMAIN given : (\A i \in 1 .. m + 1 : w[i][1] # j) =>
             j \in DOMAIN b.graph[x] /\ b.graph[x][j] = given[j]
      BY <2>4, <2>6, <3>3 DEF Progress
    <3>6. ASSUME NEW j \in 1 .. m + 1, Last(w, j, m + 1) PROVE Holds(b, W, x, w[j][1], w[j][2])
      <4>1. CASE j = m + 1
        BY <1>2, <2>4, <3>1, <3>3, <4>1 DEF Holds
      <4>2. CASE j \in 1 .. m
        <5>1. Last(w, j, m) /\ w[j][1] # k
          BY <3>3, <3>6, <4>2 DEF Last
        <5>2. Holds(a, W, x, w[j][1], w[j][2])
          BY <2>6, <4>2, <5>1 DEF Progress
        <5> QED BY <2>4, <3>1, <3>2, <5>1, <5>2 DEF Holds
      <4> QED BY <3>3, <4>1, <4>2
    <3>7. ASSUME NEW d \in W, NEW l \in Names, NEW i \in Names, Wants(b.graph, d, l, x, i)
          PROVE  \E j \in 1 .. m + 1 : w[j][1] = i /\ w[j][2] = <<":", l>>
      <4>1. Wants(a.graph, d, l, x, i)
        BY <3>2, <3>7
      <4>2. \E j \in 1 .. m : w[j][1] = i /\ w[j][2] = <<":", l>>
        BY <2>6, <4>1 DEF Progress
      <4> QED BY <3>3, <4>2
    <3> QED BY <3>4, <3>5, <3>6, <3>7 DEF Progress
  <2> QED BY <1>2, <2>1, <2>3, <2>5, <2>6
<1>4. CASE /\ IsLabel(obj) /\ obj[2] \in Names /\ obj[2] \notin DOMAIN a.graph[a.labels]
           /\ b = Delayed(a, obj[2], k)
  <2>0. PICK l \in Names : l = obj[2]
    BY <1>4
  <2>1. PICK r : r = b.last_id /\ l = obj[2]
    BY <2>0
  <2>2. /\ Built(u, b, S) /\ Newest(u, b, S) /\ Alike(a, b)
        /\ Waiting(u, b, S) = W \cup {r} /\ r \notin DOMAIN a.graph
        /\ Waits(b.graph, r, l, x, k, a.badref)
        /\ \A n \in DOMAIN a.graph : n # a.root => b.graph[n] = a.graph[n]
    BY <1>2, <1>4, <2>1, BuiltDelayed
  <2>3. Wants(b.graph, r, l, x, k)
    BY <2>2 DEF Waits, Wants
  <2>4. Continues(u, a, b, S)
    BY <1>1, <1>2, <2>2, <2>3 DEF Continues, Wants
  <2>5. obj = <<":", l>>
    <3>1. obj \in Labels
      BY <1>4, ValueTypes DEF Objects, IsLabel
    <3> QED BY <2>1, <3>1 DEF Labels
  <2>6. ASSUME NEW w, NEW given, NEW m \in Nat, w[m + 1] = <<k, obj>>,
               Progress(a, W, x, w, m, given), NEW V, V = W \cup {r}
        PROVE  Progress(b, V, x, w, m + 1, given)
    <3>1. \A o : Now(b, o) = Now(a, o)
      <4>1. b.labels = a.labels /\ b.graph[a.labels] = a.graph[a.labels]
            /\ a.labels \in DOMAIN b.graph
        BY <1>1, <1>2, <2>2, BuiltDistinct DEF Alike
      <4> QED BY <1>1, <4>1 DEF Now, Get
    <3>2. \A d \in W : \A n, i : Wants(b.graph, d, n, x, i) <=> Wants(a.graph, d, n, x, i)
      BY <1>1, <1>2, <2>2 DEF Wants
    <3>3. /\ w[m + 1][1] = k /\ w[m + 1][2] = obj /\ m + 1 \in 1 .. m + 1
          /\ \A j \in 1 .. m + 1 : j = m + 1 \/ j \in 1 .. m
          /\ \A j \in 1 .. m : j \in 1 .. m + 1
      BY <2>6
    <3>4. b.graph[x] = a.graph[x]
      BY <1>1, <1>2, <2>2
    <3>5. /\ \A j \in DOMAIN b.graph[x] : j \in DOMAIN given \/ \E i \in 1 .. m + 1 : w[i][1] = j
          /\ \A j \in DOMAIN given : (\A i \in 1 .. m + 1 : w[i][1] # j) =>
               j \in DOMAIN b.graph[x] /\ b.graph[x][j] = given[j]
      BY <2>6, <3>3, <3>4 DEF Progress
    <3>6. ASSUME NEW j \in 1 .. m + 1, Last(w, j, m + 1) PROVE Holds(b, V, x, w[j][1], w[j][2])
      <4>1. CASE j = m + 1
        BY <1>4, <2>1, <2>3, <2>6, <3>3, <4>1 DEF Holds
      <4>2. CASE j \in 1 .. m
        <5>1. Last(w, j, m)
          BY <3>3, <3>6, <4>2 DEF Last
        <5>2. Holds(a, W, x, w[j][1], w[j][2])
          BY <2>6, <4>2, <5>1 DEF Progress
        <5> QED BY <2>6, <3>1, <3>2, <3>4, <5>2 DEF Holds
      <4> QED BY <3>3, <4>1, <4>2
    <3>7. ASSUME NEW d \in V, NEW n \in Names, NEW i \in Names, Wants(b.graph, d, n, x, i)
          PROVE  \E j \in 1 .. m + 1 : w[j][1] = i /\ w[j][2] = <<":", n>>
      <4>1. CASE d \in W
        <5>1. Wants(a.graph, d, n, x, i)
          BY <3>2, <3>7, <4>1
        <5>2. \A e \in W, s, t \in Names : Wants(a.graph, e, s, x, t) =>
                \E j \in 1 .. m : w[j][1] = t /\ w[j][2] = <<":", s>>
          BY <2>6, Zenon DEF Progress
        <5>3. \E j \in 1 .. m : w[j][1] = i /\ w[j][2] = <<":", n>>
          BY <4>1, <5>1, <5>2
        <5> QED BY <3>3, <5>3
      <4>2. CASE d = r
        <5>1. n = l /\ i = k
          BY <2>3, <3>7, <4>2, ValueTypes DEF Wants
        <5> QED BY <2>5, <3>3, <5>1
      <4> QED BY <2>6, <4>1, <4>2
    <3> QED BY <3>5, <3>6, <3>7 DEF Progress
  <2> QED BY <1>2, <2>2, <2>4, <2>6
<1> QED BY <1>2, <1>3, <1>4, ObjectCases

LEMMA ContinuesOn ==
    ASSUME NEW u, NEW S, NEW a, NEW b, NEW c, a.tail \in S,
           Continues(u, a, b, S), Continues(u, b, c, S)
    PROVE  Continues(u, a, c, S)
<1>1. /\ Alike(a, b) /\ Waiting(u, a, S) \subseteq Waiting(u, b, S)
      /\ \A n \in S \cup {a.labels} \cup Waiting(u, a, S) : n # a.tail => b.graph[n] = a.graph[n]
      /\ \A n \in Waiting(u, b, S) : n \in Waiting(u, a, S) \/ b.graph[n]["inst"] = Ref(a.tail)
  BY DEF Continues
<1>2. /\ Alike(b, c) /\ Waiting(u, b, S) \subseteq Waiting(u, c, S)
      /\ \A n \in S \cup {a.labels} \cup Waiting(u, b, S) : n # a.tail => c.graph[n] = b.graph[n]
      /\ \A n \in Waiting(u, c, S) : n \in Waiting(u, b, S) \/ c.graph[n]["inst"] = Ref(a.tail)
  BY <1>1 DEF Continues, Alike
<1>3. Alike(a, c) /\ Waiting(u, a, S) \subseteq Waiting(u, c, S)
  BY <1>1, <1>2 DEF Alike
<1>4. \A n \in S \cup {a.labels} \cup Waiting(u, a, S) : n # a.tail => c.graph[n] = a.graph[n]
  BY <1>1, <1>2
<1>5. a.tail \notin Waiting(u, b, S)
  BY DEF Waiting
<1>6. \A n \in Waiting(u, c, S) : n \in Waiting(u, a, S) \/ c.graph[n]["inst"] = Ref(a.tail)
  BY <1>1, <1>2, <1>5
<1> QED BY <1>3, <1>4, <1>6 DEF Continues

LEMMA ContinuesAtOnce ==
    ASSUME NEW u, NEW S, NEW a
    PROVE  Continues(u, a, a, S)
BY DEF Continues, Alike

LEMMA ContinuesKeeps ==
    ASSUME NEW u \in Users, NEW S, NEW a, NEW b, Built(u, a, S), Built(u, b, S), Continues(u, a, b, S)
    PROVE  DOMAIN a.graph \subseteq DOMAIN b.graph
<1> SUFFICES ASSUME NEW n \in DOMAIN a.graph PROVE n \in DOMAIN b.graph
  OBVIOUS
<1>1. n \in Waiting(u, a, S) \/ n \in DOMAIN u.graph \/ n \in {a.root, a.labels} \/ n \in S
  BY DEF Waiting
<1>2. b.root = a.root /\ b.labels = a.labels /\ Waiting(u, a, S) \subseteq Waiting(u, b, S)
  BY DEF Continues, Alike
<1>3. Waiting(u, b, S) \subseteq DOMAIN b.graph
  BY DEF Waiting
<1> QED BY <1>1, <1>2, <1>3 DEF Built, Layout

LEMMA StoredBuilt ==
    ASSUME NEW u \in Users, NEW S, NEW a, Built(u, a, S), Newest(u, a, S),
           NEW w, NEW given, NEW off \in Nat, NEW v \in Seq(Pairs),
           \A n \in 1 .. Len(v) : w[off + n] = v[n]
    PROVE  LET b == Stored(a, v)
           IN  /\ Built(u, b, S) /\ Newest(u, b, S) /\ Continues(u, a, b, S)
               /\ Progress(a, Waiting(u, a, S), a.tail, w, off, given)
                    => Progress(b, Waiting(u, b, S), a.tail, w, off + Len(v), given)
<1> DEFINE P(n, b) == /\ Built(u, b, S) /\ Newest(u, b, S) /\ Continues(u, a, b, S)
                      /\ Progress(a, Waiting(u, a, S), a.tail, w, off, given)
                           => Progress(b, Waiting(u, b, S), a.tail, w, off + n, given)
           G == {p \in (0 .. Len(v)) \X Asms : P(p[1], p[2])}
<1>1. Len(v) \in Nat /\ a \in Asms /\ a.tail \in S
  BY DEF Built, Layout
<1>2. P(0, a)
  <2>1. off + 0 = off
    OBVIOUS
  <2> QED BY <2>1, ContinuesAtOnce
<1>3. ASSUME NEW n \in 1 .. Len(v), NEW b \in Asms, P(n - 1, b)
      PROVE  P(n, Object(b, v[n][1], v[n][2])) /\ Object(b, v[n][1], v[n][2]) \in Asms
  <2>1. PICK k \in Names, obj \in Objects : k = v[n][1] /\ obj = v[n][2] /\ v[n] = <<k, obj>>
    BY DEF Pairs
  <2>2. PICK c : c = Object(b, k, obj)
    OBVIOUS
  <2>3. PICK i \in Nat : i = off + (n - 1)
    OBVIOUS
  <2>4. /\ Built(u, c, S) /\ Newest(u, c, S) /\ Continues(u, b, c, S)
        /\ w[i + 1] = <<k, obj>> /\ Progress(b, Waiting(u, b, S), b.tail, w, i, given)
             => Progress(c, Waiting(u, c, S), b.tail, w, i + 1, given)
    BY <1>3, <2>2, ObjectStep
  <2>5. w[i + 1] = <<k, obj>> /\ i + 1 = off + n /\ b.tail = a.tail
    <3>1. i + 1 = off + n /\ w[off + n] = v[n]
      BY <2>3
    <3> QED BY <1>3, <2>1, <3>1 DEF Continues, Alike
  <2>6. Continues(u, a, c, S) /\ c \in Asms
    BY <1>1, <1>3, <2>4, ContinuesOn DEF Built
  <2> QED BY <1>3, <2>1, <2>2, <2>3, <2>4, <2>5, <2>6
<1>4. <<0, a>> \in G
  BY <1>1, <1>2
<1>5. ASSUME NEW n \in 1 .. Len(v), NEW b \in Asms, <<n - 1, b>> \in G
      PROVE  <<n, Object(b, v[n][1], v[n][2])>> \in G
  <2>1. P(n - 1, b)
    BY <1>5
  <2>2. n \in 0 .. Len(v)
    BY <1>1
  <2> HIDE DEF P
  <2> QED BY <1>3, <2>1, <2>2
<1> HIDE DEF P
<1>6. G \in SUBSET ((0 .. Len(v)) \X Asms)
  OBVIOUS
<1> HIDE DEF G
<1>7. <<Len(v), Stored(a, v)>> \in G
  BY <1>1, <1>4, <1>5, <1>6, StoredInduction
<1>8. P(Len(v), Stored(a, v))
  BY <1>7 DEF G
<1> QED BY <1>8 DEF P

(* Other instructions keep what they have, whatever labels are added.      *)
Beside(a, b, D, E, x) ==
    /\ b.graph[x] = a.graph[x]
    /\ D \subseteq E /\ \A d \in D : b.graph[d] = a.graph[d]
    /\ \A d \in E : d \in D \/ b.graph[d]["inst"] # Ref(x)
    /\ b.labels = a.labels /\ a.labels \in DOMAIN a.graph /\ a.labels \in DOMAIN b.graph
    /\ \A l \in DOMAIN a.graph[a.labels] :
            l \in DOMAIN b.graph[a.labels] /\ b.graph[a.labels][l] = a.graph[a.labels][l]
    /\ \A k \in DOMAIN a.graph[x] : ~ Is(a.graph[x][k], "none")

LEMMA Undisturbed ==
    ASSUME NEW a, NEW b, NEW D, NEW E, NEW x, NEW w, NEW m, NEW given,
           Progress(a, D, x, w, m, given), Beside(a, b, D, E, x)
    PROVE  Progress(b, E, x, w, m, given)
<1>0. /\ b.graph[x] = a.graph[x] /\ D \subseteq E /\ \A d \in D : b.graph[d] = a.graph[d]
      /\ \A d \in E : d \in D \/ b.graph[d]["inst"] # Ref(x)
      /\ b.labels = a.labels /\ a.labels \in DOMAIN a.graph /\ a.labels \in DOMAIN b.graph
      /\ \A l \in DOMAIN a.graph[a.labels] :
            l \in DOMAIN b.graph[a.labels] /\ b.graph[a.labels][l] = a.graph[a.labels][l]
      /\ \A k \in DOMAIN a.graph[x] : ~ Is(a.graph[x][k], "none")
  BY Zenon DEF Beside
<1>1. \A d \in D : \A l, k : Wants(b.graph, d, l, x, k) <=> Wants(a.graph, d, l, x, k)
  BY <1>0 DEF Wants
<1>2. \A o : ~ Is(Now(a, o), "none") => Now(b, o) = Now(a, o)
  BY <1>0, NoneFacts DEF Now, Get
<1>3. \A k, o : Holds(a, D, x, k, o) => Holds(b, E, x, k, o)
  BY <1>0, <1>1, <1>2 DEF Holds
<1>4. ASSUME NEW d \in E, NEW l \in Names, NEW k \in Names, Wants(b.graph, d, l, x, k)
      PROVE  \E j \in 1 .. m : w[j][1] = k /\ w[j][2] = <<":", l>>
  <2>1. d \in D
    BY <1>0, <1>4 DEF Wants
  <2>2. Wants(a.graph, d, l, x, k)
    BY <1>1, <1>4, <2>1
  <2> QED BY <2>1, <2>2 DEF Progress
<1> QED BY <1>0, <1>3, <1>4 DEF Progress

Given(r) == [opcode |-> Sym("op"), next |-> Ref(r)]

(* The instruction x is empty, and nothing waits to be written in it.      *)
Fresh(a, D, x) == DOMAIN a.graph[x] = {} /\ \A d \in D : a.graph[d]["inst"] # Ref(x)

LEMMA LineFacts ==
    ASSUME NEW line, IsLine(line), line.kind = "op"
    PROVE  /\ Args(line) \in Seq(Pairs) /\ line.kvs \in Seq(Pairs) /\ Writes(line) \in Seq(Pairs)
           /\ Len(Writes(line)) = Len(Args(line)) + Len(line.kvs)
           /\ \A n \in 1 .. Len(Args(line)) : /\ Writes(line)[n] = Args(line)[n]
                                              /\ Writes(line)[n][1] \notin {"opcode", "next"}
           /\ \A n \in 1 .. Len(line.kvs) : Writes(line)[Len(Args(line)) + n] = line.kvs[n]
<1>1. line.args \in Seq(Objects) /\ Len(line.args) <= 3 /\ line.kvs \in Seq(Pairs)
  BY WordsThere DEF IsLine, Pairs
<1>2. PICK s \in Seq(Objects) : s = line.args /\ Len(s) \in Nat /\ Len(s) <= 3 /\ DOMAIN s = 1 .. Len(s)
  BY <1>1
<1>3. \A i \in 1 .. Len(s) : /\ s[i] \in Objects /\ ArgKeys[i] \in Names
                             /\ ArgKeys[i] \notin {"opcode", "next"}
  BY <1>2, WordsThere
<1>4. PICK t : t = [i \in 1 .. Len(s) |-> <<ArgKeys[i], s[i]>>]
  OBVIOUS
<1>5. t = Args(line)
  BY <1>2, <1>4 DEF Args
<1>6. t \in [1 .. Len(s) -> Pairs]
  BY <1>3, <1>4 DEF Pairs
<1>7. t \in Seq(Pairs) /\ Len(t) = Len(s)
  BY <1>2, <1>6
<1>8. \A i \in 1 .. Len(t) : t[i][1] \notin {"opcode", "next"}
  BY <1>3, <1>4, <1>7
<1>9. PICK v \in Seq(Pairs) : v = line.kvs
  BY <1>1
<1>10. Writes(line) = t \o v
  BY <1>5, <1>9 DEF Writes
<1>11. /\ t \o v \in Seq(Pairs) /\ Len(t \o v) = Len(t) + Len(v)
       /\ \A n \in 1 .. Len(t) : (t \o v)[n] = t[n]
       /\ \A n \in 1 .. Len(v) : (t \o v)[Len(t) + n] = v[n]
  BY <1>7, <1>9
<1> QED BY <1>1, <1>5, <1>7, <1>8, <1>9, <1>10, <1>11

(* The opcode and its arguments are written.                               *)
LEMMA ArgsBuilt ==
    ASSUME NEW u \in Users, NEW S, NEW a, Built(u, a, S), Newest(u, a, S),
           NEW args \in Seq(Pairs), NEW w, \A n \in 1 .. Len(args) : w[n] = args[n],
           NEW d, d = Stored(Set(a, a.tail, "opcode", Sym("op")), args)
    PROVE  /\ Built(u, d, S) /\ Newest(u, d, S) /\ Continues(u, a, d, S)
           /\ Fresh(a, Waiting(u, a, S), a.tail)
                => Progress(d, Waiting(u, d, S), a.tail, w, Len(args), [opcode |-> Sym("op")])
<1>1. /\ S \subseteq DOMAIN a.graph /\ a.tail \in S /\ a.labels \notin S
      /\ a.labels \in DOMAIN a.graph
      /\ \A n \in Waiting(u, a, S) : n \in DOMAIN a.graph /\ n \notin S
  BY BuiltDistinct
<1>2. PICK x \in S : x = a.tail
  BY <1>1
<1>3. PICK c, given : c = Set(a, x, "opcode", Sym("op")) /\ given = [opcode |-> Sym("op")]
  OBVIOUS
<1>4. Sym("op") \in Value /\ ~ Is(Sym("op"), "ref") /\ "opcode" \in Names
  BY WordsThere, ValueTypes
<1>5. Built(u, c, S) /\ Waiting(u, c, S) = Waiting(u, a, S)
  BY <1>3, <1>4, BuiltSet
<1>6. Wrote(a, c, x, "opcode", Sym("op"))
  BY <1>1, <1>3, <1>4, SetFacts DEF Built
<1>7. Newest(u, c, S) /\ Continues(u, a, c, S) /\ c.tail = x
  BY <1>1, <1>2, <1>5, <1>6 DEF Newest, Continues, Wrote, Alike
<1>8. Fresh(a, Waiting(u, a, S), x) => Progress(c, Waiting(u, c, S), x, w, 0, given)
  <2> SUFFICES ASSUME Fresh(a, Waiting(u, a, S), x)
               PROVE  Progress(c, Waiting(u, a, S), x, w, 0, given)
    BY <1>5
  <2>1. DOMAIN c.graph[x] = {"opcode"} /\ c.graph[x]["opcode"] = Sym("op")
    BY <1>6 DEF Fresh, Wrote
  <2>2. DOMAIN given = {"opcode"} /\ given["opcode"] = Sym("op")
    BY <1>3
  <2>3. \A n \in Waiting(u, a, S) : c.graph[n]["inst"] # Ref(x)
    BY <1>1, <1>2, <1>6 DEF Wrote, Fresh
  <2> QED BY <2>1, <2>2, <2>3 DEF Progress, Wants
<1>9. /\ \A n \in 1 .. Len(args) : w[0 + n] = args[n]
      /\ 0 + Len(args) = Len(args)
  OBVIOUS
<1>10. /\ Built(u, d, S) /\ Newest(u, d, S) /\ Continues(u, c, d, S)
       /\ Progress(c, Waiting(u, c, S), c.tail, w, 0, given)
             => Progress(d, Waiting(u, d, S), c.tail, w, 0 + Len(args), given)
  <2>1. d = Stored(c, args)
    BY <1>2, <1>3
  <2> QED BY <1>5, <1>7, <1>9, <2>1, StoredBuilt
<1>11. Continues(u, a, d, S)
  BY <1>1, <1>7, <1>10, ContinuesOn
<1> QED BY <1>2, <1>3, <1>7, <1>8, <1>9, <1>10, <1>11

(* The node of the next instruction, r, is made.                           *)
NextDone(u, d, e, S, r) ==
    /\ Built(u, e, S \cup {r}) /\ Newest(u, e, S \cup {r}) /\ Alike(d, e)
    /\ r \in Nat /\ r \notin DOMAIN d.graph /\ DOMAIN e.graph[r] = {}
    /\ Waiting(u, e, S \cup {r}) = Waiting(u, d, S)
    /\ \A n \in DOMAIN d.graph : n # d.tail => e.graph[n] = d.graph[n]
    /\ \A w : \A m \in Nat :
         (/\ \A n \in 1 .. m : w[n][1] \notin {"opcode", "next"}
          /\ Progress(d, Waiting(u, d, S), d.tail, w, m, [opcode |-> Sym("op")]))
         => Progress(e, Waiting(u, d, S), d.tail, w, m, Given(r))

LEMMA NextBuilt ==
    ASSUME NEW u \in Users, NEW S, NEW d, Built(u, d, S), Newest(u, d, S),
           NEW e, e = Sallocated(d, d.tail, "next"), NEW r, r = e.last_id
    PROVE  NextDone(u, d, e, S, r)
<1>1. /\ S \subseteq DOMAIN d.graph /\ d.tail \in S /\ d.labels \notin S
      /\ d.labels \in DOMAIN d.graph
      /\ \A n \in Waiting(u, d, S) : n \in DOMAIN d.graph /\ n \notin S
  BY BuiltDistinct
<1>0. PICK W : W = Waiting(u, d, S)
  OBVIOUS
<1>2. PICK x \in S : x = d.tail /\ W = Waiting(u, d, S)
  BY <1>0, <1>1
<1>3. d \in Asms /\ DOMAIN d.graph \subseteq 1 .. d.last_id /\ "next" \in Names
  BY WordsThere DEF Built, Layout
<1>4. Added(d, e, x, "next") /\ e.badref = d.badref /\ DOMAIN e.graph[e.last_id] = {}
  BY <1>1, <1>2, <1>3, SallocatedFacts
<1>5. Built(u, e, S \cup {r}) /\ Waiting(u, e, S \cup {r}) = W /\ r \notin DOMAIN d.graph
  BY <1>1, <1>2, <1>3, BuiltNext
<1>6. Newest(u, e, S \cup {r})
  BY <1>2, <1>4, <1>5 DEF Newest
<1>7. r \in Nat
  BY <1>4, AsmTypes DEF Added
<1>8. ASSUME NEW w, NEW m \in Nat, \A n \in 1 .. m : w[n][1] \notin {"opcode", "next"},
             Progress(d, W, x, w, m, [opcode |-> Sym("op")])
      PROVE  Progress(e, W, x, w, m, Given(r))
  <2>1. /\ \A n \in DOMAIN d.graph : n # x => e.graph[n] = d.graph[n]
        /\ DOMAIN e.graph[x] = DOMAIN d.graph[x] \cup {"next"} /\ e.graph[x]["next"] = Ref(r)
        /\ \A j \in DOMAIN d.graph[x] : j # "next" => e.graph[x][j] = d.graph[x][j]
    BY <1>4 DEF Added
  <2>2. \A o : Now(e, o) = Now(d, o)
    <3>1. e.labels = d.labels /\ e.graph[d.labels] = d.graph[d.labels] /\ d.labels \in DOMAIN e.graph
      BY <1>1, <1>2, <1>4, <2>1 DEF Added, Alike
    <3> QED BY <1>1, <3>1 DEF Now, Get
  <2>3. \A n \in W : \A l, i : Wants(e.graph, n, l, x, i) <=> Wants(d.graph, n, l, x, i)
    BY <1>1, <1>2, <2>1 DEF Wants
  <2>4. PICK old, new : old = [opcode |-> Sym("op")] /\ new = Given(r)
    OBVIOUS
  <2>5. /\ DOMAIN old = {"opcode"} /\ old["opcode"] = Sym("op")
        /\ DOMAIN new = {"opcode", "next"} /\ new["opcode"] = Sym("op") /\ new["next"] = Ref(r)
    BY <2>4 DEF Given
  <2>6. Progress(d, W, x, w, m, old)
    BY <1>8, <2>4
  <2>7. \A j \in DOMAIN e.graph[x] : j \in DOMAIN new \/ \E i \in 1 .. m : w[i][1] = j
    BY <2>1, <2>5, <2>6 DEF Progress
  <2>8. "opcode" \in DOMAIN d.graph[x] /\ d.graph[x]["opcode"] = Sym("op")
    BY <1>8, <2>5, <2>6 DEF Progress
  <2>9. \A j \in DOMAIN new : j \in DOMAIN e.graph[x] /\ e.graph[x][j] = new[j]
    BY <2>1, <2>5, <2>8
  <2>10. ASSUME NEW j \in 1 .. m, Last(w, j, m) PROVE Holds(e, W, x, w[j][1], w[j][2])
    <3>1. Holds(d, W, x, w[j][1], w[j][2]) /\ w[j][1] # "next"
      BY <1>8, <2>6, <2>10 DEF Progress
    <3> QED BY <2>1, <2>2, <2>3, <3>1 DEF Holds
  <2>11. \A n \in W, l, i \in Names : Wants(e.graph, n, l, x, i) =>
            \E j \in 1 .. m : w[j][1] = i /\ w[j][2] = <<":", l>>
    BY <2>3, <2>6 DEF Progress
  <2>12. Progress(e, W, x, w, m, new)
    BY <2>7, <2>9, <2>10, <2>11 DEF Progress
  <2> QED BY <2>4, <2>12
<1>9. Alike(d, e) /\ \A n \in DOMAIN d.graph : n # d.tail => e.graph[n] = d.graph[n]
  BY <1>2, <1>4 DEF Added
<1>10. DOMAIN e.graph[r] = {}
  BY <1>4
<1> QED BY <1>2, <1>5, <1>6, <1>7, <1>8, <1>9, <1>10 DEF NextDone

(* The tail is somewhere else; nothing else is.                            *)
LEMMA TailMoves ==
    ASSUME NEW u, NEW S, NEW a, Built(u, a, S), NEW r \in S, r \in Int,
           NEW b, b = [a EXCEPT !.tail = r]
    PROVE  /\ Built(u, b, S) /\ b.tail = r /\ b.graph = a.graph /\ Waiting(u, b, S) = Waiting(u, a, S)
           /\ b.root = a.root /\ b.labels = a.labels /\ b.head = a.head /\ b.roots = a.roots
           /\ b.badref = a.badref
           /\ \A x \in S : \A D, w, m, given :
                Progress(a, D, x, w, m, given) => Progress(b, D, x, w, m, given)
<1>1. a \in Asms
  BY DEF Built
<1>2. /\ b \in Asms /\ b.tail = r /\ b.graph = a.graph /\ b.root = a.root /\ b.labels = a.labels
      /\ b.head = a.head /\ b.roots = a.roots /\ b.badref = a.badref /\ b.last_id = a.last_id
  BY <1>1 DEF Asms
<1>3. Waiting(u, b, S) = Waiting(u, a, S)
  BY <1>2 DEF Waiting
<1>4. Layout(u, b, S) /\ StepsClosed(b, S) /\ LabelsClosed(b, S) /\ RootClosed(b, Waiting(u, a, S))
  BY <1>2 DEF Built, Layout, StepsClosed, LabelsClosed, RootClosed
<1>5. Built(u, b, S)
  BY <1>2, <1>3, <1>4 DEF Built
<1>6. a.labels \in DOMAIN a.graph
      /\ \A x \in S : \A k \in DOMAIN a.graph[x] : ~ Is(a.graph[x][k], "none")
  BY <1>1, AsmTypes, ValueTypes DEF Built, Layout, IsNode
<1>7. ASSUME NEW x \in S, NEW D, NEW w, NEW m, NEW given, Progress(a, D, x, w, m, given)
      PROVE  Progress(b, D, x, w, m, given)
  <2>1. Beside(a, b, D, D, x)
    BY <1>2, <1>6 DEF Beside
  <2> QED BY <1>7, <2>1, Undisturbed
<1> QED BY <1>2, <1>3, <1>5, <1>7

(* A line with an opcode: b is what it makes of a, r the new tail.         *)
OpcodeDone(u, a, b, S, r, line) ==
    /\ Built(u, b, S \cup {r}) /\ Newest(u, b, S \cup {r}) /\ r \notin DOMAIN a.graph /\ b.tail = r
    /\ b.root = a.root /\ b.labels = a.labels /\ b.head = a.head /\ b.roots = a.roots
    /\ Waiting(u, a, S) \subseteq Waiting(u, b, S \cup {r})
    /\ \A n \in S \cup {a.labels} \cup Waiting(u, a, S) : n # a.tail => b.graph[n] = a.graph[n]
    /\ \A n \in Waiting(u, b, S \cup {r}) : n \in Waiting(u, a, S) \/ b.graph[n]["inst"] = Ref(a.tail)
    /\ DOMAIN b.graph[r] = {}
    /\ Fresh(a, Waiting(u, a, S), a.tail) =>
         Progress(b, Waiting(u, b, S \cup {r}), a.tail, Writes(line), Len(Writes(line)), Given(r))

LEMMA OpcodeBuilt ==
    ASSUME NEW u \in Users, NEW S, NEW a, Built(u, a, S), Newest(u, a, S),
           NEW line, IsLine(line), line.kind = "op", NEW b, b = Opcode(a, line)
    PROVE  \E r \in Nat : OpcodeDone(u, a, b, S, r, line)
<1>1. PICK args, kvs, w : args = Args(line) /\ kvs = line.kvs /\ w = Writes(line)
  OBVIOUS
<1>2. /\ args \in Seq(Pairs) /\ kvs \in Seq(Pairs)
      /\ Len(w) = Len(args) + Len(kvs)
      /\ \A n \in 1 .. Len(args) : w[n] = args[n] /\ w[n][1] \notin {"opcode", "next"}
      /\ \A n \in 1 .. Len(kvs) : w[Len(args) + n] = kvs[n]
  BY <1>1, LineFacts, Zenon
<1>3. Len(args) \in Nat
  BY <1>2
<1>4. PICK d : d = Stored(Set(a, a.tail, "opcode", Sym("op")), args)
  OBVIOUS
<1>5. PICK e : e = Sallocated(d, a.tail, "next")
  OBVIOUS
<1>6. PICK r : r = e.last_id
  OBVIOUS
<1>7. PICK f : f = Stored(e, kvs)
  OBVIOUS
<1>8. b = [f EXCEPT !.tail = r]
  BY <1>1, <1>4, <1>5, <1>6, <1>7, Zenon DEF Opcode
<1>9. PICK x, T : x = a.tail /\ T = S \cup {r}
  OBVIOUS
<1>10. /\ Built(u, d, S) /\ Newest(u, d, S) /\ Continues(u, a, d, S)
       /\ Fresh(a, Waiting(u, a, S), x)
            => Progress(d, Waiting(u, d, S), x, w, Len(args), [opcode |-> Sym("op")])
  BY <1>2, <1>4, <1>9, ArgsBuilt
<1>11. d.tail = x /\ DOMAIN a.graph \subseteq DOMAIN d.graph
  BY <1>9, <1>10, ContinuesKeeps DEF Continues, Alike
<1>12. /\ Built(u, e, T) /\ Newest(u, e, T) /\ Alike(d, e)
       /\ r \in Nat /\ r \notin DOMAIN d.graph /\ DOMAIN e.graph[r] = {}
       /\ Waiting(u, e, T) = Waiting(u, d, S)
       /\ \A n \in DOMAIN d.graph : n # x => e.graph[n] = d.graph[n]
       /\ Progress(d, Waiting(u, d, S), x, w, Len(args), [opcode |-> Sym("op")])
            => Progress(e, Waiting(u, e, T), x, w, Len(args), Given(r))
  <2>1. Built(u, d, S) /\ Newest(u, d, S) /\ e = Sallocated(d, d.tail, "next")
    BY <1>5, <1>9, <1>10, <1>11
  <2>2. NextDone(u, d, e, S, r)
    BY <1>6, <2>1, NextBuilt
  <2>3. \A n \in 1 .. Len(args) : w[n][1] \notin {"opcode", "next"}
    BY <1>2
  <2>4. Progress(d, Waiting(u, d, S), x, w, Len(args), [opcode |-> Sym("op")])
          => Progress(e, Waiting(u, d, S), x, w, Len(args), Given(r))
    BY <1>3, <1>11, <2>2, <2>3 DEF NextDone
  <2> QED BY <1>9, <1>11, <2>2, <2>4 DEF NextDone
<1>14. e.tail = x
  BY <1>11, <1>12 DEF Alike
<1>15. /\ Built(u, f, T) /\ Newest(u, f, T) /\ Continues(u, e, f, T)
       /\ Progress(e, Waiting(u, e, T), x, w, Len(args), Given(r))
            => Progress(f, Waiting(u, f, T), x, w, Len(args) + Len(kvs), Given(r))
  <2>1. Built(u, e, T) /\ Newest(u, e, T) /\ kvs \in Seq(Pairs)
    BY <1>2, <1>12
  <2>2. PICK off \in Nat : off = Len(args)
    BY <1>3
  <2>5. PICK given : given = Given(r)
    OBVIOUS
  <2>3. \A n \in 1 .. Len(kvs) : w[off + n] = kvs[n]
    BY <1>2, <2>2
  <2>4. /\ Built(u, f, T) /\ Newest(u, f, T) /\ Continues(u, e, f, T)
        /\ Progress(e, Waiting(u, e, T), e.tail, w, off, given)
             => Progress(f, Waiting(u, f, T), e.tail, w, off + Len(kvs), given)
    BY <1>7, <2>1, <2>3, StoredBuilt
  <2> QED BY <1>14, <2>2, <2>4, <2>5
<1>16. /\ Built(u, b, T) /\ b.tail = r /\ b.graph = f.graph /\ Waiting(u, b, T) = Waiting(u, f, T)
       /\ b.root = f.root /\ b.labels = f.labels /\ b.head = f.head /\ b.roots = f.roots
       /\ b.badref = f.badref
       /\ Progress(f, Waiting(u, f, T), x, w, Len(w), Given(r))
            => Progress(b, Waiting(u, f, T), x, w, Len(w), Given(r))
  <2>1. x \in T /\ r \in T /\ r \in Int
    BY <1>9, <1>10, <1>12 DEF Built, Layout
  <2> QED BY <1>8, <1>15, <2>1, TailMoves
<1>17. Fresh(a, Waiting(u, a, S), x) => Progress(b, Waiting(u, b, T), x, w, Len(w), Given(r))
  BY <1>2, <1>10, <1>12, <1>15, <1>16
<1>18. /\ b.root = a.root /\ b.labels = a.labels /\ b.head = a.head /\ b.roots = a.roots
       /\ Newest(u, b, T)
  BY <1>10, <1>12, <1>15, <1>16 DEF Continues, Alike, Newest
<1>19. Waiting(u, a, S) \subseteq Waiting(u, b, T)
  BY <1>10, <1>12, <1>15, <1>16 DEF Continues
<1>20. /\ a.labels \in DOMAIN a.graph /\ S \subseteq DOMAIN a.graph /\ a.tail \in S
       /\ \A n \in Waiting(u, d, S) : n \in DOMAIN d.graph /\ n \notin S
  BY <1>10, BuiltDistinct, Zenon
<1>21. r \notin DOMAIN a.graph /\ r # x
  BY <1>9, <1>11, <1>12, <1>20
<1>22. ASSUME NEW n \in S \cup {a.labels} \cup Waiting(u, a, S), n # x PROVE b.graph[n] = a.graph[n]
  <2>1. d.graph[n] = a.graph[n] /\ n \in DOMAIN d.graph
    BY <1>9, <1>10, <1>11, <1>20, <1>22 DEF Continues
  <2>2. e.graph[n] = d.graph[n]
    BY <1>12, <1>22, <2>1
  <2>3. n \in T \cup {e.labels} \cup Waiting(u, e, T)
    BY <1>9, <1>10, <1>12 DEF Continues, Alike
  <2>4. f.graph[n] = e.graph[n]
    BY <1>14, <1>15, <1>22, <2>3 DEF Continues
  <2> QED BY <1>16, <2>1, <2>2, <2>4
<1>23. ASSUME NEW n \in Waiting(u, b, T), n \notin Waiting(u, a, S) PROVE b.graph[n]["inst"] = Ref(x)
  <2>1. CASE n \in Waiting(u, e, T)
    <3>1. d.graph[n]["inst"] = Ref(x) /\ n \in DOMAIN d.graph /\ n # x
      BY <1>9, <1>10, <1>12, <1>20, <1>23, <2>1 DEF Continues
    <3>2. f.graph[n] = e.graph[n]
      BY <1>14, <1>15, <2>1, <3>1 DEF Continues
    <3> QED BY <1>12, <1>16, <3>1, <3>2
  <2>2. CASE n \notin Waiting(u, e, T)
    BY <1>14, <1>15, <1>16, <2>2 DEF Continues
  <2> QED BY <2>1, <2>2
<1>24. DOMAIN b.graph[r] = {}
  <2>1. f.graph[r] = e.graph[r]
    BY <1>9, <1>14, <1>15, <1>21 DEF Continues
  <2> QED BY <1>12, <1>16, <2>1
<1>25. OpcodeDone(u, a, b, S, r, line)
  BY <1>1, <1>9, <1>16, <1>17, <1>18, <1>19, <1>21, <1>22, <1>23, <1>24 DEF OpcodeDone
<1> QED BY <1>12, <1>25

-----------------------------------------------------------------------------
(***************************************************************************)
(* What is left at the end.                                                *)
(***************************************************************************)
LEMMA ChildrenOf ==
    ASSUME NEW g, NEW n
    PROVE  \A c : c \in Children(g, n) <=>
             \E k \in DOMAIN g[n] : Is(g[n][k], "ref") /\ Data(g[n][k]) # NullRef /\ c = Data(g[n][k])
BY DEF Children, NonNull

LEMMA UserReach ==
    ASSUME NEW u \in Users
    PROVE  /\ IsFiniteSet(DOMAIN u.graph)
           /\ \A n \in DOMAIN u.graph : Children(u.graph, n) \subseteq DOMAIN u.graph
           /\ Reach(u.graph, u.roots) \subseteq DOMAIN u.graph
           /\ u.roots \subseteq Reach(u.graph, u.roots)
           /\ \A n \in Reach(u.graph, u.roots) :
                Children(u.graph, n) \subseteq Reach(u.graph, u.roots)
<1>1. IsFiniteSet(1 .. u.last_id) /\ DOMAIN u.graph \subseteq 1 .. u.last_id
  BY UserFacts, FS_Interval
<1>2. IsFiniteSet(DOMAIN u.graph)
  BY <1>1, FS_Subset
<1>3. \A n \in DOMAIN u.graph : Children(u.graph, n) \subseteq DOMAIN u.graph
  BY UserFacts DEF WellFormed, Children
<1>4. Reach(u.graph, u.roots) \subseteq DOMAIN u.graph /\ u.roots \subseteq Reach(u.graph, u.roots)
  BY <1>2, UserFacts, ReachStarts
<1>5. ClosedIn(u.graph, Reach(u.graph, u.roots))
  BY <1>2, ReachCloses
<1> QED BY <1>2, <1>3, <1>4, <1>5 DEF ClosedIn

LEMMA BuiltGraph ==
    ASSUME NEW u \in Users, NEW S, NEW a, Built(u, a, S)
    PROVE  /\ IsFiniteSet(DOMAIN a.graph) /\ WellFormed(a.graph)
           /\ \A n \in DOMAIN u.graph : Children(a.graph, n) = Children(u.graph, n)
           /\ \A n \in S : Children(a.graph, n) \subseteq S
           /\ Children(a.graph, a.labels) \subseteq S
           /\ \A n \in DOMAIN a.graph : Children(a.graph, n) \subseteq DOMAIN a.graph
<1>0. a \in Asms /\ a.last_id \in Nat /\ DOMAIN a.graph \subseteq 1 .. a.last_id
  BY AsmTypes DEF Built, Layout
<1>1. IsFiniteSet(1 .. a.last_id) /\ DOMAIN a.graph \subseteq 1 .. a.last_id
  <2>1. PICK r \in Nat : r = a.last_id
    BY <1>0
  <2>2. IsFiniteSet(1 .. r)
    BY FS_Interval
  <2> QED BY <1>0, <2>1, <2>2
<1>2. IsFiniteSet(DOMAIN a.graph)
  BY <1>1, FS_Subset
<1>3. \A n \in DOMAIN u.graph : Children(a.graph, n) = Children(u.graph, n)
  BY DEF Built, Layout, Children
<1>4. \A n \in S : Children(a.graph, n) \subseteq S
  BY ChildrenOf DEF Built, StepsClosed
<1>5. S \subseteq DOMAIN a.graph /\ S \subseteq Int /\ a.labels \in Int /\ a.head \in S
      /\ {a.root, a.labels} \subseteq DOMAIN a.graph
      /\ DOMAIN u.graph \subseteq DOMAIN a.graph
  BY AsmTypes DEF Built, Layout
<1>6. Children(a.graph, a.labels) \subseteq S
  BY <1>5, ChildrenOf, ValueTypes DEF Built, LabelsClosed
<1>7. PICK W : W = Waiting(u, a, S) /\ W \subseteq DOMAIN a.graph /\ W \subseteq Int
  BY AsmTypes DEF Waiting, Built
<1>8. Children(a.graph, a.root) \subseteq {a.labels, a.head} \cup W
  <2>1. \A k \in DOMAIN a.graph[a.root] : \E n \in {a.labels, a.head} \cup W : a.graph[a.root][k] = Ref(n)
    BY <1>7 DEF Built, RootClosed
  <2>2. \A n \in {a.labels, a.head} \cup W : Data(Ref(n)) = n
    BY <1>5, <1>7, ValueTypes
  <2> QED BY <2>1, <2>2, ChildrenOf
<1>9. ASSUME NEW n \in W PROVE Children(a.graph, n) \subseteq S \cup W
  <2>1. PICK label, key \in Names, inst \in S, next \in W \cup {NullRef} :
          Waits(a.graph, n, label, inst, key, next)
    BY <1>7, <1>9 DEF Built, IsDelayed
  <2>2. inst \in Int /\ next \in Int
    BY <1>5, <1>7 DEF NullRef
  <2>3. /\ Data(Ref(inst)) = inst /\ Data(Ref(next)) = next
        /\ ~ Is(Sym(label), "ref") /\ ~ Is(Sym(key), "ref")
    BY <2>2, ValueTypes
  <2>4. /\ DOMAIN a.graph[n] = {"label", "inst", "symbol", "brefnext"}
        /\ a.graph[n]["label"] = Sym(label) /\ a.graph[n]["inst"] = Ref(inst)
        /\ a.graph[n]["symbol"] = Sym(key) /\ a.graph[n]["brefnext"] = Ref(next)
    BY <2>1 DEF Waits
  <2> QED BY <2>3, <2>4, ChildrenOf
<1>10. ASSUME NEW n \in DOMAIN a.graph PROVE Children(a.graph, n) \subseteq DOMAIN a.graph
  <2>1. n \in W \/ n \in DOMAIN u.graph \/ n = a.root \/ n = a.labels \/ n \in S
    BY <1>7 DEF Waiting
  <2> QED BY <1>3, <1>4, <1>5, <1>6, <1>7, <1>8, <1>9, <2>1, UserReach
<1>11. WellFormed(a.graph)
  <2>1. \A n \in DOMAIN a.graph : \A k \in DOMAIN a.graph[n] : a.graph[n][k] \in Value
    BY AsmTypes DEF Built, IsNode
  <2>2. \A n \in DOMAIN a.graph : \A k \in DOMAIN a.graph[n] :
          NonNull(a.graph[n][k]) => Data(a.graph[n][k]) \in DOMAIN a.graph
    BY <1>10, ChildrenOf DEF NonNull
  <2> QED BY <2>1, <2>2, ValueTypes DEF WellFormed
<1> QED BY <1>2, <1>3, <1>4, <1>6, <1>10, <1>11

(* A collection that leaves what it reaches.                               *)
LEMMA CleanedFacts ==
    ASSUME NEW g, IsFiniteSet(DOMAIN g), WellFormed(g), NEW R, R \subseteq DOMAIN g,
           NEW h, h = Cleaned(g, R)
    PROVE  /\ DOMAIN h = Reach(g, R) /\ R \subseteq DOMAIN h /\ DOMAIN h \subseteq DOMAIN g
           /\ \A n \in DOMAIN h : h[n] = g[n]
           /\ WellFormed(h)
           /\ \A n \in DOMAIN h : Children(g, n) \subseteq DOMAIN h
<1>1. DOMAIN h = Reach(g, R) /\ \A n \in DOMAIN h : h[n] = g[n]
  BY DEF Cleaned
<1>2. R \subseteq DOMAIN h /\ DOMAIN h \subseteq DOMAIN g
  BY <1>1, ReachStarts
<1>3. \A n \in DOMAIN g : Children(g, n) \subseteq DOMAIN g
  BY ChildrenOf DEF WellFormed, NonNull
<1>4. \A n \in DOMAIN h : Children(g, n) \subseteq DOMAIN h
  BY <1>1, <1>2, <1>3, ReachCloses DEF ClosedIn
<1>5. WellFormed(h)
  <2>1. \A n \in DOMAIN h : \A k \in DOMAIN h[n] : NonNull(h[n][k]) => Data(h[n][k]) \in DOMAIN h
    BY <1>1, <1>4, ChildrenOf DEF NonNull
  <2> QED BY <1>1, <1>2, <2>1 DEF WellFormed
<1> QED BY <1>1, <1>2, <1>4, <1>5

Freed(u, a) == /\ a.graph = Cleaned(u.graph, u.roots) /\ a.roots = u.roots
               /\ a.last_id \in Nat /\ u.last_id <= a.last_id

LEMMA KilledFrees ==
    ASSUME NEW u \in Users, NEW S, NEW a, Built(u, a, S)
    PROVE  Freed(u, Killed(a))
<1>1. a.roots \ {a.root} = u.roots
  BY UserFacts DEF Built, Layout
<1>2. PICK R : R = u.roots
  OBVIOUS
<1>3. /\ IsFiniteSet(DOMAIN a.graph) /\ DOMAIN u.graph \subseteq DOMAIN a.graph /\ R \subseteq DOMAIN u.graph
      /\ \A n \in DOMAIN u.graph : Children(a.graph, n) = Children(u.graph, n)
                                   /\ a.graph[n] = u.graph[n]
      /\ \A n \in DOMAIN a.graph : Children(a.graph, n) \subseteq DOMAIN a.graph
  BY <1>2, BuiltGraph, UserFacts DEF Built, Layout
<1>4. Reach(a.graph, R) \subseteq Reach(u.graph, R)
  <2>1. ClosedIn(a.graph, Reach(u.graph, R))
    BY <1>2, <1>3, UserReach DEF ClosedIn
  <2> QED BY <1>2, <1>3, <2>1, UserReach, ReachLeast
<1>5. Reach(u.graph, R) \subseteq Reach(a.graph, R)
  <2>1. R \subseteq Reach(a.graph, R) /\ ClosedIn(a.graph, Reach(a.graph, R))
    BY <1>3, ReachStarts, ReachCloses
  <2>2. ClosedIn(u.graph, Reach(a.graph, R))
    BY <1>3, <2>1 DEF ClosedIn
  <2> QED BY <2>1, <2>2, UserReach, ReachLeast
<1>6. Cleaned(a.graph, R) = Cleaned(u.graph, R)
  BY <1>2, <1>3, <1>4, <1>5, UserReach DEF Cleaned
<1>7. PICK b : b = Killed(a)
  OBVIOUS
<1>8. PICK g : g = Cleaned(u.graph, u.roots)
  OBVIOUS
<1>9. b = [a EXCEPT !.roots = u.roots, !.graph = g]
  BY <1>1, <1>2, <1>6, <1>7, <1>8 DEF Killed
<1>10. b.graph = g /\ b.roots = u.roots /\ b.last_id = a.last_id
  BY <1>9 DEF Built, Asms
<1>11. a.last_id \in Nat /\ u.last_id <= a.last_id
  <2>1. a.root \in 1 .. a.last_id /\ a.root = u.last_id + 1 /\ u.last_id \in Nat /\ a.last_id \in Nat
    BY UserFacts, AsmTypes DEF Built, Layout
  <2> QED BY <2>1
<1> QED BY <1>7, <1>8, <1>10, <1>11 DEF Freed

(* The user's nodes that are in use are there; of the assembler's, the     *)
(* root, the labels and instructions.                                      *)
Finished(u, a, S) ==
    /\ WellFormed(a.graph) /\ DOMAIN a.graph \subseteq 1 .. a.last_id /\ a.roots \subseteq DOMAIN a.graph
    /\ {a.root, a.labels, a.head} \subseteq DOMAIN a.graph
    /\ DOMAIN a.graph \subseteq DOMAIN u.graph \cup {a.root, a.labels} \cup S
    /\ \A n \in Reach(u.graph, u.roots) : n \in DOMAIN a.graph /\ a.graph[n] = u.graph[n]

LEMMA FinishedAtOnce ==
    ASSUME NEW u \in Users, NEW S, NEW a, Built(u, a, S), Waiting(u, a, S) = {}
    PROVE  Finished(u, a, S)
<1>1. Layout(u, a, S)
  BY DEF Built
<1>2. DOMAIN a.graph \subseteq DOMAIN u.graph \cup {a.root, a.labels} \cup S
  BY DEF Waiting
<1> QED BY <1>1, <1>2, BuiltGraph, UserReach, UserFacts DEF Finished, Layout

(* f is what the list that waited is freed from.                           *)
LEMMA ListFreedFacts ==
    ASSUME NEW u \in Users, NEW S, NEW a, Built(u, a, S), NEW b, b = ListFreed(a)
    PROVE  /\ Finished(u, b, S)
           /\ b.root = a.root /\ b.labels = a.labels /\ b.head = a.head /\ b.tail = a.tail
           /\ \A n \in DOMAIN b.graph : n # a.root => n \in DOMAIN a.graph /\ b.graph[n] = a.graph[n]
<1>1. Layout(u, a, S) /\ RootClosed(a, Waiting(u, a, S)) /\ a \in Asms
  BY DEF Built
<1>2. a.root \in DOMAIN a.graph /\ a.root \notin DOMAIN u.graph /\ a.root \notin S /\ a.root # a.labels
      /\ a.root \in Int /\ a.labels \in Int /\ a.head \in Int /\ a.labels # NullRef /\ a.head # NullRef
      /\ a.head # a.root
  BY <1>1, UserFacts, AsmTypes DEF Layout, NullRef
<1>3. PICK g : g = Del(a.graph, a.root, "brefhead")
  OBVIOUS
<1>4. /\ DOMAIN g = DOMAIN a.graph /\ \A n \in DOMAIN a.graph : n # a.root => g[n] = a.graph[n]
      /\ DOMAIN g[a.root] = DOMAIN a.graph[a.root] \ {"brefhead"}
      /\ \A k \in DOMAIN a.graph[a.root] \ {"brefhead"} : g[a.root][k] = a.graph[a.root][k]
  BY <1>2, <1>3, DelFacts
<1>5. \A n \in DOMAIN a.graph : n # a.root => Children(g, n) = Children(a.graph, n)
  BY <1>4 DEF Children
<1>6. \A k \in DOMAIN g[a.root] : \E n \in {a.labels, a.head} : g[a.root][k] = Ref(n)
  BY <1>1, <1>4 DEF RootClosed
<1>7. Children(g, a.root) = {a.labels, a.head}
  <2>1. \A c \in Children(g, a.root) : c \in {a.labels, a.head}
    BY <1>2, <1>6, ChildrenOf, ValueTypes
  <2>2. /\ "labels" \in DOMAIN g[a.root] /\ g[a.root]["labels"] = Ref(a.labels)
        /\ "head" \in DOMAIN g[a.root] /\ g[a.root]["head"] = Ref(a.head)
    BY <1>1, <1>4 DEF RootClosed
  <2>3. a.labels \in Children(g, a.root) /\ a.head \in Children(g, a.root)
    BY <1>2, <2>2, ChildrenOf, ValueTypes
  <2> QED BY <2>1, <2>3
<1>8. WellFormed(g)
  <2>1. ASSUME NEW n \in DOMAIN g, NEW k \in DOMAIN g[n]
        PROVE  g[n][k][1] \in {"ref", "sym", "int", "float"} /\ (NonNull(g[n][k]) => Data(g[n][k]) \in DOMAIN g)
    <3>1. n \in DOMAIN a.graph /\ k \in DOMAIN a.graph[n] /\ g[n][k] = a.graph[n][k]
      BY <1>4, <2>1
    <3> QED BY <1>4, <3>1, BuiltGraph DEF WellFormed
  <2> QED BY <2>1 DEF WellFormed
<1>9. IsFiniteSet(DOMAIN g) /\ a.roots \subseteq DOMAIN g
  BY <1>1, <1>4, BuiltGraph, UserFacts DEF Layout
<1>10. PICK h : h = Cleaned(g, a.roots)
  OBVIOUS
<1>11. b = [a EXCEPT !.graph = h]
  BY <1>3, <1>10 DEF ListFreed
<1>12. /\ b.graph = h /\ b.roots = a.roots /\ b.root = a.root /\ b.labels = a.labels /\ b.head = a.head
       /\ b.last_id = a.last_id /\ b.tail = a.tail
  BY <1>1, <1>11 DEF Asms
<1>13. /\ DOMAIN h = Reach(g, a.roots) /\ a.roots \subseteq DOMAIN h /\ DOMAIN h \subseteq DOMAIN g
       /\ \A n \in DOMAIN h : h[n] = g[n]
       /\ WellFormed(h)
       /\ \A n \in DOMAIN h : Children(g, n) \subseteq DOMAIN h
  BY <1>8, <1>9, <1>10, CleanedFacts
<1>14. {a.root, a.labels, a.head} \subseteq DOMAIN h
  BY <1>1, <1>7, <1>13 DEF Layout
<1>15. PICK T : T = DOMAIN u.graph \cup {a.root, a.labels} \cup S
  OBVIOUS
<1>16. DOMAIN h \subseteq T
  <2>1. a.roots \cap DOMAIN g \subseteq T
    BY <1>1, <1>15, UserFacts DEF Layout
  <2>2. ClosedIn(g, T)
    <3>1. ASSUME NEW n \in T, n \in DOMAIN g PROVE Children(g, n) \subseteq T
      <4>1. CASE n = a.root
        BY <1>1, <1>7, <1>15, <4>1 DEF Layout
      <4>2. CASE n # a.root
        BY <1>4, <1>5, <1>15, <3>1, <4>2, BuiltGraph, UserReach
      <4> QED BY <4>1, <4>2
    <3> QED BY <3>1 DEF ClosedIn
  <2> QED BY <1>9, <1>13, <2>1, <2>2, ReachLeast
<1>17. ASSUME NEW n \in Reach(u.graph, u.roots) PROVE n \in DOMAIN h /\ h[n] = u.graph[n]
  <2>1. u.roots \cap DOMAIN u.graph \subseteq DOMAIN h
    BY <1>1, <1>13 DEF Layout
  <2>2. ClosedIn(u.graph, DOMAIN h)
    <3>1. \A m \in DOMAIN u.graph : m \in DOMAIN a.graph /\ m # a.root
                                    /\ Children(u.graph, m) = Children(a.graph, m)
      BY <1>1, <1>2, BuiltGraph DEF Layout
    <3> QED BY <1>5, <1>13, <3>1 DEF ClosedIn
  <2>3. n \in DOMAIN h /\ n \in DOMAIN u.graph
    BY <2>1, <2>2, UserReach, ReachLeast
  <2> QED BY <1>1, <1>2, <1>4, <1>13, <2>3 DEF Layout
<1>18. DOMAIN h \subseteq 1 .. a.last_id
  BY <1>1, <1>4, <1>13 DEF Layout
<1>19. Finished(u, b, S)
  BY <1>12, <1>13, <1>14, <1>15, <1>16, <1>17, <1>18 DEF Finished
<1>20. \A n \in DOMAIN b.graph : n # a.root => n \in DOMAIN a.graph /\ b.graph[n] = a.graph[n]
  BY <1>4, <1>12, <1>13
<1> QED BY <1>12, <1>19, <1>20

-----------------------------------------------------------------------------
(***************************************************************************)
(* The beginning, and the references that wait.                            *)
(***************************************************************************)
Unused(u) == [graph |-> u.graph, last_id |-> u.last_id, roots |-> u.roots,
              root |-> NullRef, labels |-> NullRef, head |-> NullRef, tail |-> NullRef,
              badref |-> NullRef]

(* What ndl_asm_parse makes first.                                         *)
Begun(u, a) ==
    /\ Built(u, a, {a.tail}) /\ Waiting(u, a, {a.tail}) = {} /\ a.badref = NullRef
    /\ a.head = a.tail /\ DOMAIN a.graph[a.labels] = {} /\ DOMAIN a.graph[a.tail] = {}

Began(a, r) ==
    LET nodes == [n \in DOMAIN a.graph \cup r .. r + 2 |->
                       IF n = r THEN [labels |-> Ref(r + 1), head |-> Ref(r + 2), curr |-> Ref(r + 2)]
                       ELSE IF n > r THEN <<>> ELSE a.graph[n]]
    IN  [graph |-> nodes, last_id |-> r + 2, roots |-> a.roots \cup {r}, root |-> r,
         labels |-> r + 1, head |-> r + 2, tail |-> r + 2, badref |-> NullRef]

LEMMA BeginBuilds ==
    ASSUME NEW u \in Users, NEW b, b = Began(Unused(u), u.last_id + 1)
    PROVE  Begun(u, b)
<1>1. PICK r \in Nat : r = u.last_id + 1 /\ r > 0
  BY UserFacts
<1>2. \A n \in DOMAIN u.graph : n \in 1 .. r - 1 /\ u.graph[n] \in Nodes
  BY <1>1, UserFacts, NodeTypes
<1>3. PICK top : top = [labels |-> Ref(r + 1), head |-> Ref(r + 2), curr |-> Ref(r + 2)]
  OBVIOUS
<1>4. /\ DOMAIN top = {"labels", "head", "curr"} /\ top = [k \in DOMAIN top |-> top[k]]
      /\ top["labels"] = Ref(r + 1) /\ top["head"] = Ref(r + 2) /\ top["curr"] = Ref(r + 2)
  BY <1>3
<1>5. Ref(r + 1) \in Value /\ Ref(r + 2) \in Value /\ {"labels", "head", "curr"} \subseteq Names
  BY ValueTypes, WordsThere
<1>6. top \in Nodes
  BY <1>4, <1>5, NodeTypes DEF IsNode
<1>7. PICK N : N = DOMAIN u.graph \cup {r, r + 1, r + 2}
  OBVIOUS
<1>8. PICK g : g = [n \in N |-> IF n = r THEN top ELSE IF n > r THEN <<>> ELSE u.graph[n]]
  OBVIOUS
<1>9. /\ DOMAIN g = N /\ g[r] = top /\ DOMAIN g[r + 1] = {} /\ DOMAIN g[r + 2] = {}
      /\ \A n \in DOMAIN u.graph : g[n] = u.graph[n]
      /\ \A n \in N : g[n] \in Nodes
  BY <1>2, <1>6, <1>7, <1>8, NodeTypes
<1>10. g \in Graphs
  <2>1. N \in SUBSET Int
    BY <1>2, <1>7
  <2>2. g \in [N -> Nodes]
    BY <1>8, <1>9
  <2> QED BY <2>1, <2>2 DEF Graphs
<1>11. N = DOMAIN Unused(u).graph \cup r .. r + 2 /\ Unused(u).graph = u.graph
       /\ Unused(u).roots = u.roots
  BY <1>7 DEF Unused
<1>12. b = [graph |-> g, last_id |-> r + 2, roots |-> u.roots \cup {r}, root |-> r,
            labels |-> r + 1, head |-> r + 2, tail |-> r + 2, badref |-> NullRef]
  <2>1. g = [n \in DOMAIN Unused(u).graph \cup r .. r + 2 |->
               IF n = r THEN [labels |-> Ref(r + 1), head |-> Ref(r + 2), curr |-> Ref(r + 2)]
               ELSE IF n > r THEN <<>> ELSE Unused(u).graph[n]]
    BY <1>3, <1>8, <1>11
  <2> QED BY <1>1, <1>11, <2>1, Zenon DEF Began
<1>13. /\ b.graph = g /\ b.last_id = r + 2 /\ b.roots = u.roots \cup {r} /\ b.root = r
       /\ b.labels = r + 1 /\ b.head = r + 2 /\ b.tail = r + 2 /\ b.badref = NullRef
  BY <1>12
<1>14. b \in Asms
  <2>1. u.roots \cup {r} \in SUBSET Int
    BY <1>2, UserFacts
  <2> QED BY <1>10, <1>12, <2>1 DEF Asms, NullRef
<1>15. PICK S : S = {r + 2} /\ S = {b.tail}
  BY <1>13
<1>16. Waiting(u, b, S) = {}
  BY <1>7, <1>9, <1>13, <1>15 DEF Waiting
<1>17. Layout(u, b, S)
  <2>1. DOMAIN g \subseteq 1 .. r + 2
    <3>1. \A n \in 1 .. r - 1 : n \in 1 .. r + 2
      OBVIOUS
    <3>2. r \in 1 .. r + 2 /\ r + 1 \in 1 .. r + 2 /\ r + 2 \in 1 .. r + 2
      BY <1>1
    <3>3. \A n \in DOMAIN u.graph : n \in 1 .. r + 2
      BY <1>2, <3>1
    <3> QED BY <1>7, <1>9, <3>2, <3>3
  <2> QED BY <1>1, <1>7, <1>9, <1>13, <1>15, <2>1, UserFacts DEF Layout
<1>18. StepsClosed(b, S) /\ LabelsClosed(b, S)
  BY <1>9, <1>13, <1>15 DEF StepsClosed, LabelsClosed
<1>19. RootClosed(b, {})
  BY <1>4, <1>9, <1>13 DEF RootClosed
<1>20. Built(u, b, S)
  BY <1>13, <1>14, <1>16, <1>17, <1>18, <1>19 DEF Built
<1> QED BY <1>9, <1>13, <1>15, <1>16, <1>20 DEF Begun

(* The reference that is worked on now is another, or none.                *)
Pointed(a, c) == [a EXCEPT !.badref = c]

SameBut(u, a, b, S, c) ==
    /\ Built(u, b, S) /\ b.badref = c /\ b.graph = a.graph /\ Alike(a, b)
    /\ Waiting(u, b, S) = Waiting(u, a, S)

LEMMA BadrefMoves ==
    ASSUME NEW u, NEW S, NEW a, Built(u, a, S), NEW c \in Int, c \in Waiting(u, a, S) \cup {NullRef},
           NEW b, b = Pointed(a, c)
    PROVE  SameBut(u, a, b, S, c)
<1>1. a \in Asms
  BY DEF Built
<1>2. b \in Asms /\ b.badref = c /\ b.graph = a.graph /\ Alike(a, b) /\ b.last_id = a.last_id
  BY <1>1 DEF Asms, Alike, Pointed
<1>3. Waiting(u, b, S) = Waiting(u, a, S)
  BY <1>2 DEF Waiting, Alike
<1>4. Layout(u, b, S)
  BY <1>2 DEF Built, Layout, Alike
<1>5. StepsClosed(b, S) /\ LabelsClosed(b, S) /\ RootClosed(b, Waiting(u, a, S))
  <2>1. b.root = a.root /\ b.labels = a.labels /\ b.head = a.head /\ b.graph = a.graph
    BY <1>2 DEF Alike
  <2> QED BY <2>1 DEF Built, StepsClosed, LabelsClosed, RootClosed
<1>6. Built(u, b, S)
  BY <1>2, <1>3, <1>4, <1>5 DEF Built
<1> QED BY <1>2, <1>3, <1>6 DEF SameBut

(* One reference is patched with what its label names: b is what that      *)
(* makes of a, the reference being one to label, from x, under k.          *)
Patched(u, a, b, S, label, x, k) ==
    /\ Built(u, b, S) /\ Alike(a, b) /\ Waiting(u, b, S) = Waiting(u, a, S)
    /\ b.badref \in Int /\ Precedes(b.badref, a.badref, Waiting(u, a, S))
    /\ label \in Names /\ k \in Names /\ x \in S
    /\ label \in DOMAIN a.graph[a.labels]
    /\ Wants(a.graph, a.badref, label, x, k)
    /\ \A n \in DOMAIN a.graph : n # x => b.graph[n] = a.graph[n]
    /\ DOMAIN b.graph[x] = DOMAIN a.graph[x] \cup {k}
    /\ b.graph[x][k] = a.graph[a.labels][label]
    /\ \A j \in DOMAIN a.graph[x] : j # k => b.graph[x][j] = a.graph[x][j]

LEMMA PatchBuilds ==
    ASSUME NEW u \in Users, NEW S, NEW a, Built(u, a, S), a.badref # NullRef,
           NEW delayed, delayed = a.graph[a.badref],
           NEW dest, dest = Get(a.graph, a.labels, Data(delayed["label"])), Is(dest, "ref"),
           NEW b, b = [Set(a, Data(delayed["inst"]), Data(delayed["symbol"]), dest)
                         EXCEPT !.badref = Data(delayed["brefnext"])]
    PROVE  \E label, k \in Names, x \in S : Patched(u, a, b, S, label, x, k)
<1>1. PICK W, d : W = Waiting(u, a, S) /\ d = a.badref
  OBVIOUS
<1>2. d \in W /\ W \subseteq DOMAIN a.graph /\ a \in Asms
  BY <1>1 DEF Built, Waiting
<1>3. PICK label, k \in Names, x \in S, next \in W \cup {NullRef} :
         Waits(a.graph, d, label, x, k, next) /\ Precedes(next, d, W)
  BY <1>1, <1>2 DEF Built, IsDelayed
<1>4. S \subseteq DOMAIN a.graph /\ DOMAIN a.graph \subseteq Int /\ x \in Int /\ next \in Int
      /\ a.labels \in DOMAIN a.graph
  BY <1>2, AsmTypes DEF Built, Layout, NullRef
<1>5. /\ delayed["label"] = Sym(label) /\ delayed["inst"] = Ref(x)
      /\ delayed["symbol"] = Sym(k) /\ delayed["brefnext"] = Ref(next)
  BY <1>1, <1>3 DEF Waits
<1>6. /\ Data(delayed["label"]) = label /\ Data(delayed["inst"]) = x
      /\ Data(delayed["symbol"]) = k /\ Data(delayed["brefnext"]) = next
  BY <1>4, <1>5, ValueTypes
<1>7. dest = Get(a.graph, a.labels, label)
  BY <1>6
<1>8. label \in DOMAIN a.graph[a.labels] /\ dest = a.graph[a.labels][label]
  BY <1>7, NoneFacts DEF Get
<1>9. PICK n \in S : dest = Ref(n)
  BY <1>8 DEF Built, LabelsClosed
<1>10. dest \in Value /\ Data(dest) \in S
  BY <1>4, <1>9, ValueTypes
<1>11. PICK c : c = Set(a, x, k, dest)
  OBVIOUS
<1>12. Built(u, c, S) /\ Waiting(u, c, S) = W
  BY <1>1, <1>10, <1>11, BuiltSet
<1>13. Wrote(a, c, x, k, dest)
  BY <1>2, <1>4, <1>10, <1>11, SetFacts
<1>14. b = [c EXCEPT !.badref = next]
  BY <1>6, <1>11
<1>15. /\ Built(u, b, S) /\ b.badref = next /\ b.graph = c.graph /\ Alike(c, b)
       /\ Waiting(u, b, S) = W
  <2>1. PICK e \in Int : e = next
    BY <1>4
  <2>2. PICK p : p = Pointed(c, e)
    OBVIOUS
  <2>3. e \in Waiting(u, c, S) \cup {NullRef} /\ b = p
    BY <1>3, <1>12, <1>14, <2>1, <2>2 DEF Pointed
  <2>4. SameBut(u, c, p, S, e)
    BY <1>12, <2>2, <2>3, BadrefMoves
  <2> QED BY <1>12, <2>1, <2>3, <2>4 DEF SameBut
<1>16. Alike(a, b)
  BY <1>13, <1>15 DEF Alike, Wrote
<1>17. Wants(a.graph, d, label, x, k)
  BY <1>3 DEF Waits, Wants
<1>18. Patched(u, a, b, S, label, x, k)
  BY <1>1, <1>3, <1>4, <1>8, <1>13, <1>15, <1>16, <1>17 DEF Patched, Wrote
<1> QED BY <1>18

-----------------------------------------------------------------------------
(***************************************************************************)
(* The inductive invariant: what the assembler has built, or given back.   *)
(***************************************************************************)
Instrs(t, tail) == {t[n].node : n \in 1 .. Len(t)} \cup {tail}

Entry == [line : Nat, node : Int]

Phase(u, a, S, c) ==
    /\ c \in {"start", "parse", "resolve", "done", "failed"}
    /\ c = "start"   => a = Unused(u)
    /\ c = "parse"   => Built(u, a, S) /\ Newest(u, a, S)
    /\ c = "resolve" => Built(u, a, S)
    /\ c = "done"    => Finished(u, a, S)
    /\ c = "failed"  => Freed(u, a)

AsmInv ==
    /\ source \in Sources /\ user \in Users
    /\ pos \in 1 .. Len(source) + 1 /\ at \in Seq(Entry)
    /\ pc = "start" => at = <<>> /\ pos = 1
    /\ Phase(user, asm, Instrs(at, asm.tail), pc)

LEMMA TextFacts ==
    ASSUME NEW text \in Sources
    PROVE  /\ Len(text) \in Nat /\ DOMAIN text = 1 .. Len(text)
           /\ \A i \in 1 .. Len(text) : IsLine(text[i])
<1>1. PICK L : text \in Seq(L) /\ \A i \in DOMAIN text : IsLine(text[i])
  BY AsmAssumption
<1> QED BY <1>1

LEMMA InitPhase ==
    ASSUME Init
    PROVE  AsmInv
<1>1. /\ source \in Sources /\ user \in Users /\ at = <<>> /\ pc = "start" /\ pos = 1
      /\ asm = Unused(user)
  BY DEF Init, Unused
<1>2. Len(source) \in Nat
  BY <1>1, TextFacts
<1>3. pos \in 1 .. Len(source) + 1 /\ at \in Seq(Entry)
  BY <1>1, <1>2
<1> QED BY <1>1, <1>3 DEF AsmInv, Phase

Extended(t, v, l, x) ==
    /\ v \in Seq(Entry) /\ Len(v) = Len(t) + 1 /\ Len(t) \in Nat
    /\ \A n \in 1 .. Len(t) : v[n] = t[n]
    /\ v[Len(t) + 1].line = l /\ v[Len(t) + 1].node = x
    /\ \A r : Instrs(v, r) = Instrs(t, x) \cup {r}

LEMMA InstrsAppend ==
    ASSUME NEW t, t \in Seq(Entry), NEW l \in Nat, NEW x \in Int, NEW v,
           v = Append(t, [line |-> l, node |-> x])
    PROVE  Extended(t, v, l, x)
<1>1. PICK e \in Entry : e = [line |-> l, node |-> x]
  BY DEF Entry
<1>2. e.line = l /\ e.node = x
  BY <1>1
<1>3. v = Append(t, e)
  BY <1>1
<1>4. /\ v \in Seq(Entry) /\ Len(v) = Len(t) + 1 /\ Len(t) \in Nat
      /\ \A n \in 1 .. Len(t) : v[n] = t[n]
      /\ v[Len(t) + 1] = e
  BY <1>3
<1>5. \A n : n \in 1 .. Len(v) <=> n \in 1 .. Len(t) \/ n = Len(t) + 1
  BY <1>4
<1>6. \A r : Instrs(v, r) = Instrs(t, x) \cup {r}
  BY <1>2, <1>4, <1>5 DEF Instrs
<1> QED BY <1>2, <1>4, <1>6 DEF Extended

LEMMA StartPhase ==
    ASSUME AsmInv, Start
    PROVE  AsmInv' /\ Begun(user, asm')
<1>0. PICK b : b = asm'
  OBVIOUS
<1>1. PICK u \in Users : u = user /\ b = asm'
  BY <1>0 DEF AsmInv
<1>2. asm = Unused(u) /\ at = <<>> /\ pos = 1
  BY <1>1 DEF AsmInv, Start, Phase
<1>3. b = Began(Unused(u), u.last_id + 1)
  <2>1. Unused(u).last_id = u.last_id
    BY DEF Unused
  <2>2. b = Began(asm, asm.last_id + 1)
    BY <1>1, Zenon DEF Start, Began
  <2> QED BY <1>2, <2>1, <2>2
<1>4. Begun(u, b)
  BY <1>3, BeginBuilds
<1>5. Instrs(<<>>, b.tail) = {b.tail}
  BY DEF Instrs
<1>6. Phase(u, b, Instrs(<<>>, b.tail), "parse")
  BY <1>4, <1>5 DEF Phase, Begun, Newest
<1>7. user' = user /\ source' = source /\ at' = at /\ pos' = pos /\ pc' = "parse"
  BY DEF Start
<1> QED BY <1>1, <1>2, <1>4, <1>6, <1>7 DEF AsmInv

(* A line either is taken as it should be or ends the assembly.            *)
Accepts(u, a, b, t, v, i, line) ==
    \/ line.kind \in {"blank", "comment"} /\ b = a /\ v = t
    \/ /\ line.kind = "label" /\ line.name \in Names /\ v = t
       /\ b = Set(a, a.labels, line.name, Ref(a.tail))
    \/ /\ line.kind = "op" /\ v = Append(t, [line |-> i, node |-> a.tail])
       /\ OpcodeDone(u, a, b, Instrs(t, a.tail), b.tail, line)

LEMMA LineCases ==
    ASSUME AsmInv, ParseLine
    PROVE  /\ pc = "parse" /\ user' = user /\ source' = source /\ pos \in 1 .. Len(source)
           /\ IsLine(source[pos])
           /\ \/ pc' = "parse" /\ Accepts(user, asm, asm', at, at', pos, source[pos])
                 /\ \/ pos' = pos + 1
                    \/ /\ pos' = pos + 2 /\ pos < Len(source) /\ source[pos].kind = "op"
                       /\ source[pos + 1].kind \in {"blank", "comment"}
              \/ pc' = "failed" /\ pos' = pos /\ at' \in Seq(Entry) /\ Freed(user, asm')
<1>0. PICK a : a = asm
  OBVIOUS
<1>1. PICK u \in Users, t \in Seq(Entry), text \in Sources :
        u = user /\ a = asm /\ t = at /\ text = source
  BY <1>0 DEF AsmInv
<1>2. pc = "parse" /\ user' = user /\ source' = source
  BY DEF ParseLine
<1>3. Len(text) \in Nat /\ \A i \in 1 .. Len(text) : IsLine(text[i])
  BY TextFacts
<1>4. PICK i \in 1 .. Len(text) : i = pos
  BY <1>1, <1>3 DEF AsmInv, ParseLine
<1>5. IsLine(text[i])
  BY <1>3
<1>6. PICK line, S : line = text[i] /\ S = Instrs(t, a.tail)
  OBVIOUS
<1>7. Built(u, a, S) /\ Newest(u, a, S)
  BY <1>1, <1>2, <1>6 DEF AsmInv, Phase
<1>8. a.tail \in S /\ a.tail \in Int
  BY <1>7, BuiltDistinct
<1>9. PICK b, v : b = asm' /\ v = at'
  OBVIOUS
<1>10. CASE ParseEmpty
  <2>1. line.kind \in {"blank", "comment"} /\ b = a /\ v = t /\ pos' = pos + 1 /\ pc' = pc
    BY <1>1, <1>4, <1>6, <1>9, <1>10 DEF ParseEmpty, Lines
  <2> QED BY <1>1, <1>2, <1>4, <1>5, <1>6, <1>9, <2>1 DEF Accepts
<1>11. CASE ParseJunk
  <2>1. pc' = "failed" /\ pos' = pos /\ b = Killed(a) /\ v = t
    BY <1>1, <1>9, <1>11 DEF ParseJunk, Abort
  <2> QED BY <1>1, <1>2, <1>4, <1>5, <1>7, <1>9, <2>1, KilledFrees
<1>12. CASE ParseMarker
  <2>1. PICK c : c = Set(a, a.labels, line.name, Ref(a.tail))
    OBVIOUS
  <2>2. /\ line.kind = "label" /\ v = t
        /\ \/ pc' = "failed" /\ pos' = pos /\ b = Killed(c)
           \/ b = c /\ pos' = pos + 1 /\ pc' = pc
    BY <1>1, <1>4, <1>6, <1>9, <1>12, <2>1 DEF ParseMarker, Abort, Lines
  <2>3. line.name \in Names
    BY <1>5, <1>6, <2>2 DEF IsLine
  <2>4. Built(u, c, S)
    BY <1>7, <1>8, <2>1, <2>3, BuiltLabel
  <2>5. Freed(u, Killed(c))
    BY <2>4, KilledFrees
  <2> QED BY <1>1, <1>2, <1>4, <1>5, <1>6, <1>9, <2>1, <2>2, <2>3, <2>5 DEF Accepts
<1>13. CASE ParseOpcode
  <2>1. PICK c : c = Opcode(a, line)
    OBVIOUS
  <2>2. /\ line.kind = "op" /\ v = Append(t, [line |-> i, node |-> a.tail])
        /\ \/ pc' = "failed" /\ pos' = pos /\ b = Killed(c)
           \/ /\ b = c /\ pc' = pc
              /\ \/ pos' = pos + 1
                 \/ /\ pos' = pos + 2 /\ Bare(i) /\ text[i + 1].kind \in {"blank", "comment"}
    BY <1>1, <1>4, <1>6, <1>9, <1>13, <2>1 DEF ParseOpcode, Abort, Lines
  <2>3. PICK r \in Nat : OpcodeDone(u, a, c, S, r, line)
    BY <1>5, <1>6, <1>7, <2>1, <2>2, OpcodeBuilt
  <2>4. c.tail = r
    BY <2>3 DEF OpcodeDone
  <2>5. v \in Seq(Entry)
    <3>1. PICK x \in Int, l \in Nat : x = a.tail /\ l = i
      BY <1>3, <1>8
    <3>2. v = Append(t, [line |-> l, node |-> x])
      BY <2>2, <3>1
    <3>3. Extended(t, v, l, x)
      BY <3>2, InstrsAppend
    <3> QED BY <3>3 DEF Extended
  <2>6. Freed(u, Killed(c))
    <3>1. Built(u, c, S \cup {r})
      BY <2>3 DEF OpcodeDone
    <3> QED BY <3>1, KilledFrees
  <2>7. Bare(i) => i < Len(text)
    BY <1>1 DEF Bare
  <2>8. b = c => Accepts(u, a, b, t, v, i, line)
    BY <1>6, <2>2, <2>3, <2>4 DEF Accepts
  <2> QED BY <1>1, <1>2, <1>4, <1>5, <1>6, <1>9, <2>2, <2>5, <2>6, <2>7, <2>8
<1> QED BY <1>10, <1>11, <1>12, <1>13 DEF ParseLine

LEMMA AcceptsBuilds ==
    ASSUME NEW u \in Users, NEW a, NEW t \in Seq(Entry), NEW i \in Nat, NEW line,
           Built(u, a, Instrs(t, a.tail)), Newest(u, a, Instrs(t, a.tail)),
           NEW b, NEW v, Accepts(u, a, b, t, v, i, line)
    PROVE  /\ v \in Seq(Entry)
           /\ Built(u, b, Instrs(v, b.tail)) /\ Newest(u, b, Instrs(v, b.tail))
<1>1. PICK S : S = Instrs(t, a.tail)
  OBVIOUS
<1>2. Built(u, a, S) /\ Newest(u, a, S) /\ a.tail \in S /\ a.tail \in Int /\ a.labels \in DOMAIN a.graph
  BY <1>1, BuiltDistinct
<1>3. CASE b = a /\ v = t
  BY <1>3
<1>4. CASE line.name \in Names /\ v = t /\ b = Set(a, a.labels, line.name, Ref(a.tail))
  <2>1. Built(u, b, S) /\ Waiting(u, b, S) = Waiting(u, a, S)
    BY <1>2, <1>4, BuiltLabel
  <2>2. Wrote(a, b, a.labels, line.name, Ref(a.tail))
    BY <1>2, <1>4, SetFacts, ValueTypes DEF Built
  <2>3. b.tail = a.tail /\ b.badref = a.badref
    BY <2>2 DEF Wrote, Alike
  <2> QED BY <1>1, <1>2, <1>4, <2>1, <2>3 DEF Newest
<1>5. CASE /\ line.kind = "op" /\ v = Append(t, [line |-> i, node |-> a.tail])
           /\ OpcodeDone(u, a, b, S, b.tail, line)
  <2>1. v \in Seq(Entry) /\ Instrs(v, b.tail) = S \cup {b.tail}
    <3>1. PICK x \in Int : x = a.tail
      BY <1>2
    <3>2. v = Append(t, [line |-> i, node |-> x])
      BY <1>5, <3>1
    <3>3. Extended(t, v, i, x)
      BY <3>2, InstrsAppend
    <3> QED BY <1>1, <3>1, <3>3 DEF Extended
  <2> QED BY <1>5, <2>1 DEF OpcodeDone
<1> QED BY <1>1, <1>3, <1>4, <1>5 DEF Accepts

LEMMA LinePhase ==
    ASSUME AsmInv, ParseLine
    PROVE  AsmInv'
<1>0. PICK a, b, v : a = asm /\ b = asm' /\ v = at'
  OBVIOUS
<1>1. PICK u \in Users, t \in Seq(Entry), text \in Sources : u = user /\ t = at /\ text = source
  BY DEF AsmInv
<1>2. /\ pc = "parse" /\ user' = u /\ source' = text /\ Len(text) \in Nat
      /\ pos \in 1 .. Len(text)
  BY <1>0, <1>1, LineCases, TextFacts
<1>3. Built(u, a, Instrs(t, a.tail)) /\ Newest(u, a, Instrs(t, a.tail))
  BY <1>0, <1>1, <1>2 DEF AsmInv, Phase
<1>4. CASE /\ pc' = "parse" /\ Accepts(u, a, b, t, v, pos, text[pos])
           /\ (pos' = pos + 1 \/ (pos' = pos + 2 /\ pos < Len(text)))
  <2>1. v \in Seq(Entry) /\ Built(u, b, Instrs(v, b.tail)) /\ Newest(u, b, Instrs(v, b.tail))
    <3>0. PICK line : line = text[pos]
      OBVIOUS
    <3>1. PICK i \in Nat : i = pos /\ line = text[pos]
      BY <1>2, <3>0
    <3> QED BY <1>3, <1>4, <3>1, AcceptsBuilds
  <2>2. pos' \in 1 .. Len(text) + 1
    BY <1>2, <1>4
  <2>3. Phase(u, b, Instrs(v, b.tail), "parse")
    BY <2>1 DEF Phase
  <2> QED BY <1>0, <1>1, <1>2, <1>4, <2>1, <2>2, <2>3 DEF AsmInv
<1>5. CASE pc' = "failed" /\ pos' = pos /\ v \in Seq(Entry) /\ Freed(u, b)
  <2>1. Phase(u, b, Instrs(v, b.tail), "failed")
    BY <1>5 DEF Phase
  <2>2. pos' \in 1 .. Len(text) + 1
    BY <1>2, <1>5
  <2> QED BY <1>0, <1>1, <1>2, <1>5, <2>1, <2>2 DEF AsmInv
<1> QED BY <1>0, <1>1, <1>4, <1>5, LineCases

LEMMA EndPhase ==
    ASSUME AsmInv, ParseEnd
    PROVE  AsmInv'
<1>0. PICK a, S : a = asm /\ S = Instrs(at, asm.tail)
  OBVIOUS
<1>1. PICK u \in Users : u = user /\ a = asm /\ S = Instrs(at, asm.tail)
  BY <1>0 DEF AsmInv
<1>2. /\ pc = "parse" /\ user' = user /\ source' = source /\ at' = at /\ pos' = pos /\ asm' = asm
      /\ pc' = IF a.badref = NullRef THEN "done" ELSE "resolve"
  BY <1>1 DEF ParseEnd
<1>3. Built(u, a, S) /\ Newest(u, a, S)
  BY <1>1, <1>2 DEF AsmInv, Phase
<1>4. CASE a.badref = NullRef
  <2>1. \A n \in Waiting(u, a, S) : n <= -1 /\ n \in 1 .. a.last_id /\ a.last_id \in Nat
    BY <1>3, <1>4, AsmTypes DEF Newest, NullRef, Waiting, Built, Layout
  <2>2. Waiting(u, a, S) = {}
    BY <2>1
  <2>3. Phase(u, a, S, "done")
    BY <1>3, <2>2, FinishedAtOnce DEF Phase
  <2> QED BY <1>1, <1>2, <1>4, <2>3 DEF AsmInv
<1>5. CASE a.badref # NullRef
  <2>1. Phase(u, a, S, "resolve")
    BY <1>3 DEF Phase
  <2> QED BY <1>1, <1>2, <1>5, <2>1 DEF AsmInv
<1> QED BY <1>4, <1>5

LEMMA ResolveCases ==
    ASSUME AsmInv, Resolve
    PROVE  /\ pc = "resolve" /\ user' = user /\ source' = source /\ at' = at /\ pos' = pos
           /\ asm.badref # NullRef /\ Built(user, asm, Instrs(at, asm.tail))
           /\ \/ pc' = "failed" /\ Freed(user, asm')
              \/ /\ pc' = "resolve"
                 /\ \E label, k \in Names, x \in Instrs(at, asm.tail) :
                      Patched(user, asm, asm', Instrs(at, asm.tail), label, x, k)
<1>0. PICK a, b, S : a = asm /\ b = asm' /\ S = Instrs(at, asm.tail)
  OBVIOUS
<1>1. PICK u \in Users : u = user /\ a = asm /\ b = asm' /\ S = Instrs(at, asm.tail)
  BY <1>0 DEF AsmInv
<1>2. PICK delayed : delayed = a.graph[a.badref]
  OBVIOUS
<1>3. PICK dest : dest = Get(a.graph, a.labels, Data(delayed["label"]))
  OBVIOUS
<1>4. PICK c : c = [Set(a, Data(delayed["inst"]), Data(delayed["symbol"]), dest)
                      EXCEPT !.badref = Data(delayed["brefnext"])]
  OBVIOUS
<1>5. /\ pc = "resolve" /\ a.badref # NullRef /\ user' = user /\ source' = source /\ at' = at
      /\ IF Is(dest, "ref") THEN b = c /\ pc' = pc /\ pos' = pos
         ELSE pc' = "failed" /\ b = Killed(a) /\ pos' = pos
  BY <1>1, <1>2, <1>3, <1>4 DEF Resolve, Abort
<1>6. Built(u, a, S)
  BY <1>1, <1>5 DEF AsmInv, Phase
<1>7. CASE Is(dest, "ref")
  <2>1. \E label, k \in Names, x \in S : Patched(u, a, c, S, label, x, k)
    BY <1>2, <1>3, <1>4, <1>5, <1>6, <1>7, PatchBuilds
  <2> QED BY <1>1, <1>5, <1>6, <1>7, <2>1
<1>8. CASE ~ Is(dest, "ref")
  <2>1. Freed(u, Killed(a))
    BY <1>6, KilledFrees
  <2> QED BY <1>1, <1>5, <1>6, <1>8, <2>1
<1> QED BY <1>7, <1>8

LEMMA ResolvePhase ==
    ASSUME AsmInv, Resolve
    PROVE  AsmInv'
<1>0. PICK a, b, S : a = asm /\ b = asm' /\ S = Instrs(at, asm.tail)
  OBVIOUS
<1>1. PICK u \in Users : u = user /\ a = asm /\ b = asm' /\ S = Instrs(at, asm.tail)
  BY <1>0 DEF AsmInv
<1>2. pc = "resolve" /\ user' = user /\ source' = source /\ at' = at /\ pos' = pos
  BY ResolveCases
<1>3. CASE pc' = "failed" /\ Freed(u, b)
  <2>1. Phase(u, b, Instrs(at, b.tail), "failed")
    BY <1>3 DEF Phase
  <2> QED BY <1>1, <1>2, <1>3, <2>1 DEF AsmInv
<1>4. CASE pc' = "resolve" /\ \E label, k \in Names, x \in S : Patched(u, a, b, S, label, x, k)
  <2>1. Built(u, b, S) /\ b.tail = a.tail
    BY <1>4 DEF Patched, Alike
  <2>2. Phase(u, b, Instrs(at, b.tail), "resolve")
    BY <1>1, <2>1 DEF Phase
  <2> QED BY <1>1, <1>2, <1>4, <2>2 DEF AsmInv
<1> QED BY <1>1, <1>3, <1>4, ResolveCases

LEMMA ResolveEndPhase ==
    ASSUME AsmInv, ResolveEnd
    PROVE  AsmInv'
<1>0. PICK a, b, S : a = asm /\ b = asm' /\ S = Instrs(at, asm.tail)
  OBVIOUS
<1>1. PICK u \in Users : u = user /\ a = asm /\ b = asm' /\ S = Instrs(at, asm.tail)
  BY <1>0 DEF AsmInv
<1>2. /\ pc = "resolve" /\ user' = user /\ source' = source /\ at' = at /\ pos' = pos
      /\ pc' = "done" /\ b = ListFreed(a)
  BY <1>1 DEF ResolveEnd
<1>3. Built(u, a, S)
  BY <1>1, <1>2 DEF AsmInv, Phase
<1>4. Finished(u, b, S) /\ b.tail = a.tail
  BY <1>2, <1>3, ListFreedFacts
<1>5. Phase(u, b, Instrs(at, b.tail), "done")
  BY <1>1, <1>4 DEF Phase
<1> QED BY <1>1, <1>2, <1>5 DEF AsmInv

LEMMA AsmInvHolds == Spec => []AsmInv
<1>1. Init => AsmInv
  BY InitPhase
<1>2. AsmInv /\ [Next]_vars => AsmInv'
  <2>1. CASE UNCHANGED vars
    BY <2>1 DEF vars, AsmInv
  <2> QED BY <2>1, StartPhase, LinePhase, EndPhase, ResolvePhase, ResolveEndPhase DEF Next
<1> QED BY <1>1, <1>2, PTL DEF Spec

-----------------------------------------------------------------------------
(***************************************************************************)
(* What follows for every text and every graph.                            *)
(***************************************************************************)
LEMMA InstrsOfAt == Instrs(at, asm.tail) = {asm.tail} \cup {at[n].node : n \in 1 .. Len(at)}
BY DEF Instrs

LEMMA FreedFacts ==
    ASSUME NEW u \in Users, NEW a, Freed(u, a)
    PROVE  /\ WellFormed(a.graph) /\ DOMAIN a.graph \subseteq 1 .. a.last_id
           /\ a.roots \subseteq DOMAIN a.graph
<1>1. /\ IsFiniteSet(DOMAIN u.graph) /\ WellFormed(u.graph) /\ u.roots \subseteq DOMAIN u.graph
      /\ \A n \in DOMAIN u.graph : n \in 1 .. u.last_id
      /\ u.last_id \in Nat
  BY UserReach, UserFacts
<1>2. PICK h : h = Cleaned(u.graph, u.roots)
  OBVIOUS
<1>3. WellFormed(h) /\ u.roots \subseteq DOMAIN h /\ DOMAIN h \subseteq DOMAIN u.graph
  BY <1>1, <1>2, CleanedFacts
<1>4. \A n \in 1 .. u.last_id : n \in 1 .. a.last_id
  BY <1>1 DEF Freed
<1> QED BY <1>1, <1>2, <1>3, <1>4 DEF Freed

LEMMA BuiltTyped ==
    ASSUME NEW u \in Users, NEW S, NEW a, Built(u, a, S)
    PROVE  /\ WellFormed(a.graph) /\ DOMAIN a.graph \subseteq 1 .. a.last_id
           /\ a.roots \subseteq DOMAIN a.graph
           /\ {a.root, a.labels, a.head, a.tail} \subseteq DOMAIN a.graph
           /\ {a.badref} \ {NullRef} \subseteq DOMAIN a.graph
<1>1. Layout(u, a, S) /\ a.badref \in Waiting(u, a, S) \cup {NullRef}
  BY DEF Built
<1>2. Waiting(u, a, S) \subseteq DOMAIN a.graph
  BY DEF Waiting
<1> QED BY <1>1, <1>2, BuiltGraph, UserFacts DEF Layout

(* The graph never holds a reference to a node that is gone, on the way or *)
(* at the end, and the result's fields name nodes of it (asm.c:57-101,     *)
(* 222-256, 482-532).                                                      *)
THEOREM AsmTypeOK == Spec => []TypeOK
<1>1. AsmInv => TypeOK
  <2> SUFFICES ASSUME AsmInv PROVE TypeOK
    OBVIOUS
  <2>0. PICK a, S, c : a = asm /\ S = Instrs(at, asm.tail) /\ c = pc
    OBVIOUS
  <2>1. PICK u \in Users : u = user /\ a = asm /\ S = Instrs(at, asm.tail) /\ c = pc
    BY <2>0 DEF AsmInv
  <2>2. Phase(u, a, S, c)
    BY <2>1 DEF AsmInv
  <2>3. c \in {"start", "parse", "resolve", "done", "failed"} /\ pos \in 1 .. Len(source) + 1
    BY <2>2 DEF Phase, AsmInv
  <2>4. WellFormed(a.graph) /\ DOMAIN a.graph \subseteq 1 .. a.last_id /\ a.roots \subseteq DOMAIN a.graph
    <3>1. CASE c = "start"
      <4>1. a.graph = u.graph /\ a.last_id = u.last_id /\ a.roots = u.roots
        BY <2>2, <3>1 DEF Phase, Unused
      <4> QED BY <4>1, UserFacts
    <3>2. CASE c \in {"parse", "resolve"}
      BY <2>2, <3>2, BuiltTyped DEF Phase
    <3>3. CASE c = "done"
      BY <2>2, <3>3 DEF Phase, Finished
    <3>4. CASE c = "failed"
      BY <2>2, <3>4, FreedFacts DEF Phase
    <3> QED BY <2>3, <3>1, <3>2, <3>3, <3>4
  <2>5. c \in {"parse", "resolve", "done"} => {a.root, a.labels, a.head} \subseteq DOMAIN a.graph
    BY <2>2, BuiltTyped DEF Phase, Finished
  <2>6. c \in {"parse", "resolve"} => {a.tail, a.badref} \ {NullRef} \subseteq DOMAIN a.graph
    BY <2>2, BuiltTyped DEF Phase
  <2> QED BY <2>1, <2>3, <2>4, <2>5, <2>6 DEF TypeOK
<1> QED BY <1>1, AsmInvHolds, PTL

(* A text that is refused, at whatever line, leaves the graph its roots    *)
(* reached before, and nothing else (asm.c:91-101).                        *)
THEOREM AsmFailureFrees == Spec => []FailureFrees
<1>1. AsmInv => FailureFrees
  BY DEF AsmInv, Phase, Freed, FailureFrees
<1> QED BY <1>1, AsmInvHolds, PTL

(* At the end the references that waited are gone, and what the user's     *)
(* roots reach is as it was (asm.c:671-682).                               *)
THEOREM AsmDelayedFreed == Spec => []DelayedFreed
<1>1. AsmInv => DelayedFreed
  <2> SUFFICES ASSUME AsmInv, pc = "done" PROVE DelayedFreed
    BY DEF DelayedFreed
  <2>1. at \in Seq(Entry)
    BY DEF AsmInv
  <2>2. Finished(user, asm, Instrs(at, asm.tail))
    BY DEF AsmInv, Phase
  <2>3. Instrs(at, asm.tail) = {asm.tail} \cup {at[n].node : n \in DOMAIN at}
    BY <2>1 DEF Instrs
  <2> QED BY <2>2, <2>3 DEF DelayedFreed, Finished
<1> QED BY <1>1, AsmInvHolds, PTL

(* Every step gets further in the text, or to an older reference, or to    *)
(* the next part (asm.c:602-669).                                          *)
THEOREM AsmGetsOn == Spec => GetsOn
<1>1. AsmInv /\ [Next]_vars => [pc' = pc => pos' > pos \/ asm'.badref < asm.badref]_vars
  <2> SUFFICES ASSUME AsmInv, Next, pc' = pc PROVE pos' > pos \/ asm'.badref < asm.badref
    OBVIOUS
  <2>1. CASE Start
    BY <2>1 DEF Start
  <2>2. CASE ParseLine
    <3>1. pos \in 1 .. Len(source) /\ Len(source) \in Nat /\ pc = "parse"
      BY <2>2, LineCases, TextFacts DEF AsmInv
    <3>2. pos' = pos + 1 \/ pos' = pos + 2
      BY <2>2, <3>1, LineCases
    <3> QED BY <3>1, <3>2
  <2>3. CASE ParseEnd
    BY <2>3 DEF ParseEnd
  <2>4. CASE Resolve
    <3>1. PICK u, a, b, S : u = user /\ a = asm /\ b = asm' /\ S = Instrs(at, asm.tail)
      OBVIOUS
    <3>2. pc = "resolve" /\ Built(u, a, S) /\ a.badref # NullRef /\ u \in Users
      BY <2>4, <3>1, ResolveCases DEF AsmInv
    <3>3. Precedes(b.badref, a.badref, Waiting(u, a, S))
      BY <2>4, <3>1, <3>2, ResolveCases DEF Patched
    <3>4. a.badref \in Waiting(u, a, S) /\ a.badref \in 1 .. a.last_id /\ a.last_id \in Nat
      BY <3>2, AsmTypes DEF Built, Layout, Waiting
    <3>5. b.badref < a.badref
      BY <3>3, <3>4 DEF Precedes, NullRef
    <3> QED BY <3>1, <3>5
  <2>5. CASE ResolveEnd
    BY <2>5 DEF ResolveEnd
  <2> QED BY <2>1, <2>2, <2>3, <2>4, <2>5 DEF Next
<1> QED BY <1>1, AsmInvHolds, PTL DEF Spec, GetsOn

-----------------------------------------------------------------------------
(***************************************************************************)
(* What the program says.  The text and the instructions made so far, t,   *)
(* determine what the graph of the assembler a has to be.                  *)
(***************************************************************************)
(* The node of the instruction after the n-th.                             *)
Follows(t, tail, n) == IF n = Len(t) THEN tail ELSE t[n + 1].node

(* x is the node of the first instruction from line i on.                  *)
IsFrom(t, tail, i, x) ==
    \E n \in 0 .. Len(t) : /\ \A m \in 1 .. Len(t) : IF m <= n THEN t[m].line < i ELSE t[m].line >= i
                           /\ x = Follows(t, tail, n)

(* The instructions are the lines with an opcode before p, in order.       *)
Recorded(text, t, p) ==
    /\ \A n \in 1 .. Len(t) : /\ t[n].line \in 1 .. Len(text) /\ t[n].line < p
                              /\ text[t[n].line].kind = "op"
    /\ \A i \in 1 .. Len(text) : i < p /\ text[i].kind = "op" =>
          \E n \in 1 .. Len(t) : t[n].line = i
    /\ \A m, n \in 1 .. Len(t) : m < n => t[m].line < t[n].line

Distinct(t, tail) == \A n \in 1 .. Len(t) : /\ t[n].node # tail
                                            /\ \A m \in 1 .. Len(t) : t[m].node = t[n].node => m = n

(* The table has the labels of the lines before p.                         *)
Noted(text, a, t, p) ==
    \A l \in DOMAIN a.graph[a.labels] : \E i \in 1 .. Len(text), x \in Int :
        /\ i < p /\ text[i].kind = "label" /\ text[i].name = l
        /\ IsFrom(t, a.tail, i, x) /\ a.graph[a.labels][l] = Ref(x)

(* Every instruction has what its line writes, but for what waits in D.    *)
WrittenAt(text, a, t, D, n) ==
    LET w == Writes(text[t[n].line])
    IN  Progress(a, D, t[n].node, w, Len(w), Given(Follows(t, a.tail, n)))

Faithful(text, a, t, p, D) ==
    /\ Recorded(text, t, p) /\ Distinct(t, a.tail) /\ Noted(text, a, t, p)
    /\ \A n \in 1 .. Len(t) : WrittenAt(text, a, t, D, n)
    /\ a.head = Follows(t, a.tail, 0)

(* What a careful text does not do.                                        *)
Once(text) == \A i, j \in 1 .. Len(text) :
    text[i].kind = "label" /\ text[j].kind = "label" /\ text[i].name = text[j].name => i = j

LabelsLast(w) == \A m, n \in 1 .. Len(w) : m < n /\ w[m][1] = w[n][1] => ~ IsLabel(w[m][2])

CarefulText(text) ==
    /\ Once(text)
    /\ \A i \in 1 .. Len(text) : text[i].kind = "op" => LabelsLast(Writes(text[i]))

LEMMA FromAppended ==
    ASSUME NEW t, NEW v, NEW l \in Nat, NEW x, Extended(t, v, l, x), \A n \in 1 .. Len(t) : t[n].line \in Nat,
           NEW i \in Nat, i <= l, NEW y, IsFrom(t, x, i, y), NEW r
    PROVE  IsFrom(v, r, i, y)
<1>1. /\ Len(v) = Len(t) + 1 /\ Len(t) \in Nat /\ \A n \in 1 .. Len(t) : v[n] = t[n]
      /\ v[Len(t) + 1].line = l /\ v[Len(t) + 1].node = x
  BY DEF Extended
<1>2. PICK n \in 0 .. Len(t) :
        /\ \A m \in 1 .. Len(t) : IF m <= n THEN t[m].line < i ELSE t[m].line >= i
        /\ y = Follows(t, x, n)
  BY DEF IsFrom
<1>3. n \in 0 .. Len(v) /\ n # Len(v) /\ n + 1 \in 1 .. Len(v)
  BY <1>1
<1>4. y = Follows(v, r, n)
  <2>1. CASE n = Len(t)
    BY <1>1, <1>2, <1>3, <2>1 DEF Follows
  <2>2. CASE n # Len(t)
    <3>1. n + 1 \in 1 .. Len(t)
      BY <1>1, <2>2
    <3> QED BY <1>1, <1>2, <1>3, <2>2, <3>1 DEF Follows
  <2> QED BY <2>1, <2>2
<1>5. ASSUME NEW m \in 1 .. Len(v) PROVE IF m <= n THEN v[m].line < i ELSE v[m].line >= i
  <2>1. CASE m = Len(t) + 1
    BY <1>1, <2>1
  <2>2. CASE m # Len(t) + 1
    <3>1. m \in 1 .. Len(t)
      BY <1>1, <2>2
    <3> QED BY <1>1, <1>2, <3>1
  <2> QED BY <2>1, <2>2
<1> QED BY <1>3, <1>4, <1>5 DEF IsFrom

LEMMA FollowsAppended ==
    ASSUME NEW t, NEW v, NEW l, NEW x, Extended(t, v, l, x), NEW r
    PROVE  /\ \A n \in 0 .. Len(t) : Follows(v, r, n) = Follows(t, x, n)
           /\ Follows(v, r, Len(v)) = r
<1>1. /\ Len(v) = Len(t) + 1 /\ Len(t) \in Nat /\ \A n \in 1 .. Len(t) : v[n] = t[n]
      /\ v[Len(t) + 1].node = x
  BY DEF Extended
<1>2. ASSUME NEW n \in 0 .. Len(t) PROVE Follows(v, r, n) = Follows(t, x, n)
  <2>1. n # Len(v)
    BY <1>1
  <2>2. n # Len(t) => n + 1 \in 1 .. Len(t)
    BY <1>1
  <2> QED BY <1>1, <2>1, <2>2 DEF Follows
<1> QED BY <1>1, <1>2 DEF Follows

LEMMA BeginsFaithful ==
    ASSUME NEW u \in Users, NEW text, NEW b, Begun(u, b), NEW p, p = 1
    PROVE  Faithful(text, b, <<>>, p, {}) /\ Fresh(b, {}, b.tail)
<1>1. Len(<<>>) = 0
  OBVIOUS
<1>2. Recorded(text, <<>>, p) /\ Distinct(<<>>, b.tail)
  <2>1. \A i \in 1 .. Len(text) : ~ (i < 1)
    OBVIOUS
  <2> QED BY <1>1, <2>1 DEF Recorded, Distinct
<1>3. Noted(text, b, <<>>, p)
  BY DEF Begun, Noted
<1>4. \A n \in 1 .. Len(<<>>) : WrittenAt(text, b, <<>>, {}, n)
  BY <1>1
<1>5. b.head = Follows(<<>>, b.tail, 0)
  BY <1>1 DEF Begun, Follows
<1>6. Fresh(b, {}, b.tail)
  BY DEF Begun, Fresh
<1> QED BY <1>2, <1>3, <1>4, <1>5, <1>6 DEF Faithful

(* Lines that say nothing.                                                 *)
LEMMA FaithfulOn ==
    ASSUME NEW text, NEW a, NEW t, NEW p \in Nat, NEW D, Faithful(text, a, t, p, D),
           \A n \in 1 .. Len(t) : t[n].line \in Nat,
           text[p].kind # "op"
    PROVE  Faithful(text, a, t, p + 1, D)
<1>1. Recorded(text, t, p + 1)
  <2>1. \A i \in 1 .. Len(text) : i < p + 1 => i < p \/ i = p
    OBVIOUS
  <2>2. \A i \in Nat : i < p => i < p + 1
    OBVIOUS
  <2> QED BY <2>1, <2>2 DEF Faithful, Recorded
<1>2. Noted(text, a, t, p + 1)
  <2>1. \A i \in 1 .. Len(text) : i < p => i < p + 1
    OBVIOUS
  <2> QED BY <2>1 DEF Faithful, Noted
<1> QED BY <1>1, <1>2 DEF Faithful

(* A line with a label that is nowhere else.                               *)
LEMMA LabelFaithful ==
    ASSUME NEW u \in Users, NEW text, NEW a, NEW t, NEW p \in 1 .. Len(text), Len(text) \in Nat,
           NEW S, S = Instrs(t, a.tail), Built(u, a, S), NEW W, W = Waiting(u, a, S),
           \A n \in 1 .. Len(t) : t[n].line \in Nat, Len(t) \in Nat,
           Faithful(text, a, t, p, W), Fresh(a, W, a.tail), Once(text),
           text[p].kind = "label", text[p].name \in Names,
           NEW b, b = Set(a, a.labels, text[p].name, Ref(a.tail))
    PROVE  Faithful(text, b, t, p + 1, W) /\ Fresh(b, W, b.tail)
<1>1. /\ S \subseteq DOMAIN a.graph /\ a.tail \in S /\ a.labels \notin S /\ a.tail \in Int
      /\ a.labels \in DOMAIN a.graph /\ \A n \in W : n \in DOMAIN a.graph /\ n # a.labels
  BY BuiltDistinct
<1>2. Built(u, b, S) /\ Waiting(u, b, S) = W
  BY <1>1, BuiltLabel
<1>3. PICK l \in Names : l = text[p].name
  OBVIOUS
<1>4. Wrote(a, b, a.labels, l, Ref(a.tail))
  BY <1>1, <1>3, SetFacts, ValueTypes DEF Built
<1>5. /\ b.tail = a.tail /\ b.labels = a.labels /\ b.head = a.head
      /\ \A m \in DOMAIN a.graph : m # a.labels => b.graph[m] = a.graph[m]
      /\ DOMAIN b.graph[a.labels] = DOMAIN a.graph[a.labels] \cup {l}
      /\ b.graph[a.labels][l] = Ref(a.tail)
      /\ \A j \in DOMAIN a.graph[a.labels] : j # l => b.graph[a.labels][j] = a.graph[a.labels][j]
      /\ DOMAIN b.graph = DOMAIN a.graph
  BY <1>4 DEF Wrote, Alike
<1>6. Noted(text, a, t, p) /\ Recorded(text, t, p)
  BY DEF Faithful
<1>7. l \notin DOMAIN a.graph[a.labels]
  <2> SUFFICES ASSUME l \in DOMAIN a.graph[a.labels] PROVE FALSE
    OBVIOUS
  <2>1. PICK i \in 1 .. Len(text) : i < p /\ text[i].kind = "label" /\ text[i].name = l
    BY <1>6 DEF Noted
  <2> QED BY <1>3, <2>1 DEF Once
<1>8. Recorded(text, t, p + 1)
  <2>1. \A i \in 1 .. Len(text) : i < p + 1 => i < p \/ i = p
    OBVIOUS
  <2>2. \A i \in Nat : i < p => i < p + 1
    OBVIOUS
  <2> QED BY <1>6, <2>1, <2>2 DEF Recorded
<1>9. IsFrom(t, a.tail, p, a.tail)
  <2>1. \A m \in 1 .. Len(t) : m <= Len(t) /\ t[m].line < p
    BY <1>6 DEF Recorded
  <2>2. Len(t) \in 0 .. Len(t) /\ a.tail = Follows(t, a.tail, Len(t))
    BY DEF Follows
  <2> QED BY <2>1, <2>2 DEF IsFrom
<1>10. Noted(text, b, t, p + 1)
  <2> SUFFICES ASSUME NEW j \in DOMAIN b.graph[a.labels]
               PROVE  \E i \in 1 .. Len(text), x \in Int :
                         /\ i < p + 1 /\ text[i].kind = "label" /\ text[i].name = j
                         /\ IsFrom(t, a.tail, i, x) /\ b.graph[a.labels][j] = Ref(x)
    BY <1>5 DEF Noted
  <2>1. CASE j = l
    BY <1>1, <1>3, <1>5, <1>9, <2>1
  <2>2. CASE j # l
    <3>1. PICK i \in 1 .. Len(text), x \in Int :
             /\ i < p /\ text[i].kind = "label" /\ text[i].name = j
             /\ IsFrom(t, a.tail, i, x) /\ a.graph[a.labels][j] = Ref(x)
      BY <1>5, <1>6, <2>2 DEF Noted
    <3>2. i < p + 1
      BY <3>1
    <3> QED BY <1>5, <2>2, <3>1, <3>2
  <2> QED BY <2>1, <2>2
<1>11. ASSUME NEW n \in 1 .. Len(t) PROVE WrittenAt(text, b, t, W, n)
  <2>1. PICK x, w, m, given : x = t[n].node /\ w = Writes(text[t[n].line]) /\ m = Len(w)
                              /\ given = Given(Follows(t, a.tail, n))
    OBVIOUS
  <2>2. Progress(a, W, x, w, m, given)
    BY <2>1 DEF Faithful, WrittenAt
  <2>3. x \in S
    BY <2>1 DEF Instrs
  <2>4. \A k \in DOMAIN a.graph[x] : ~ Is(a.graph[x][k], "none")
    BY <1>1, <2>3, AsmTypes, ValueTypes DEF Built, IsNode
  <2>5. /\ b.graph[x] = a.graph[x] /\ \A d \in W : b.graph[d] = a.graph[d]
        /\ a.labels \in DOMAIN b.graph
        /\ \A j \in DOMAIN a.graph[a.labels] :
             j \in DOMAIN b.graph[a.labels] /\ b.graph[a.labels][j] = a.graph[a.labels][j]
    BY <1>1, <1>5, <1>7, <2>3
  <2>6. Progress(b, W, x, w, m, given)
    <3>1. Beside(a, b, W, W, x)
      BY <1>1, <1>5, <2>4, <2>5 DEF Beside
    <3> QED BY <2>2, <3>1, Undisturbed
  <2> QED BY <1>5, <2>1, <2>6 DEF WrittenAt
<1>12. Fresh(b, W, b.tail)
  BY <1>1, <1>5 DEF Fresh
<1>13. Distinct(t, b.tail) /\ b.head = Follows(t, b.tail, 0)
  BY <1>5 DEF Faithful
<1> QED BY <1>8, <1>10, <1>11, <1>12, <1>13 DEF Faithful

(* A line with an opcode.                                                  *)
LEMMA OpcodeFaithful ==
    ASSUME NEW u \in Users, NEW text, NEW a, NEW t, NEW p \in 1 .. Len(text), Len(text) \in Nat,
           NEW S, S = Instrs(t, a.tail), Built(u, a, S), NEW W, W = Waiting(u, a, S),
           \A n \in 1 .. Len(t) : t[n].line \in Nat, Len(t) \in Nat,
           Faithful(text, a, t, p, W), Fresh(a, W, a.tail), text[p].kind = "op",
           NEW b, OpcodeDone(u, a, b, S, b.tail, text[p]), NEW v, Extended(t, v, p, a.tail),
           NEW V, V = Waiting(u, b, S \cup {b.tail})
    PROVE  Faithful(text, b, v, p + 1, V) /\ Fresh(b, V, b.tail)
<1>1. /\ S \subseteq DOMAIN a.graph /\ a.tail \in S /\ a.labels \notin S /\ a.tail \in Int
      /\ a.labels \in DOMAIN a.graph
      /\ \A n \in W : n \in DOMAIN a.graph /\ n \notin S /\ n # a.labels
  BY BuiltDistinct
<1>2. PICK r, x : r = b.tail /\ x = a.tail
  OBVIOUS
<1>3. /\ r \notin DOMAIN a.graph /\ b.labels = a.labels /\ b.head = a.head
      /\ W \subseteq V /\ DOMAIN b.graph[r] = {}
      /\ \A n \in S \cup {a.labels} \cup W : n # x => b.graph[n] = a.graph[n]
      /\ \A n \in V : n \in W \/ b.graph[n]["inst"] = Ref(x)
      /\ Progress(b, V, x, Writes(text[p]), Len(Writes(text[p])), Given(r))
      /\ Built(u, b, S \cup {r})
  BY <1>2, Zenon DEF OpcodeDone
<1>4. /\ Len(v) = Len(t) + 1 /\ \A n \in 1 .. Len(t) : v[n] = t[n]
      /\ v[Len(t) + 1].line = p /\ v[Len(t) + 1].node = x
  BY <1>2 DEF Extended
<1>5. /\ \A n \in 1 .. Len(v) : n \in 1 .. Len(t) \/ n = Len(t) + 1
      /\ \A n \in 1 .. Len(t) : n \in 1 .. Len(v) /\ n \in 0 .. Len(t)
      /\ Len(t) + 1 \in 1 .. Len(v) /\ 0 \in 0 .. Len(t)
  BY <1>4
<1>6. /\ \A n \in 0 .. Len(t) : Follows(v, r, n) = Follows(t, x, n)
      /\ Follows(v, r, Len(t) + 1) = r
  <2>1. Extended(t, v, p, x)
    BY <1>2
  <2> QED BY <1>4, <2>1, FollowsAppended
<1>7. Recorded(text, t, p) /\ Distinct(t, x) /\ Noted(text, a, t, p) /\ a.head = Follows(t, x, 0)
  BY <1>2 DEF Faithful
<1>8. Recorded(text, v, p + 1)
  <2>1. \A n \in 1 .. Len(v) : v[n].line \in 1 .. Len(text) /\ v[n].line < p + 1 /\ text[v[n].line].kind = "op"
    <3>1. \A i \in 1 .. Len(text) : i < p => i < p + 1
      OBVIOUS
    <3> QED BY <1>4, <1>5, <1>7, <3>1 DEF Recorded
  <2>2. ASSUME NEW i \in 1 .. Len(text), i < p + 1, text[i].kind = "op"
        PROVE  \E n \in 1 .. Len(v) : v[n].line = i
    <3>1. i < p \/ i = p
      BY <2>2
    <3> QED BY <1>4, <1>5, <1>7, <2>2, <3>1 DEF Recorded
  <2>3. ASSUME NEW m \in 1 .. Len(v), NEW n \in 1 .. Len(v), m < n PROVE v[m].line < v[n].line
    <3>1. m \in 1 .. Len(t)
      BY <1>4, <2>3
    <3>2. CASE n \in 1 .. Len(t)
      BY <1>4, <1>7, <2>3, <3>1, <3>2 DEF Recorded
    <3>3. CASE n = Len(t) + 1
      BY <1>4, <1>7, <3>1, <3>3 DEF Recorded
    <3> QED BY <1>5, <3>2, <3>3
  <2> QED BY <2>1, <2>2, <2>3 DEF Recorded
<1>9. Distinct(v, r)
  <2>1. \A n \in 1 .. Len(t) : t[n].node # x /\ t[n].node \in S
    BY <1>7 DEF Distinct, Instrs
  <2>2. \A n \in 1 .. Len(v) : v[n].node # r
    BY <1>1, <1>2, <1>3, <1>4, <1>5, <2>1
  <2>3. ASSUME NEW m \in 1 .. Len(v), NEW n \in 1 .. Len(v), v[m].node = v[n].node PROVE m = n
    <3>1. CASE m \in 1 .. Len(t) /\ n \in 1 .. Len(t)
      BY <1>4, <1>7, <2>3, <3>1 DEF Distinct
    <3>2. CASE m = Len(t) + 1 \/ n = Len(t) + 1
      BY <1>4, <1>5, <2>1, <2>3, <3>2
    <3> QED BY <1>5, <3>1, <3>2
  <2> QED BY <2>2, <2>3 DEF Distinct
<1>10. b.graph[a.labels] = a.graph[a.labels] /\ a.labels \in DOMAIN b.graph
  <2>1. a.labels # x
    BY <1>1, <1>2
  <2>2. b.labels \in DOMAIN b.graph
    BY <1>3, BuiltDistinct
  <2> QED BY <1>3, <2>1, <2>2
<1>11. Noted(text, b, v, p + 1)
  <2> SUFFICES ASSUME NEW l \in DOMAIN b.graph[b.labels]
               PROVE  \E i \in 1 .. Len(text), y \in Int :
                         /\ i < p + 1 /\ text[i].kind = "label" /\ text[i].name = l
                         /\ IsFrom(v, b.tail, i, y) /\ b.graph[b.labels][l] = Ref(y)
    BY DEF Noted
  <2>1. PICK i \in 1 .. Len(text), y \in Int :
           /\ i < p /\ text[i].kind = "label" /\ text[i].name = l
           /\ IsFrom(t, a.tail, i, y) /\ a.graph[a.labels][l] = Ref(y)
    BY <1>3, <1>7, <1>10 DEF Noted
  <2>2. i < p + 1 /\ i <= p /\ i \in Nat /\ p \in Nat
    BY <2>1
  <2>3. IsFrom(v, r, i, y)
    BY <2>1, <2>2, FromAppended
  <2> QED BY <1>2, <1>3, <1>10, <2>1, <2>2, <2>3
<1>12. ASSUME NEW n \in 1 .. Len(t) PROVE WrittenAt(text, b, v, V, n)
  <2>1. PICK y, w, m, given : y = t[n].node /\ w = Writes(text[t[n].line]) /\ m = Len(w)
                              /\ given = Given(Follows(t, x, n))
    OBVIOUS
  <2>2. Progress(a, W, y, w, m, given)
    BY <1>2, <2>1 DEF Faithful, WrittenAt
  <2>3. y \in S /\ y # x /\ y \in Int /\ x \in Int
    BY <1>1, <1>2, <1>7, <2>1, AsmTypes DEF Instrs, Distinct, Built
  <2>4. \A k \in DOMAIN a.graph[y] : ~ Is(a.graph[y][k], "none")
    BY <1>1, <2>3, AsmTypes, ValueTypes DEF Built, IsNode
  <2>5. Ref(x) # Ref(y)
    BY <2>3, ValueTypes
  <2>6. /\ b.graph[y] = a.graph[y] /\ W \subseteq V /\ \A d \in W : b.graph[d] = a.graph[d]
        /\ \A d \in V : d \in W \/ b.graph[d]["inst"] # Ref(y)
        /\ b.labels = a.labels /\ a.labels \in DOMAIN a.graph /\ a.labels \in DOMAIN b.graph
        /\ \A j \in DOMAIN a.graph[a.labels] :
             j \in DOMAIN b.graph[a.labels] /\ b.graph[a.labels][j] = a.graph[a.labels][j]
    BY <1>1, <1>2, <1>3, <1>10, <2>3, <2>5
  <2>7. Progress(b, V, y, w, m, given)
    <3>1. Beside(a, b, W, V, y)
      BY <2>4, <2>6 DEF Beside
    <3> QED BY <2>2, <3>1, Undisturbed
  <2>8. v[n] = t[n] /\ Follows(v, r, n) = Follows(t, x, n)
    BY <1>4, <1>5, <1>6
  <2> QED BY <1>2, <2>1, <2>7, <2>8 DEF WrittenAt
<1>13. WrittenAt(text, b, v, V, Len(t) + 1)
  BY <1>2, <1>3, <1>4, <1>6 DEF WrittenAt
<1>14. \A n \in 1 .. Len(v) : WrittenAt(text, b, v, V, n)
  BY <1>5, <1>12, <1>13
<1>15. Fresh(b, V, b.tail)
  <2>1. ASSUME NEW d \in V PROVE b.graph[d]["inst"] # Ref(r)
    <3>1. r \in Int /\ x \in Int /\ r # x
      BY <1>1, <1>2, <1>3, BuiltDistinct
    <3>2. CASE d \in W
      <4>1. PICK l, k \in Names, y \in S, next \in W \cup {NullRef} : Waits(a.graph, d, l, y, k, next)
        BY <3>2 DEF Built, IsDelayed
      <4>2. b.graph[d]["inst"] = Ref(y)
        BY <1>1, <1>2, <1>3, <3>2, <4>1 DEF Waits
      <4>3. y # r /\ y \in Int
        BY <1>1, <1>3, AsmTypes DEF Built
      <4>4. Ref(y) # Ref(r)
        BY <3>1, <4>3, ValueTypes
      <4> QED BY <4>2, <4>4
    <3>3. CASE d \notin W
      <4>1. Ref(x) # Ref(r)
        BY <3>1, ValueTypes
      <4> QED BY <1>3, <3>3, <4>1
    <3> QED BY <3>2, <3>3
  <2> QED BY <1>2, <1>3, <2>1 DEF Fresh
<1>16. b.head = Follows(v, r, 0)
  BY <1>3, <1>5, <1>6, <1>7
<1> QED BY <1>2, <1>8, <1>9, <1>11, <1>14, <1>15, <1>16 DEF Faithful

(* What has still to be patched.                                           *)
Pending(u, a, S) == {d \in Waiting(u, a, S) : d <= a.badref}

(* One is.                                                                 *)
LEMMA PatchFaithful ==
    ASSUME NEW u \in Users, NEW text, NEW a, NEW t, Len(t) \in Nat,
           NEW S, S = Instrs(t, a.tail), Built(u, a, S),
           NEW p, Faithful(text, a, t, p, Pending(u, a, S)), CarefulText(text),
           a.badref # NullRef,
           \A n \in 1 .. Len(t) : Len(Writes(text[t[n].line])) \in Nat,
           NEW b, NEW label, NEW k, NEW x, Patched(u, a, b, S, label, x, k)
    PROVE  Faithful(text, b, t, p, Pending(u, b, S))
<1>1. /\ S \subseteq DOMAIN a.graph /\ a.tail \in S /\ a.labels \notin S /\ a.tail \in Int
      /\ a.labels \in DOMAIN a.graph
      /\ \A n \in Waiting(u, a, S) : n \in DOMAIN a.graph /\ n \notin S /\ n # a.labels
  BY BuiltDistinct
<1>2. PICK W, d, D, E : /\ W = Waiting(u, a, S) /\ d = a.badref
                        /\ D = Pending(u, a, S) /\ E = Pending(u, b, S)
  OBVIOUS
<1>3. /\ Built(u, b, S) /\ Alike(a, b) /\ Waiting(u, b, S) = W
      /\ b.badref \in Int /\ Precedes(b.badref, d, W)
      /\ label \in Names /\ k \in Names /\ x \in S
      /\ label \in DOMAIN a.graph[a.labels]
      /\ Wants(a.graph, d, label, x, k)
      /\ \A n \in DOMAIN a.graph : n # x => b.graph[n] = a.graph[n]
      /\ DOMAIN b.graph[x] = DOMAIN a.graph[x] \cup {k}
      /\ b.graph[x][k] = a.graph[a.labels][label]
      /\ \A j \in DOMAIN a.graph[x] : j # k => b.graph[x][j] = a.graph[x][j]
  BY <1>2 DEF Patched
<1>4. d \in W /\ W \subseteq Int /\ \A n \in W : n >= 1
  BY <1>2, AsmTypes DEF Built, Waiting, Layout
<1>5. d \in D /\ D \subseteq W /\ E \subseteq D /\ \A n \in D : n \in E \/ n = d
  <2>1. \A n \in W : n \in D <=> n <= d
    BY <1>2 DEF Pending
  <2>2. \A n \in W : n \in E <=> n <= b.badref
    BY <1>2, <1>3 DEF Pending
  <2>3. D \subseteq W /\ E \subseteq W
    BY <1>2, <1>3 DEF Pending
  <2>4. \A n \in W : n <= b.badref => n <= d
    BY <1>3, <1>4 DEF Precedes, NullRef
  <2>5. \A n \in W : n <= d => n <= b.badref \/ n = d
    BY <1>3, <1>4 DEF Precedes
  <2> QED BY <1>4, <2>1, <2>2, <2>3, <2>4, <2>5
<1>6. b.labels = a.labels /\ b.tail = a.tail /\ b.head = a.head
      /\ b.graph[a.labels] = a.graph[a.labels] /\ a.labels \in DOMAIN b.graph
  <2>1. b.labels \in DOMAIN b.graph
    BY <1>3, BuiltDistinct
  <2> QED BY <1>1, <1>3, <2>1 DEF Alike
<1>7. \A o : Now(b, o) = Now(a, o)
  BY <1>1, <1>6 DEF Now, Get
<1>8. \A n \in D : b.graph[n] = a.graph[n]
  BY <1>1, <1>2, <1>3, <1>5
<1>9. \A n \in D : \A l, y, j : Wants(b.graph, n, l, y, j) <=> Wants(a.graph, n, l, y, j)
  BY <1>8 DEF Wants
<1>10. x \in Int
  BY <1>1, <1>3, AsmTypes DEF Built
<1>11. ASSUME NEW n \in 1 .. Len(t) PROVE WrittenAt(text, b, t, E, n)
  <2>1. PICK y, w, m, given : y = t[n].node /\ w = Writes(text[t[n].line]) /\ m = Len(w)
                              /\ given = Given(Follows(t, a.tail, n))
    OBVIOUS
  <2>2. Progress(a, D, y, w, m, given)
    BY <1>2, <2>1 DEF Faithful, WrittenAt
  <2>3. y \in S /\ y \in Int /\ m \in Nat
    BY <1>1, <2>1, AsmTypes DEF Instrs, Built
  <2>4. LabelsLast(w)
    <3>1. text[t[n].line].kind = "op" /\ t[n].line \in 1 .. Len(text)
      BY DEF Faithful, Recorded
    <3> QED BY <2>1, <3>1 DEF CarefulText
  <2>5. /\ \A j \in DOMAIN a.graph[y] : j \in DOMAIN given \/ \E i \in 1 .. m : w[i][1] = j
        /\ \A j \in DOMAIN given : (\A i \in 1 .. m : w[i][1] # j) =>
             j \in DOMAIN a.graph[y] /\ a.graph[y][j] = given[j]
        /\ \A j \in 1 .. m : Last(w, j, m) => Holds(a, D, y, w[j][1], w[j][2])
        /\ \A e \in D : \A s, j \in Names : Wants(a.graph, e, s, y, j) =>
             \E i \in 1 .. m : w[i][1] = j /\ w[i][2] = <<":", s>>
    BY <2>2, Zenon DEF Progress
  <2>6. ASSUME NEW e \in E, NEW s \in Names, NEW j \in Names, Wants(b.graph, e, s, y, j)
        PROVE  \E i \in 1 .. m : w[i][1] = j /\ w[i][2] = <<":", s>>
    <3>1. e \in D
      BY <1>5
    <3>2. Wants(a.graph, e, s, y, j)
      BY <1>9, <2>6, <3>1
    <3> QED BY <2>5, <3>1, <3>2
  <2>7. CASE y # x
    <3>1. b.graph[y] = a.graph[y]
      BY <1>1, <1>3, <2>3, <2>7
    <3>2. \A l, j : ~ Wants(a.graph, d, l, y, j)
      BY <1>3, <1>10, <2>3, <2>7, ValueTypes DEF Wants
    <3>3. \A j \in 1 .. m : Last(w, j, m) => Holds(b, E, y, w[j][1], w[j][2])
      BY <1>5, <1>7, <1>9, <2>5, <3>1, <3>2 DEF Holds
    <3>4. Progress(b, E, y, w, m, given)
      BY <2>5, <2>6, <3>1, <3>3 DEF Progress
    <3> QED BY <1>6, <2>1, <3>4 DEF WrittenAt
  <2>8. CASE y = x
    <3>0. \A e \in D : \A s, j \in Names : Wants(a.graph, e, s, y, j) =>
             \E i \in 1 .. m : w[i][1] = j /\ w[i][2] = <<":", s>>
      BY <2>5
    <3>1. PICK i \in 1 .. m : w[i][1] = k /\ w[i][2] = <<":", label>>
      <4>1. d \in D /\ label \in Names /\ k \in Names /\ Wants(a.graph, d, label, y, k)
        BY <1>3, <1>5, <2>8
      <4> QED BY <3>0, <4>1
    <3>2. IsLabel(w[i][2]) /\ w[i][2][2] = label
      BY <3>1 DEF IsLabel
    <3>3. b.graph[x][k] = Now(b, w[i][2])
      BY <1>1, <1>3, <1>6, <3>2 DEF Now, Get
    <3>4. ASSUME NEW j \in 1 .. m, Last(w, j, m) PROVE Holds(b, E, x, w[j][1], w[j][2])
      <4>1. CASE w[j][1] = k
        <5>1. ~ (j < i)
          <6> SUFFICES ASSUME j < i PROVE FALSE
            OBVIOUS
          <6>1. i \in j + 1 .. m
            OBVIOUS
          <6> QED BY <3>1, <3>4, <4>1, <6>1 DEF Last
        <5>2. ~ (i < j)
          BY <2>1, <2>4, <3>1, <3>2, <4>1 DEF LabelsLast
        <5>3. i = j
          BY <2>3, <5>1, <5>2
        <5> QED BY <1>3, <3>3, <4>1, <5>3 DEF Holds
      <4>2. CASE w[j][1] # k
        <5>1. Holds(a, D, x, w[j][1], w[j][2])
          BY <2>5, <2>8, <3>4
        <5>2. \A l, o : Wants(a.graph, d, l, x, o) /\ o = w[j][1] => FALSE
          <6> SUFFICES ASSUME NEW l, Wants(a.graph, d, l, x, w[j][1]) PROVE FALSE
            OBVIOUS
          <6>1. Sym(k) = Sym(w[j][1])
            BY <1>3 DEF Wants
          <6> QED BY <4>2, <6>1 DEF Sym
        <5>3. CASE w[j][1] \in DOMAIN a.graph[x] /\ a.graph[x][w[j][1]] = Now(a, w[j][2])
          BY <1>3, <1>7, <4>2, <5>3 DEF Holds
        <5>4. CASE IsLabel(w[j][2]) /\ \E e \in D : Wants(a.graph, e, w[j][2][2], x, w[j][1])
          BY <1>5, <1>9, <5>2, <5>4 DEF Holds
        <5> QED BY <5>1, <5>3, <5>4 DEF Holds
      <4> QED BY <4>1, <4>2
    <3>5. \A j \in DOMAIN b.graph[x] : j \in DOMAIN given \/ \E o \in 1 .. m : w[o][1] = j
      BY <1>3, <2>5, <2>8, <3>1
    <3>6. \A j \in DOMAIN given : (\A o \in 1 .. m : w[o][1] # j) =>
             j \in DOMAIN b.graph[x] /\ b.graph[x][j] = given[j]
      BY <1>3, <2>5, <2>8, <3>1
    <3>7. Progress(b, E, x, w, m, given)
      BY <2>6, <2>8, <3>4, <3>5, <3>6 DEF Progress
    <3> QED BY <1>6, <2>1, <2>8, <3>7 DEF WrittenAt
  <2> QED BY <2>7, <2>8
<1>12. Noted(text, b, t, p)
  BY <1>6 DEF Faithful, Noted
<1> QED BY <1>2, <1>6, <1>11, <1>12 DEF Faithful

LEMMA CarefulMeans ==
    ASSUME AsmInv, Careful
    PROVE  CarefulText(source)
<1>1. source \in Sources /\ Len(source) \in Nat /\ DOMAIN source = 1 .. Len(source)
      /\ \A i \in 1 .. Len(source) : IsLine(source[i])
  BY TextFacts DEF AsmInv
<1>2. Once(source)
  <2> SUFFICES ASSUME NEW i \in 1 .. Len(source), NEW j \in 1 .. Len(source),
                      source[i].kind = "label", source[j].kind = "label",
                      source[i].name = source[j].name
               PROVE  i = j
    BY DEF Once
  <2>1. PICK M : M = Marks(source[i].name)
    OBVIOUS
  <2>2. i \in M /\ j \in M /\ M \subseteq 1 .. Len(source)
    BY <1>1, <2>1 DEF Marks
  <2>3. Cardinality(M) = 1
    BY <1>1, <2>1 DEF Careful
  <2>4. IsFiniteSet(1 .. Len(source))
    BY <1>1, FS_Interval
  <2>5. IsFiniteSet(M)
    BY <2>2, <2>4, FS_Subset
  <2>6. \E e : M = {e}
    BY <2>3, <2>5, FS_Singleton
  <2> QED BY <2>2, <2>6
<1>3. ASSUME NEW i \in 1 .. Len(source), source[i].kind = "op" PROVE LabelsLast(Writes(source[i]))
  <2>1. PICK w \in Seq(Pairs) : w = Writes(source[i])
    BY <1>1, <1>3, LineFacts
  <2>2. \A m, n \in DOMAIN w : m < n /\ w[m][1] = w[n][1] => ~ IsLabel(w[m][2])
    BY <1>1, <1>3, <2>1 DEF Careful
  <2>3. DOMAIN w = 1 .. Len(w)
    OBVIOUS
  <2> QED BY <2>1, <2>2, <2>3 DEF LabelsLast
<1> QED BY <1>2, <1>3 DEF CarefulText

LEMMA EntryFacts ==
    ASSUME NEW t \in Seq(Entry)
    PROVE  /\ Len(t) \in Nat /\ DOMAIN t = 1 .. Len(t)
           /\ \A n \in 1 .. Len(t) : t[n].line \in Nat /\ t[n].node \in Int
<1>1. Len(t) \in Nat /\ DOMAIN t = 1 .. Len(t) /\ \A n \in 1 .. Len(t) : t[n] \in Entry
  OBVIOUS
<1>2. \A e \in Entry : e.line \in Nat /\ e.node \in Int
  BY DEF Entry
<1> QED BY <1>1, <1>2

LEMMA MinIs ==
    ASSUME NEW S \in SUBSET Int, NEW m \in S, \A n \in S : m <= n
    PROVE  Min(S) = m
<1>1. Min(S) \in S /\ \A n \in S : Min(S) <= n
  BY DEF Min
<1>2. PICK n \in Int : n = Min(S)
  BY <1>1
<1>3. n <= m /\ m <= n /\ m \in Int
  BY <1>1, <1>2
<1> QED BY <1>2, <1>3

LEMMA MaxIs ==
    ASSUME NEW S \in SUBSET Int, NEW m \in S, \A n \in S : n <= m
    PROVE  Max(S) = m
<1>1. Max(S) \in S /\ \A n \in S : Max(S) >= n
  BY DEF Max
<1>2. PICK n \in Int : n = Max(S)
  BY <1>1
<1>3. n >= m /\ m >= n /\ m \in Int
  BY <1>1, <1>2
<1> QED BY <1>2, <1>3

LEMMA LastExists ==
    ASSUME NEW w, Len(w) \in Nat, NEW i \in 1 .. Len(w)
    PROVE  \E j \in 1 .. Len(w) : w[j][1] = w[i][1] /\ Last(w, j, Len(w))
<1> DEFINE After == {n \in Nat : \E j \in 1 .. Len(w) : n = Len(w) - j /\ w[j][1] = w[i][1]}
<1>1. Len(w) - i \in After
  OBVIOUS
<1>2. PICK n \in After : \A m \in After : n <= m
  BY <1>1, LeastNumber
<1>3. PICK j \in 1 .. Len(w) : n = Len(w) - j /\ w[j][1] = w[i][1]
  BY <1>2
<1>4. ASSUME NEW m \in j + 1 .. Len(w), w[m][1] = w[j][1] PROVE FALSE
  <2>1. m \in 1 .. Len(w) /\ Len(w) - m \in Nat /\ Len(w) - m < n
    BY <1>3
  <2>2. Len(w) - m \in After
    BY <1>3, <1>4, <2>1
  <2>3. PICK k \in Nat : k = Len(w) - m
    BY <2>1
  <2>4. n <= k /\ k < n /\ n \in Nat
    BY <1>2, <2>1, <2>2, <2>3
  <2> QED BY <2>4
<1> QED BY <1>3, <1>4 DEF Last

LEMMA NodeFromIs ==
    ASSUME at \in Seq(Entry), NEW i \in Nat, NEW x, IsFrom(at, asm.tail, i, x)
    PROVE  NodeFrom(i) = x
<1>1. PICK t, tail : t \in Seq(Entry) /\ t = at /\ tail = asm.tail
  OBVIOUS
<1>2. DOMAIN t = 1 .. Len(t) /\ Len(t) \in Nat /\ \A n \in 1 .. Len(t) : t[n].line \in Nat
  BY <1>1, EntryFacts
<1>3. PICK n \in 0 .. Len(t) :
        /\ \A m \in 1 .. Len(t) : IF m <= n THEN t[m].line < i ELSE t[m].line >= i
        /\ x = Follows(t, tail, n)
  BY <1>1 DEF IsFrom
<1>4. PICK later : later = {m \in 1 .. Len(t) : t[m].line >= i}
  OBVIOUS
<1>5. NodeFrom(i) = IF later = {} THEN tail ELSE t[Min(later)].node
  BY <1>1, <1>2, <1>4 DEF NodeFrom
<1>6. \A m \in 1 .. Len(t) : m \in later <=> m > n
  BY <1>2, <1>3, <1>4
<1>7. CASE n = Len(t)
  <2>1. later = {}
    BY <1>4, <1>6, <1>7
  <2> QED BY <1>3, <1>5, <1>7, <2>1 DEF Follows
<1>8. CASE n # Len(t)
  <2>1. n + 1 \in 1 .. Len(t) /\ n + 1 > n
    <3>1. PICK top \in Nat : top = Len(t)
      BY <1>2
    <3>2. n \in 0 .. top /\ n # top
      BY <1>8, <3>1
    <3> QED BY <3>1, <3>2
  <2>2. n + 1 \in later /\ later \in SUBSET Int /\ \A m \in later : n + 1 <= m
    BY <1>4, <1>6, <2>1
  <2>3. Min(later) = n + 1
    BY <2>2, MinIs
  <2> QED BY <1>3, <1>5, <1>8, <2>2, <2>3 DEF Follows
<1> QED BY <1>7, <1>8

(* At the end nothing waits, and the graph says what the text says; a is   *)
(* the assembler before it is cleaned.                                     *)
Concluded(text, u, a, t, b) ==
    /\ Built(u, a, Instrs(t, a.tail)) /\ Faithful(text, a, t, Len(text) + 1, {})
    /\ b.tail = a.tail /\ b.head = a.head
    /\ \A n \in DOMAIN b.graph \cap Instrs(t, a.tail) : b.graph[n] = a.graph[n]

LEMMA SaysIt ==
    ASSUME AsmInv, Careful, NEW a, Concluded(source, user, a, at, asm),
           NEW n \in 1 .. Len(at)
    PROVE  a.graph[at[n].node] = Instruction(at[n].line)
<1>1. PICK u \in Users, text \in Sources, t \in Seq(Entry) : u = user /\ text = source /\ t = at
  BY DEF AsmInv
<1>2. PICK S : S = Instrs(t, a.tail)
  OBVIOUS
<1>3. /\ Built(u, a, S) /\ Faithful(text, a, t, Len(text) + 1, {})
      /\ asm.tail = a.tail
  BY <1>1, <1>2 DEF Concluded
<1>4. /\ Len(t) \in Nat /\ n \in 1 .. Len(t) /\ t[n].line \in Nat /\ Len(text) \in Nat
      /\ DOMAIN text = 1 .. Len(text) /\ CarefulText(text)
      /\ \A i \in 1 .. Len(text) : IsLine(text[i])
  BY <1>1, TextFacts, CarefulMeans, EntryFacts
<1>5. PICK x, i : x = t[n].node /\ i = t[n].line
  OBVIOUS
<1>6. /\ i \in 1 .. Len(text) /\ text[i].kind = "op" /\ x \in S
  BY <1>2, <1>3, <1>4, <1>5 DEF Faithful, Recorded, Instrs
<1>7. PICK w \in Seq(Pairs) : w = Writes(text[i])
  BY <1>4, <1>6, LineFacts
<1>8. Len(w) \in Nat /\ DOMAIN w = 1 .. Len(w) /\ \A j \in 1 .. Len(w) : w[j][2] \in Objects
  BY DEF Pairs
<1>9. Progress(a, {}, x, w, Len(w), Given(Follows(t, a.tail, n)))
  BY <1>3, <1>4, <1>5, <1>7 DEF Faithful, WrittenAt
<1>10. PICK next, node : next = Follows(t, a.tail, n) /\ node = a.graph[x]
  OBVIOUS
<1>11. /\ S \subseteq DOMAIN a.graph /\ a.labels \in DOMAIN a.graph /\ IsNode(node)
  BY <1>3, <1>6, <1>10, BuiltDistinct, AsmTypes DEF Built
<1>12. NodeFrom(i + 1) = next
  <2>1. \A m \in 1 .. Len(t) : t[m].line \in Nat
    BY EntryFacts
  <2>2. \A m \in 1 .. Len(t) : IF m <= n THEN t[m].line < i + 1 ELSE t[m].line >= i + 1
    BY <1>3, <1>4, <1>5, <2>1 DEF Faithful, Recorded
  <2>3. IsFrom(t, a.tail, i + 1, next)
    BY <1>4, <1>10, <2>2 DEF IsFrom
  <2>4. i + 1 \in Nat
    BY <1>6
  <2> QED BY <1>1, <1>3, <2>3, <2>4, NodeFromIs
<1>13. ASSUME NEW obj \in Objects, Now(a, obj) \in Value PROVE Means(obj) = Now(a, obj)
  <2>1. CASE ~ IsLabel(obj)
    BY <2>1 DEF Means, Now
  <2>2. CASE IsLabel(obj)
    <3>1. PICK l : l = obj[2]
      OBVIOUS
    <3>2. l \in DOMAIN a.graph[a.labels] /\ Now(a, obj) = a.graph[a.labels][l]
      BY <1>11, <1>13, <2>2, <3>1, NoneFacts, ValueTypes DEF Now, Get
    <3>3. PICK j \in 1 .. Len(text), y \in Int :
            /\ text[j].kind = "label" /\ text[j].name = l
            /\ IsFrom(t, a.tail, j, y) /\ a.graph[a.labels][l] = Ref(y)
      BY <1>3, <3>2 DEF Faithful, Noted
    <3>4. Marks(l) = {j}
      BY <1>1, <1>4, <3>3 DEF Marks, CarefulText, Once
    <3>5. Min({j}) = j
      <4>1. PICK J : J = {j}
        OBVIOUS
      <4>2. J \in SUBSET Int /\ j \in J /\ \A m \in J : j <= m
        BY <4>1
      <4> QED BY <4>1, <4>2, MinIs
    <3>6. NodeFrom(j) = y
      BY <1>1, <1>3, <3>3, NodeFromIs
    <3>7. Means(obj) = Ref(NodeFrom(Min(Marks(l))))
      BY <2>2, <3>1, <3>4 DEF Means
    <3> QED BY <3>2, <3>3, <3>4, <3>5, <3>6, <3>7
  <2> QED BY <2>1, <2>2
<1>14. PICK key : key = {w[j][1] : j \in DOMAIN w}
  OBVIOUS
<1> DEFINE last(k) == Max({j \in DOMAIN w : w[j][1] = k})
<1>15. ASSUME NEW k \in key PROVE k \in DOMAIN node /\ node[k] = Means(w[last(k)][2])
  <2>1. PICK i0 \in 1 .. Len(w) : w[i0][1] = k
    BY <1>8, <1>14, <1>15
  <2>2. PICK j \in 1 .. Len(w) : w[j][1] = k /\ Last(w, j, Len(w))
    BY <1>8, <2>1, LastExists
  <2>3. \A m \in 1 .. Len(w) : w[m][1] = k => m <= j
    <3> SUFFICES ASSUME NEW m \in 1 .. Len(w), w[m][1] = k, m > j PROVE FALSE
      BY <1>8
    <3>1. m \in j + 1 .. Len(w)
      BY <1>8
    <3> QED BY <2>2, <3>1 DEF Last
  <2>4. last(k) = j
    <3>1. PICK L : L = {m \in DOMAIN w : w[m][1] = k}
      OBVIOUS
    <3>2. L \in SUBSET Int /\ j \in L /\ \A m \in L : m <= j
      BY <1>8, <2>2, <2>3, <3>1
    <3> QED BY <3>1, <3>2, MaxIs
  <2> HIDE DEF last
  <2>5. k \in DOMAIN node /\ node[k] = Now(a, w[j][2])
    BY <1>9, <1>10, <2>2 DEF Progress, Holds
  <2>6. Now(a, w[j][2]) \in Value
    BY <1>11, <2>5 DEF IsNode
  <2> QED BY <1>8, <1>13, <2>4, <2>5, <2>6
<1> HIDE DEF last
<1>16. PICK given : given = Given(next)
  OBVIOUS
<1>17. DOMAIN given = {"opcode", "next"} /\ given["opcode"] = Sym("op") /\ given["next"] = Ref(next)
  BY <1>16 DEF Given
<1>18. /\ \A k \in DOMAIN node : k \in {"opcode", "next"} \/ k \in key
       /\ \A k \in {"opcode", "next"} : k \notin key => k \in DOMAIN node /\ node[k] = given[k]
  BY <1>8, <1>9, <1>10, <1>14, <1>16, <1>17 DEF Progress
<1>19. DOMAIN node = {"opcode", "next"} \cup key
  BY <1>15, <1>18
<1>20. node = [k \in {"opcode", "next"} \cup key |-> node[k]]
  BY <1>11, <1>19 DEF IsNode
<1>21. \A k \in {"opcode", "next"} \cup key :
          node[k] = CASE k \in key -> Means(w[last(k)][2])
                      [] k = "opcode" /\ k \notin key -> Sym("op")
                      [] k = "next" /\ k \notin key   -> Ref(NodeFrom(i + 1))
  BY <1>12, <1>15, <1>17, <1>18
<1>22. node = [k \in {"opcode", "next"} \cup key |->
                 CASE k \in key -> Means(w[last(k)][2])
                   [] k = "opcode" /\ k \notin key -> Sym("op")
                   [] k = "next" /\ k \notin key   -> Ref(NodeFrom(i + 1))]
  BY <1>20, <1>21
<1>23. node = Instruction(i)
  BY <1>1, <1>7, <1>14, <1>22, Zenon DEF Instruction, last
<1> QED BY <1>1, <1>5, <1>10, <1>23

LEMMA Concludes ==
    ASSUME AsmInv, Careful, NEW a, Concluded(source, user, a, at, asm)
    PROVE  Assembled
<1>1. PICK u \in Users, text \in Sources, t \in Seq(Entry) : u = user /\ text = source /\ t = at
  BY DEF AsmInv
<1>2. /\ Recorded(text, t, Len(text) + 1) /\ Len(text) \in Nat /\ DOMAIN text = 1 .. Len(text)
      /\ DOMAIN t = 1 .. Len(t) /\ Len(t) \in Nat /\ a.head = Follows(t, a.tail, 0)
      /\ asm.tail = a.tail /\ asm.head = a.head
      /\ \A n \in 1 .. Len(t) : t[n].line \in Nat
  BY <1>1, TextFacts, EntryFacts DEF Concluded, Faithful
<1>3. asm.head = NodeFrom(1)
  <2>1. \A m \in 1 .. Len(t) : ~ (m <= 0) /\ t[m].line >= 1
    BY <1>2 DEF Recorded
  <2>2. 0 \in 0 .. Len(t)
    BY <1>2
  <2>3. IsFrom(t, a.tail, 1, asm.head)
    BY <1>2, <2>1, <2>2 DEF IsFrom
  <2> QED BY <1>1, <1>2, <2>3, NodeFromIs
<1>4. {t[n].line : n \in DOMAIN t} = {i \in DOMAIN text : text[i].kind = "op"}
  BY <1>2 DEF Recorded
<1>5. ASSUME NEW n \in DOMAIN t, t[n].node \in DOMAIN asm.graph
      PROVE  asm.graph[t[n].node] = Instruction(t[n].line)
  <2>1. n \in 1 .. Len(t)
    BY <1>2
  <2>2. t[n].node \in Instrs(t, a.tail)
    BY <2>1 DEF Instrs
  <2>3. asm.graph[t[n].node] = a.graph[t[n].node]
    BY <1>1, <1>5, <2>2 DEF Concluded
  <2>4. a.graph[t[n].node] = Instruction(t[n].line)
    BY <1>1, <2>1, SaysIt
  <2> QED BY <2>3, <2>4
<1> QED BY <1>1, <1>3, <1>4, <1>5 DEF Assembled

(* The inductive invariant for careful texts.                              *)
AsmSays ==
    Careful =>
        /\ pc = "parse" =>
             /\ Faithful(source, asm, at, pos, Waiting(user, asm, Instrs(at, asm.tail)))
             /\ Fresh(asm, Waiting(user, asm, Instrs(at, asm.tail)), asm.tail)
        /\ pc = "resolve" =>
             Faithful(source, asm, at, Len(source) + 1, Pending(user, asm, Instrs(at, asm.tail)))
        /\ pc = "done" => \E a \in Asms : Concluded(source, user, a, at, asm)

LEMMA CarefulStays ==
    ASSUME source' = source
    PROVE  Careful' = Careful
BY DEF Careful, Marks, Writes, Args

LEMMA StartSays ==
    ASSUME AsmInv, Start
    PROVE  AsmSays'
<1>1. PICK u, b, text : u = user /\ b = asm' /\ text = source
  OBVIOUS
<1>2. u \in Users /\ Begun(u, b)
  BY <1>1, StartPhase DEF AsmInv
<1>3. at = <<>> /\ pos = 1 /\ user' = user /\ source' = source /\ at' = at /\ pos' = pos /\ pc' = "parse"
  BY DEF AsmInv, Start
<1>4. PICK p \in Nat : p = 1
  OBVIOUS
<1>5. Faithful(text, b, <<>>, p, {}) /\ Fresh(b, {}, b.tail)
  BY <1>2, <1>4, BeginsFaithful
<1>6. Instrs(<<>>, b.tail) = {b.tail}
  BY DEF Instrs
<1>7. Waiting(u, b, {b.tail}) = {}
  BY <1>2 DEF Begun
<1> QED BY <1>1, <1>3, <1>4, <1>5, <1>6, <1>7 DEF AsmSays

LEMMA AcceptsSays ==
    ASSUME NEW u \in Users, NEW text \in Sources, NEW a, NEW t \in Seq(Entry), NEW p \in 1 .. Len(text),
           NEW S, S = Instrs(t, a.tail), Built(u, a, S), Newest(u, a, S), CarefulText(text),
           Faithful(text, a, t, p, Waiting(u, a, S)), Fresh(a, Waiting(u, a, S), a.tail),
           NEW b, NEW v, Accepts(u, a, b, t, v, p, text[p])
    PROVE  LET V == Waiting(u, b, Instrs(v, b.tail))
           IN  Faithful(text, b, v, p + 1, V) /\ Fresh(b, V, b.tail)
<1>1. /\ Len(t) \in Nat /\ \A n \in 1 .. Len(t) : t[n].line \in Nat
      /\ Len(text) \in Nat /\ p \in Nat /\ Once(text)
  BY EntryFacts, TextFacts DEF CarefulText
<1>2. PICK W : W = Waiting(u, a, S)
  OBVIOUS
<1>3. CASE text[p].kind \in {"blank", "comment"} /\ b = a /\ v = t
  BY <1>1, <1>3, FaithfulOn
<1>4. CASE /\ text[p].kind = "label" /\ text[p].name \in Names /\ v = t
           /\ b = Set(a, a.labels, text[p].name, Ref(a.tail))
  <2>1. Faithful(text, b, t, p + 1, W) /\ Fresh(b, W, b.tail)
    BY <1>1, <1>2, <1>4, LabelFaithful
  <2>2. a.tail \in S
    BY BuiltDistinct
  <2>3. Waiting(u, b, S) = W
    BY <1>2, <1>4, <2>2, BuiltLabel
  <2>4. b.tail = a.tail
    <3>1. a \in Asms /\ a.labels \in DOMAIN a.graph /\ Ref(a.tail) \in Value
      BY BuiltDistinct, ValueTypes DEF Built
    <3> QED BY <1>4, <3>1, SetFacts DEF Wrote, Alike
  <2> QED BY <1>4, <2>1, <2>3, <2>4
<1>5. CASE /\ text[p].kind = "op" /\ v = Append(t, [line |-> p, node |-> a.tail])
           /\ OpcodeDone(u, a, b, S, b.tail, text[p])
  <2>1. PICK x \in Int : x = a.tail
    BY BuiltDistinct
  <2>2. v = Append(t, [line |-> p, node |-> x])
    BY <1>5, <2>1
  <2>3. Extended(t, v, p, x)
    BY <1>1, <2>2, InstrsAppend
  <2>4. Instrs(v, b.tail) = S \cup {b.tail}
    BY <2>1, <2>3 DEF Extended
  <2>5. PICK V : V = Waiting(u, b, S \cup {b.tail})
    OBVIOUS
  <2>6. Faithful(text, b, v, p + 1, V) /\ Fresh(b, V, b.tail)
    BY <1>1, <1>2, <1>5, <2>1, <2>3, <2>5, OpcodeFaithful
  <2> QED BY <2>4, <2>5, <2>6
<1> QED BY <1>3, <1>4, <1>5 DEF Accepts

LEMMA LineSays ==
    ASSUME AsmInv, AsmSays, ParseLine
    PROVE  AsmSays'
<1> SUFFICES ASSUME Careful', pc' = "parse"
             PROVE  AsmSays'
  BY LineCases DEF AsmSays
<1>0. PICK a, b, v : a = asm /\ b = asm' /\ v = at'
  OBVIOUS
<1>1. PICK u \in Users, t \in Seq(Entry), text \in Sources : u = user /\ t = at /\ text = source
  BY DEF AsmInv
<1>2. PICK p \in 1 .. Len(text) : p = pos
  BY <1>1, LineCases
<1>3. /\ pc = "parse" /\ user' = u /\ source' = text
      /\ Accepts(u, a, b, t, v, p, text[p])
      /\ \/ pos' = p + 1
         \/ pos' = p + 2 /\ text[p + 1].kind \in {"blank", "comment"}
  BY <1>0, <1>1, <1>2, LineCases
<1>4. PICK S : S = Instrs(t, a.tail)
  OBVIOUS
<1>5. Built(u, a, S) /\ Newest(u, a, S)
  BY <1>0, <1>1, <1>3, <1>4 DEF AsmInv, Phase
<1>6. Careful /\ CarefulText(text)
  BY <1>1, <1>3, CarefulStays, CarefulMeans
<1>7. Faithful(text, a, t, p, Waiting(u, a, S)) /\ Fresh(a, Waiting(u, a, S), a.tail)
  BY <1>0, <1>1, <1>2, <1>3, <1>4, <1>6 DEF AsmSays
<1>8. PICK V : V = Waiting(u, b, Instrs(v, b.tail))
  OBVIOUS
<1>9. Faithful(text, b, v, p + 1, V) /\ Fresh(b, V, b.tail)
  BY <1>3, <1>4, <1>5, <1>6, <1>7, <1>8, AcceptsSays
<1>10. Faithful(text, b, v, pos', V)
  <2>1. CASE pos' = p + 1
    BY <1>9, <2>1
  <2>2. CASE pos' = p + 2 /\ text[p + 1].kind \in {"blank", "comment"}
    <3>1. PICK q \in Nat : q = p + 1 /\ q + 1 = p + 2
      BY TextFacts
    <3>2. v \in Seq(Entry)
      <4>1. p \in Nat
        BY TextFacts
      <4> QED BY <1>3, <1>4, <1>5, <4>1, AcceptsBuilds
    <3>3. \A n \in 1 .. Len(v) : v[n].line \in Nat
      BY <3>2, EntryFacts
    <3>4. Faithful(text, b, v, q, V) /\ text[q].kind # "op"
      BY <1>9, <2>2, <3>1
    <3>5. Faithful(text, b, v, q + 1, V)
      BY <3>3, <3>4, FaithfulOn
    <3> QED BY <2>2, <3>1, <3>5
  <2> QED BY <1>3, <2>1, <2>2
<1> QED BY <1>0, <1>1, <1>3, <1>8, <1>9, <1>10 DEF AsmSays

LEMMA EndSays ==
    ASSUME AsmInv, AsmSays, ParseEnd
    PROVE  AsmSays'
<1> SUFFICES ASSUME Careful' PROVE AsmSays'
  BY DEF AsmSays
<1>0. PICK a, S : a = asm /\ S = Instrs(at, asm.tail)
  OBVIOUS
<1>1. PICK u \in Users, t \in Seq(Entry), text \in Sources : u = user /\ t = at /\ text = source
  BY DEF AsmInv
<1>2. /\ pc = "parse" /\ user' = u /\ source' = text /\ at' = t /\ pos' = pos /\ asm' = a
      /\ pc' = IF a.badref = NullRef THEN "done" ELSE "resolve"
      /\ pos > Len(text)
  BY <1>0, <1>1 DEF ParseEnd
<1>3. Built(u, a, S) /\ Newest(u, a, S) /\ pos \in 1 .. Len(text) + 1 /\ Len(text) \in Nat
  BY <1>0, <1>1, <1>2, TextFacts DEF AsmInv, Phase
<1>4. pos = Len(text) + 1
  BY <1>2, <1>3
<1>5. Faithful(text, a, t, Len(text) + 1, Waiting(u, a, S))
  BY <1>0, <1>1, <1>2, <1>4, CarefulStays DEF AsmSays
<1>6. Pending(u, a, S) = Waiting(u, a, S)
  BY <1>3 DEF Pending, Newest
<1>7. CASE a.badref = NullRef
  <2>1. \A n \in Waiting(u, a, S) : n <= -1 /\ n \in 1 .. a.last_id /\ a.last_id \in Nat
    BY <1>3, <1>7, AsmTypes DEF Newest, NullRef, Waiting, Built, Layout
  <2>2. Waiting(u, a, S) = {}
    BY <2>1
  <2>3. Concluded(text, u, a, t, a) /\ a \in Asms
    BY <1>0, <1>1, <1>3, <1>5, <2>2 DEF Concluded, Built
  <2> QED BY <1>2, <1>7, <2>3 DEF AsmSays
<1>8. CASE a.badref # NullRef
  BY <1>0, <1>1, <1>2, <1>5, <1>6, <1>8 DEF AsmSays
<1> QED BY <1>7, <1>8

LEMMA ResolveSays ==
    ASSUME AsmInv, AsmSays, Resolve
    PROVE  AsmSays'
<1> SUFFICES ASSUME Careful', pc' = "resolve" PROVE AsmSays'
  BY ResolveCases DEF AsmSays
<1>0. PICK a, b, S : a = asm /\ b = asm' /\ S = Instrs(at, asm.tail)
  OBVIOUS
<1>1. PICK u \in Users, t \in Seq(Entry), text \in Sources : u = user /\ t = at /\ text = source
  BY DEF AsmInv
<1>2. /\ pc = "resolve" /\ user' = u /\ source' = text /\ at' = t /\ a.badref # NullRef
      /\ Built(u, a, S) /\ S = Instrs(t, a.tail)
  BY <1>0, <1>1, ResolveCases
<1>3. PICK label, k \in Names, x \in S : Patched(u, a, b, S, label, x, k)
  BY <1>0, <1>1, ResolveCases
<1>4. Careful /\ CarefulText(text)
  BY <1>1, <1>2, CarefulStays, CarefulMeans
<1>5. PICK p : p = Len(text) + 1
  OBVIOUS
<1>6. Faithful(text, a, t, p, Pending(u, a, S))
  BY <1>0, <1>1, <1>2, <1>4, <1>5 DEF AsmSays
<1>7. Len(t) \in Nat /\ \A n \in 1 .. Len(t) : Len(Writes(text[t[n].line])) \in Nat
  <2>1. ASSUME NEW n \in 1 .. Len(t) PROVE Len(Writes(text[t[n].line])) \in Nat
    <3>1. PICK i \in 1 .. Len(text) : i = t[n].line /\ text[i].kind = "op"
      BY <1>6 DEF Faithful, Recorded
    <3>2. IsLine(text[i])
      BY TextFacts
    <3>3. Writes(text[i]) \in Seq(Pairs)
      BY <3>1, <3>2, LineFacts
    <3> QED BY <3>1, <3>3
  <2> QED BY <2>1, EntryFacts
<1>8. Faithful(text, b, t, p, Pending(u, b, S))
  BY <1>2, <1>3, <1>4, <1>6, <1>7, PatchFaithful
<1>9. b.tail = a.tail
  BY <1>3 DEF Patched, Alike
<1> QED BY <1>0, <1>1, <1>2, <1>5, <1>8, <1>9 DEF AsmSays

LEMMA ResolveEndSays ==
    ASSUME AsmInv, AsmSays, ResolveEnd
    PROVE  AsmSays'
<1> SUFFICES ASSUME Careful' PROVE AsmSays'
  BY DEF AsmSays
<1>0. PICK a, b, S : a = asm /\ b = asm' /\ S = Instrs(at, asm.tail)
  OBVIOUS
<1>1. PICK u \in Users, t \in Seq(Entry), text \in Sources : u = user /\ t = at /\ text = source
  BY DEF AsmInv
<1>2. /\ pc = "resolve" /\ user' = u /\ source' = text /\ at' = t /\ pc' = "done"
      /\ b = ListFreed(a) /\ a.badref = NullRef
  BY <1>0, <1>1 DEF ResolveEnd
<1>3. Built(u, a, S)
  BY <1>0, <1>1, <1>2 DEF AsmInv, Phase
<1>4. Pending(u, a, S) = {}
  <2>1. \A n \in Waiting(u, a, S) : n \in 1 .. a.last_id /\ a.last_id \in Nat
    BY <1>3, AsmTypes DEF Waiting, Built, Layout
  <2> QED BY <1>2, <2>1 DEF Pending, NullRef
<1>5. Faithful(text, a, t, Len(text) + 1, {})
  BY <1>0, <1>1, <1>2, <1>4, CarefulStays DEF AsmSays
<1>6. /\ b.head = a.head /\ b.tail = a.tail
      /\ \A n \in DOMAIN b.graph : n # a.root => b.graph[n] = a.graph[n]
  BY <1>2, <1>3, ListFreedFacts
<1>7. a.root \notin S /\ a \in Asms
  BY <1>3, BuiltDistinct DEF Built
<1>8. Concluded(text, u, a, t, b)
  BY <1>0, <1>1, <1>3, <1>5, <1>6, <1>7 DEF Concluded
<1> QED BY <1>0, <1>2, <1>7, <1>8 DEF AsmSays

(* A text that assembles becomes the program it says, every line with an   *)
(* opcode one instruction, in order, with its arguments, pairs and labels, *)
(* wherever these are defined: for careful texts (asm.h:6-39, asm.c:534-   *)
(* 682).                                                                   *)
THEOREM AsmAssembled == Spec => []Assembled
<1>1. Init => AsmSays
  BY DEF Init, AsmSays
<1>2. AsmInv /\ AsmSays /\ [Next]_vars => AsmSays'
  <2> SUFFICES ASSUME AsmInv, AsmSays, [Next]_vars PROVE AsmSays'
    OBVIOUS
  <2>1. CASE UNCHANGED vars
    <3>1. source' = source /\ user' = user /\ at' = at /\ pc' = pc /\ pos' = pos /\ asm' = asm
      BY <2>1 DEF vars
    <3>2. Careful' = Careful
      BY <3>1, CarefulStays
    <3> QED BY <3>1, <3>2 DEF AsmSays
  <2> QED BY <2>1, StartSays, LineSays, EndSays, ResolveSays, ResolveEndSays DEF Next
<1>3. AsmInv /\ AsmSays => Assembled
  <2>1. CASE pc = "done" /\ Careful
    BY <2>1, Concludes DEF AsmSays
  <2>2. CASE ~ (pc = "done" /\ Careful)
    BY <2>2 DEF Assembled
  <2> QED BY <2>1, <2>2
<1> QED BY <1>1, <1>2, <1>3, AsmInvHolds, PTL DEF Spec
=============================================================================
