----------------------------- MODULE Eval_proofs -----------------------------
(***************************************************************************)
(* For every program, any registered calls and any number of processes and *)
(* nodes: what an instruction may do to the graph.                         *)
(***************************************************************************)
EXTENDS Eval, NodeStore_proofs, SequenceTheorems

Procs == [local : Int, alive : BOOLEAN]

Typed ==
    /\ last_id \in 0 .. MaxRef
    /\ DOMAIN graph \subseteq 1 .. last_id
    /\ WellFormed(graph)
    /\ roots \subseteq 1 .. last_id
    /\ procs \in Seq(Procs)
    /\ Len(res.mods) <= 3

LEMMA GraphFinite ==
    ASSUME Typed
    PROVE  IsFiniteSet(DOMAIN graph)
<1>1. IsFiniteSet(1 .. last_id)
  BY EvalAssumption, FS_Interval DEF Typed
<1> QED BY <1>1, FS_Subset DEF Typed

IsValue(val) == val[1] \in {"ref", "sym", "int", "float"}

(***************************************************************************)
(* What is in reach of a process.                                          *)
(***************************************************************************)
Mine(p) == Reach(graph, {Local(p)})

(* A value that p may come to have: it makes up no reference.              *)
Owned(p, val) == IsValue(val) /\ (NonNull(val) => Data(val) \in Mine(p))

LEMMA MineFacts ==
    ASSUME Typed, NEW p
    PROVE  /\ Mine(p) \subseteq DOMAIN graph
           /\ Local(p) \in DOMAIN graph => Local(p) \in Mine(p)
           /\ \A n \in Mine(p) : \A c \in Children(graph, n) : c \in Mine(p)
<1>1. IsFiniteSet(DOMAIN graph)
  BY GraphFinite
<1>2. Mine(p) \subseteq DOMAIN graph /\ {Local(p)} \cap DOMAIN graph \subseteq Mine(p)
  BY <1>1, ReachStarts DEF Mine
<1>3. ClosedIn(graph, Mine(p))
  BY <1>1, ReachCloses DEF Mine
<1>4. \A n \in DOMAIN graph : Children(graph, n) \subseteq DOMAIN graph
  BY DEF Typed, WellFormed, Children
<1> QED BY <1>2, <1>3, <1>4 DEF ClosedIn

LEMMA GetOwned ==
    ASSUME Typed, NEW p, NEW n, n \in DOMAIN graph => n \in Mine(p), NEW k
    PROVE  Get(graph, n, k) = None \/ Owned(p, Get(graph, n, k))
<1>1. CASE n \in DOMAIN graph /\ k \in DOMAIN graph[n]
  <2>1. Get(graph, n, k) = graph[n][k] /\ IsValue(graph[n][k])
    BY <1>1 DEF Get, Typed, WellFormed, IsValue
  <2>2. NonNull(graph[n][k]) => Data(graph[n][k]) \in Children(graph, n)
    BY <1>1 DEF Children
  <2> QED BY <1>1, <2>1, <2>2, MineFacts DEF Owned
<1>2. CASE ~ (n \in DOMAIN graph /\ k \in DOMAIN graph[n])
  BY <1>2 DEF Get
<1> QED BY <1>1, <1>2

LEMMA InstFacts ==
    ASSUME Typed, NEW p, HasInst(p)
    PROVE  Local(p) \in Mine(p) /\ Inst(p) \in Mine(p)
<1>1. Local(p) \in DOMAIN graph /\ "instpntr" \in DOMAIN graph[Local(p)]
      /\ NonNull(graph[Local(p)]["instpntr"])
      /\ Inst(p) = Data(graph[Local(p)]["instpntr"])
  BY DEF HasInst, Get, NonNull, Is, None, Inst
<1>2. Inst(p) \in Children(graph, Local(p))
  BY <1>1 DEF Children
<1> QED BY <1>1, <1>2, MineFacts

LEMMA OperandsOwned ==
    ASSUME Typed, NEW p, HasInst(p), NEW k
    PROVE  /\ Arg(p, k) = None \/ Owned(p, Arg(p, k))
           /\ Var(p, k) = None \/ Owned(p, Var(p, k))
           /\ Operand(p, k) = None \/ Owned(p, Operand(p, k))
BY InstFacts, GetOwned DEF Arg, Var, Operand

-----------------------------------------------------------------------------
(* The result r of p's instruction, so far: it makes the nodes of new, and *)
(* writes and refers to no others but p's.                                 *)
Effect(p, r, new) ==
    /\ DOMAIN r.graph = DOMAIN graph \cup new
    /\ WellFormed(r.graph)
    /\ r.mods \in Seq(Int)
    /\ DOMAIN r = {"graph", "mods", "action"}
    /\ \A n \in DOMAIN r.graph : n \in new \/ r.graph[n] # graph[n] =>
         /\ n \in Mine(p) \cup new
         /\ \E i \in DOMAIN r.mods : r.mods[i] = n
    /\ \A n \in DOMAIN r.graph : \A c \in Children(r.graph, n) :
         \/ n \in DOMAIN graph /\ c \in Children(graph, n)
         \/ c \in Mine(p) \cup new

LEMMA EffectResult ==
    ASSUME Typed, NEW p
    PROVE  Effect(p, Result, {}) /\ Len(Result.mods) = 0 /\ Result.action = "NONE"
BY DEF Effect, Result, Typed

LEMMA EffectFailed ==
    ASSUME NEW p, NEW r, NEW new, Effect(p, r, new)
    PROVE  Effect(p, Failed(r), new) /\ Failed(r).mods = r.mods /\ Failed(r).action = "FAIL"
           /\ Failed(r).graph = r.graph
BY DEF Effect, Failed

LEMMA ModsGrow ==
    ASSUME NEW s \in Seq(Int), NEW n \in Int
    PROVE  /\ Append(s, n) \in Seq(Int) /\ Len(Append(s, n)) = Len(s) + 1
           /\ \A m : (m = n \/ \E i \in DOMAIN s : s[i] = m)
                       => \E i \in DOMAIN Append(s, n) : Append(s, n)[i] = m
<1>1. Append(s, n) \in Seq(Int) /\ Len(Append(s, n)) = Len(s) + 1
      /\ Append(s, n)[Len(s) + 1] = n /\ \A i \in 1 .. Len(s) : Append(s, n)[i] = s[i]
      /\ DOMAIN Append(s, n) = 1 .. Len(s) + 1 /\ DOMAIN s = 1 .. Len(s) /\ Len(s) \in Nat
  OBVIOUS
<1> QED BY <1>1

(* Changing pairs of one node that p may write to keeps the effect within  *)
(* bounds, as long as the new values are.                                  *)
LEMMA EffectChanged ==
    ASSUME NEW p, NEW r, NEW new, Effect(p, r, new),
           NEW s, DOMAIN s = {"graph", "mods", "action"},
           NEW n \in Int, s.mods = Append(r.mods, n), n \in Mine(p) \cup new,
           DOMAIN s.graph = DOMAIN r.graph,
           \A m \in DOMAIN r.graph : m # n => s.graph[m] = r.graph[m],
           \A k \in DOMAIN s.graph[n] :
              \/ n \in DOMAIN r.graph /\ k \in DOMAIN r.graph[n] /\ s.graph[n][k] = r.graph[n][k]
              \/ IsValue(s.graph[n][k]) /\ (NonNull(s.graph[n][k]) =>
                    Data(s.graph[n][k]) \in (Mine(p) \cup new) \cap DOMAIN r.graph)
    PROVE  Effect(p, s, new)
<1>0. r.mods \in Seq(Int)
  BY DEF Effect
<1>1. s.mods \in Seq(Int)
      /\ \A m : (m = n \/ \E i \in DOMAIN r.mods : r.mods[i] = m)
                  => \E i \in DOMAIN s.mods : s.mods[i] = m
  <2>1. /\ Append(r.mods, n) \in Seq(Int)
        /\ \A m : (m = n \/ \E i \in DOMAIN r.mods : r.mods[i] = m)
                   => \E i \in DOMAIN Append(r.mods, n) : Append(r.mods, n)[i] = m
    BY <1>0, ModsGrow
  <2> QED BY <2>1, Zenon
<1>2. WellFormed(s.graph)
  BY DEF Effect, WellFormed, IsValue
<1>3. \A m \in DOMAIN s.graph : m \in new \/ s.graph[m] # graph[m] =>
         /\ m \in Mine(p) \cup new
         /\ \E i \in DOMAIN s.mods : s.mods[i] = m
  BY <1>1 DEF Effect
<1>4. ASSUME NEW m \in DOMAIN s.graph, NEW c \in Children(s.graph, m)
      PROVE  \/ m \in DOMAIN graph /\ c \in Children(graph, m)
             \/ c \in Mine(p) \cup new
  <2>1. PICK k \in DOMAIN s.graph[m] : NonNull(s.graph[m][k]) /\ c = Data(s.graph[m][k])
    BY <1>4 DEF Children
  <2>2. CASE m \in DOMAIN r.graph /\ k \in DOMAIN r.graph[m] /\ s.graph[m][k] = r.graph[m][k]
    <3>1. c \in Children(r.graph, m)
      BY <2>1, <2>2 DEF Children
    <3> QED BY <2>2, <3>1 DEF Effect
  <2> QED BY <2>1, <2>2
<1> QED BY <1>1, <1>2, <1>3, <1>4 DEF Effect

LEMMA EffectStore ==
    ASSUME Typed, NEW p, NEW r, NEW new, Effect(p, r, new),
           NEW n \in Int, n \in DOMAIN r.graph => n \in Mine(p) \cup new,
           NEW k, NEW val, IsValue(val),
           NonNull(val) => Data(val) \in Mine(p) \cup new
    PROVE  /\ Effect(p, Store(r, n, k, val), new)
           /\ Len(Store(r, n, k, val).mods) = Len(r.mods) + 1
<1> DEFINE s == [r EXCEPT !.mods = Append(@, n)]
<1>a. r.mods \in Seq(Int)
  BY DEF Effect
<1>0. Append(r.mods, n) \in Seq(Int) /\ Len(Append(r.mods, n)) = Len(r.mods) + 1
      /\ \A m : (m = n \/ \E i \in DOMAIN r.mods : r.mods[i] = m)
                  => \E i \in DOMAIN Append(r.mods, n) : Append(r.mods, n)[i] = m
  BY <1>a, ModsGrow
<1>1. s.mods = Append(r.mods, n) /\ s.graph = r.graph /\ DOMAIN s = {"graph", "mods", "action"}
  BY DEF Effect
<1>2. Effect(p, s, new)
  BY <1>0, <1>1 DEF Effect
<1>3. CASE ~ CanSet(r.graph, n, val)
  <2>1. Store(r, n, k, val) = Failed(s)
    BY <1>1, <1>3 DEF Store
  <2>2. Len(s.mods) = Len(r.mods) + 1
    BY <1>0, <1>1
  <2> HIDE DEF s
  <2>3. Effect(p, Failed(s), new) /\ Failed(s).mods = s.mods
    BY <1>2, EffectFailed
  <2> QED BY <2>1, <2>2, <2>3
<1>4. CASE CanSet(r.graph, n, val)
  <2> DEFINE t == [s EXCEPT !.graph = Put(@, n, k, val)]
  <2>1. Store(r, n, k, val) = t
    BY <1>1, <1>4 DEF Store
  <2>2. t.graph = Put(r.graph, n, k, val) /\ t.mods = Append(r.mods, n)
        /\ DOMAIN t = {"graph", "mods", "action"}
    BY <1>1
  <2>3. n \in DOMAIN r.graph /\ (NonNull(val) => Data(val) \in DOMAIN r.graph)
    BY <1>4 DEF CanSet
  <2> HIDE DEF t, s
  <2>4. PICK h : h = Put(r.graph, n, k, val)
    OBVIOUS
  <2>5. /\ DOMAIN h = DOMAIN r.graph
        /\ \A m \in DOMAIN r.graph : m # n => h[m] = r.graph[m]
        /\ DOMAIN h[n] = DOMAIN r.graph[n] \cup {k}
        /\ \A j \in DOMAIN r.graph[n] \cup {k} : h[n][j] = IF j = k THEN val ELSE r.graph[n][j]
    BY <2>3, <2>4, PutFacts
  <2>6. Effect(p, t, new)
    BY <2>2, <2>3, <2>4, <2>5, EffectChanged
  <2>7. Len(t.mods) = Len(r.mods) + 1
    BY <1>0, <2>2
  <2> HIDE DEF t
  <2> QED BY <2>1, <2>6, <2>7
<1> QED BY <1>3, <1>4

LEMMA EffectDrop ==
    ASSUME Typed, NEW p, NEW n \in Mine(p), NEW k
    PROVE  Effect(p, Drop(Result, n, k), {}) /\ Len(Drop(Result, n, k).mods) = 1
<1> DEFINE s == [Result EXCEPT !.mods = Append(@, n)]
<1>0. n \in DOMAIN graph /\ n \in Int
  BY MineFacts DEF Typed
<1>1. s.mods = Append(<<>>, n) /\ s.graph = graph /\ DOMAIN s = {"graph", "mods", "action"}
      /\ Result.graph = graph /\ Result.mods = <<>>
  BY DEF Result
<1>2. Effect(p, Result, {})
  BY EffectResult
<1>3. Len(s.mods) = 1
  BY <1>0, <1>1
<1>4. CASE Is(Get(graph, n, k), "none")
  <2>1. Drop(Result, n, k) = Failed(s)
    BY <1>1, <1>4 DEF Drop
  <2> HIDE DEF s
  <2>2. \A j \in DOMAIN s.graph[n] : j \in DOMAIN graph[n] /\ s.graph[n][j] = graph[n][j]
    BY <1>1
  <2>3. Effect(p, s, {})
    BY <1>0, <1>1, <1>2, <2>2, EffectChanged
  <2>4. Effect(p, Failed(s), {}) /\ Failed(s).mods = s.mods
    BY <2>3, EffectFailed
  <2> QED BY <1>3, <2>1, <2>4
<1>5. CASE ~ Is(Get(graph, n, k), "none")
  <2> DEFINE t == [s EXCEPT !.graph = Del(@, n, k)]
  <2>1. Drop(Result, n, k) = t
    BY <1>1, <1>5 DEF Drop
  <2>2. t.graph = Del(graph, n, k) /\ t.mods = s.mods /\ DOMAIN t = {"graph", "mods", "action"}
    BY <1>1
  <2> HIDE DEF t, s
  <2>3. PICK h : h = Del(graph, n, k)
    OBVIOUS
  <2>4. /\ DOMAIN h = DOMAIN graph
        /\ \A m \in DOMAIN graph : m # n => h[m] = graph[m]
        /\ DOMAIN h[n] = DOMAIN graph[n] \ {k}
        /\ \A j \in DOMAIN graph[n] \ {k} : h[n][j] = graph[n][j]
    BY <1>0, <2>3, DelFacts
  <2>5. PICK r : r = Result
    OBVIOUS
  <2>6. Effect(p, r, {}) /\ r.graph = graph /\ t.mods = Append(r.mods, n)
    BY <1>1, <1>2, <2>2, <2>5 DEF s
  <2>7. \A j \in DOMAIN t.graph[n] : j \in DOMAIN graph[n] /\ t.graph[n][j] = graph[n][j]
    BY <2>2, <2>3, <2>4
  <2>8. DOMAIN t.graph = DOMAIN graph /\ \A m \in DOMAIN graph : m # n => t.graph[m] = graph[m]
    BY <2>2, <2>3, <2>4
  <2>9. Effect(p, t, {})
    BY <1>0, <2>2, <2>6, <2>7, <2>8, EffectChanged
  <2> QED BY <1>3, <2>1, <2>2, <2>9
<1> QED BY <1>4, <1>5

LEMMA EffectAdvance ==
    ASSUME Typed, NEW p, HasInst(p), NEW r, NEW new, Effect(p, r, new),
           new \cap DOMAIN graph = {}
    PROVE  /\ Effect(p, Advance(p, r), new)
           /\ Len(Advance(p, r).mods) <= Len(r.mods) + 1
<1>1. PICK next : next = Get(r.graph, Inst(p), "next")
  OBVIOUS
<1>2. Len(r.mods) \in Nat
  BY DEF Effect
<1>3. CASE r.action = "FAIL"
  BY <1>2, <1>3 DEF Advance
<1>4. CASE r.action # "FAIL" /\ NonNull(next)
  <2>1. Advance(p, r) = Store(r, Local(p), "instpntr", next)
    BY <1>1, <1>4 DEF Advance
  <2>2. Inst(p) \in DOMAIN r.graph /\ "next" \in DOMAIN r.graph[Inst(p)]
        /\ next = r.graph[Inst(p)]["next"]
    BY <1>1, <1>4, NoneFacts DEF Get
  <2>3. Data(next) \in Children(r.graph, Inst(p))
    BY <1>4, <2>2 DEF Children
  <2>4. Inst(p) \in Mine(p) /\ Local(p) \in Mine(p) /\ Local(p) \in Int
    BY InstFacts, MineFacts DEF Typed
  <2>5. Data(next) \in Mine(p) \cup new
    BY <2>2, <2>3, <2>4, MineFacts DEF Effect
  <2>6. IsValue(next)
    BY <2>2 DEF Effect, WellFormed, IsValue
  <2> QED BY <1>2, <2>1, <2>4, <2>5, <2>6, EffectStore
<1>5. CASE r.action # "FAIL" /\ ~ NonNull(next)
  <2>1. Advance(p, r) = Failed(r)
    BY <1>1, <1>5 DEF Advance
  <2> QED BY <1>2, <2>1, EffectFailed
<1> QED BY <1>3, <1>4, <1>5

LEMMA EffectFinal ==
    ASSUME Typed, NEW p, HasInst(p), NEW r, NEW loads,
           loads => Effect(p, r, {}) /\ Len(r.mods) <= 2
    PROVE  Effect(p, Final(p, loads, r), {}) /\ Len(Final(p, loads, r).mods) <= 3
<1>1. CASE loads
  <2>1. Final(p, loads, r) = Advance(p, r) /\ Effect(p, r, {}) /\ Len(r.mods) <= 2
    BY <1>1 DEF Final
  <2>2. Effect(p, Advance(p, r), {}) /\ Len(Advance(p, r).mods) <= Len(r.mods) + 1
    BY <2>1, EffectAdvance
  <2>3. Len(r.mods) \in Nat /\ Len(Advance(p, r).mods) \in Nat
    BY <2>1, <2>2 DEF Effect
  <2> QED BY <2>1, <2>2, <2>3
<1>2. CASE ~ loads
  <2>1. Final(p, loads, r) = Failed(Result)
    BY <1>2 DEF Final
  <2>2. Effect(p, Failed(Result), {}) /\ Failed(Result).mods = Result.mods /\ Len(Result.mods) = 0
    BY EffectResult, EffectFailed
  <2> QED BY <2>1, <2>2
<1> QED BY <1>1, <1>2

-----------------------------------------------------------------------------
(* What a step of p leaves of the processes and the marks: frames are      *)
(* those there were, or p's to give; the only process either keeps its     *)
(* frame and the marks, or moves to a frame that is marked.                *)
Frames(p) ==
    /\ procs' \in Seq(Procs)
    /\ \A q \in DOMAIN procs' :
         procs'[q].local \in Mine(p) \/ (q \in DOMAIN procs /\ procs'[q].local = Local(q))
    /\ \/ /\ UNCHANGED roots
          /\ Len(procs') = 1 => Len(procs) = 1 /\ procs'[1].local = Local(1)
       \/ \E n \in Mine(p) :
            /\ p \in DOMAIN procs
            /\ roots' = Remarked(p, n)
            /\ procs' = [procs EXCEPT ![p].local = n]

Fresh == {last_id + 1}

(* A step of p that makes the nodes of new.                                *)
Steps(p, new) ==
    /\ \E r : /\ Effect(p, r, new) /\ Len(r.mods) <= 3
              /\ graph' = r.graph /\ res' = [pid |-> p, mods |-> r.mods]
    /\ Frames(p)
    /\ \/ new = {} /\ UNCHANGED last_id
       \/ new = Fresh /\ last_id' = last_id + 1 /\ last_id' <= MaxRef

LEMMA KeptFrames ==
    ASSUME Typed, NEW p \in DOMAIN procs, NEW b \in BOOLEAN,
           procs' = [procs EXCEPT ![p].alive = b], UNCHANGED roots
    PROVE  Frames(p)
<1>1. procs \in Seq(Procs)
  BY DEF Typed
<1>2. procs' \in Seq(Procs) /\ Len(procs') = Len(procs) /\ DOMAIN procs' = DOMAIN procs
  <2>1. PICK proc : proc = [procs[p] EXCEPT !.alive = b]
    OBVIOUS
  <2>2. procs[p] \in Procs
    BY <1>1
  <2>3. proc \in Procs
    BY <2>1, <2>2 DEF Procs
  <2>4. procs' = [procs EXCEPT ![p] = proc]
    BY <2>1
  <2>5. DOMAIN procs = 1 .. Len(procs) /\ Len(procs) \in Nat
    BY <1>1
  <2> QED BY <1>1, <2>3, <2>4, <2>5, ExceptSeq
<1>3. \A q \in DOMAIN procs : procs'[q].local = procs[q].local
  BY <1>1 DEF Procs
<1>4. Len(procs) = 1 => 1 \in DOMAIN procs
  BY <1>1
<1> QED BY <1>2, <1>3, <1>4 DEF Frames, Local

LEMMA LeaveSteps ==
    ASSUME Typed, NEW p \in DOMAIN procs, NEW dies \in BOOLEAN, NEW r, NEW new, Leave(p, r, dies),
           Effect(p, r, new), Len(r.mods) <= 3, UNCHANGED roots,
           \/ new = {} /\ UNCHANGED last_id
           \/ new = Fresh /\ last_id' = last_id + 1 /\ last_id' <= MaxRef
    PROVE  Steps(p, new)
<1>1. Frames(p)
  BY KeptFrames DEF Leave
<1> QED BY <1>1 DEF Steps, Leave

LEMMA PlainSteps ==
    ASSUME Typed, NEW p \in DOMAIN procs, HasInst(p), NEW loads, NEW r, Plain(p, loads, r),
           loads => Effect(p, r, {}) /\ Len(r.mods) <= 2
    PROVE  Steps(p, {})
<1>1. PICK end : end = Final(p, loads, r)
  OBVIOUS
<1>2. Effect(p, end, {}) /\ Len(end.mods) <= 3
  BY <1>1, EffectFinal
<1>3. PICK dies \in BOOLEAN : dies = (end.action = "FAIL")
  OBVIOUS
<1>4. Leave(p, end, dies) /\ UNCHANGED <<last_id, roots>>
  BY <1>1, <1>3 DEF Plain
<1> QED BY <1>2, <1>4, LeaveSteps

(* Storing a value that is p's to have where p may write.                  *)
LEMMA StoreResult ==
    ASSUME Typed, NEW p, NEW n \in Int, n \in DOMAIN graph => n \in Mine(p),
           NEW k, NEW val, Owned(p, val)
    PROVE  Effect(p, Store(Result, n, k, val), {}) /\ Len(Store(Result, n, k, val).mods) = 1
<1>1. PICK first, none : first = Result /\ none = {}
  OBVIOUS
<1>2. Effect(p, first, none) /\ Len(first.mods) = 0 /\ first.graph = graph
  BY <1>1, EffectResult DEF Result
<1>3. IsValue(val) /\ (NonNull(val) => Data(val) \in Mine(p) \cup none)
  BY DEF Owned
<1>4. n \in Int /\ (n \in DOMAIN first.graph => n \in Mine(p) \cup none)
  BY <1>2
<1>6. Effect(p, first, none)
  BY <1>2
<1>5. /\ Effect(p, Store(first, n, k, val), none)
      /\ Len(Store(first, n, k, val).mods) = Len(first.mods) + 1
  BY <1>3, <1>4, <1>6, EffectStore
<1> QED BY <1>1, <1>2, <1>5

LEMMA AssignSteps ==
    ASSUME Typed, NEW p \in DOMAIN procs, HasInst(p), NEW loads, NEW k, NEW val,
           Assign(p, loads, k, val), loads => Owned(p, val)
    PROVE  Steps(p, {})
<1>1. PICK r, n, key : n = Local(p) /\ key = Key(p, k) /\ r = Store(Result, n, key, val)
  OBVIOUS
<1>2. ASSUME loads PROVE Effect(p, r, {}) /\ Len(r.mods) <= 2
  <2>1. n \in Mine(p) /\ n \in Int
    BY <1>1, InstFacts, MineFacts DEF Typed
  <2>2. Effect(p, Store(Result, n, key, val), {}) /\ Len(Store(Result, n, key, val).mods) = 1
    BY <1>2, <2>1, StoreResult
  <2> QED BY <1>1, <2>2
<1>3. Plain(p, loads /\ IsSym(p, k), r)
  BY <1>1 DEF Assign
<1>4. loads /\ IsSym(p, k) => Effect(p, r, {}) /\ Len(r.mods) <= 2
  BY <1>2
<1> QED BY <1>3, <1>4, PlainSteps, Zenon

LEMMA RunsFacts ==
    ASSUME NEW p, NEW op, Runs(p, op)
    PROVE  p \in DOMAIN procs /\ HasInst(p)
BY DEF Runs, Alive

(* Values that are no references are nobody's.                             *)
LEMMA PlainValues ==
    ASSUME NEW p
    PROVE  /\ \A x : Owned(p, Num(x)) /\ Owned(p, Sym(x))
           /\ Owned(p, Real)
BY DEF Owned, IsValue, NonNull, Is, Num, Sym, Real

LEMMA ResultsOwned ==
    ASSUME NEW p, NEW type \in {"int", "sym", "float"}, NEW val \in Results(type)
    PROVE  Owned(p, val)
BY PlainValues DEF Results

LEMMA OwnedUnlessNone ==
    ASSUME Typed, NEW p, HasInst(p), NEW k
    PROVE  /\ ~ Is(Operand(p, k), "none") => Owned(p, Operand(p, k))
           /\ ~ Is(Var(p, k), "none") => Owned(p, Var(p, k))
           /\ ~ Is(Arg(p, k), "none") => Owned(p, Arg(p, k))
BY OperandsOwned, NoneFacts

(* The node a reference leads to is p's, or there is none.                 *)
LEMMA RefOwned ==
    ASSUME Typed, NEW p, HasInst(p), NEW val, Owned(p, val), Is(val, "ref")
    PROVE  /\ Data(val) \in DOMAIN graph => Data(val) \in Mine(p)
           /\ Data(val) \in Int
<1>1. CASE NonNull(val)
  BY <1>1, MineFacts DEF Owned, Typed
<1>2. CASE ~ NonNull(val)
  BY <1>2 DEF NonNull, NullRef, Typed
<1> QED BY <1>1, <1>2
-----------------------------------------------------------------------------
(* The instructions.                                                       *)
LEMMA DiesSteps ==
    ASSUME Typed, NEW p, BadInst(p) \/ Exit(p)
    PROVE  Steps(p, {})
<1>1. p \in DOMAIN procs /\ Leave(p, Result, TRUE) /\ UNCHANGED <<last_id, roots>>
  BY DEF BadInst, Exit, Runs, Alive
<1>2. PICK r, dies : r = Result /\ dies = TRUE
  OBVIOUS
<1>3. dies \in BOOLEAN /\ Leave(p, r, dies)
  BY <1>1, <1>2, Zenon
<1>4. Effect(p, r, {}) /\ Len(r.mods) = 0
  BY <1>2, EffectResult, Zenon
<1>5. Len(r.mods) <= 3
  BY <1>4
<1>6. UNCHANGED last_id /\ UNCHANGED roots
  BY <1>1
<1> QED BY <1>1, <1>3, <1>4, <1>5, <1>6, LeaveSteps

LEMMA LinkedEffect ==
    ASSUME Typed, NEW p, HasInst(p), NEW r, r = last_id + 1
    PROVE  Effect(p, Linked(p, r), {r}) /\ Len(Linked(p, r).mods) = 2
<1>1. Local(p) \in Mine(p) /\ Local(p) \in DOMAIN graph /\ Local(p) \in Int
  BY InstFacts, MineFacts DEF Typed
<1>2. r \notin DOMAIN graph /\ r \in Int /\ r # Local(p) /\ r # NullRef
  BY <1>1 DEF Typed, NullRef
<1>3. PICK h, n, key : n = Local(p) /\ key = Key(p, "syma") /\ h = MadeNode(p, r)
  OBVIOUS
<1>4. /\ DOMAIN h = DOMAIN graph \cup {r}
      /\ \A m \in DOMAIN graph : m # n => h[m] = graph[m]
      /\ DOMAIN h[r] = {}
      /\ DOMAIN h[n] = DOMAIN graph[n] \cup {key}
      /\ \A j \in DOMAIN graph[n] \cup {key} :
           h[n][j] = IF j = key THEN Ref(r) ELSE graph[n][j]
  <2>1. PICK base : base = [m \in DOMAIN graph \cup {r} |-> IF m = r THEN <<>> ELSE graph[m]]
    OBVIOUS
  <2>2. /\ DOMAIN base = DOMAIN graph \cup {r} /\ DOMAIN base[r] = {}
        /\ \A m \in DOMAIN graph : base[m] = graph[m]
    BY <1>2, <2>1
  <2>3. h = Put(base, n, key, Ref(r))
    BY <1>3, <2>1, Zenon DEF MadeNode, Salloc
  <2>4. n \in DOMAIN base /\ n # r /\ n \in DOMAIN graph
    BY <1>1, <1>2, <1>3, <2>2
  <2>5. /\ DOMAIN h = DOMAIN base
        /\ \A m \in DOMAIN base : m # n => h[m] = base[m]
        /\ DOMAIN h[n] = DOMAIN base[n] \cup {key}
        /\ \A j \in DOMAIN base[n] \cup {key} :
             h[n][j] = IF j = key THEN Ref(r) ELSE base[n][j]
    BY <2>3, <2>4, PutFacts
  <2> QED BY <2>2, <2>4, <2>5
<1>5. PICK s : s = Linked(p, r)
  OBVIOUS
<1>6. s.graph = h /\ s.mods = <<n, r>> /\ DOMAIN s = {"graph", "mods", "action"}
  BY <1>3, <1>5 DEF Linked, Result
<1>7. s.mods \in Seq(Int) /\ Len(s.mods) = 2 /\ DOMAIN s.mods = 1 .. 2
      /\ s.mods[1] = n /\ s.mods[2] = r
  BY <1>1, <1>2, <1>3, <1>6
<1>8. ASSUME NEW m \in DOMAIN h, NEW k \in DOMAIN h[m]
      PROVE  \/ m \in DOMAIN graph /\ k \in DOMAIN graph[m] /\ h[m][k] = graph[m][k]
             \/ h[m][k] = Ref(r)
  BY <1>4
<1>9. NonNull(Ref(r)) /\ Data(Ref(r)) = r /\ IsValue(Ref(r))
  BY <1>2 DEF NonNull, Is, Ref, Data, IsValue
<1>10. WellFormed(h)
  BY <1>4, <1>8, <1>9 DEF Typed, WellFormed, IsValue
<1>11. \A m \in DOMAIN h : m \in {r} \/ h[m] # graph[m] =>
         /\ m \in Mine(p) \cup {r}
         /\ \E i \in DOMAIN s.mods : s.mods[i] = m
  <2>1. \A m \in DOMAIN h : m \in {r} \/ h[m] # graph[m] => m = n \/ m = r
    BY <1>4
  <2>2. 1 \in DOMAIN s.mods /\ 2 \in DOMAIN s.mods
    BY <1>7
  <2> QED BY <1>1, <1>3, <1>7, <2>1, <2>2
<1>12. ASSUME NEW m \in DOMAIN h, NEW c \in Children(h, m)
       PROVE  (m \in DOMAIN graph /\ c \in Children(graph, m)) \/ c \in Mine(p) \cup {r}
  <2>1. PICK k \in DOMAIN h[m] : NonNull(h[m][k]) /\ c = Data(h[m][k])
    BY <1>12 DEF Children
  <2>2. CASE m \in DOMAIN graph /\ k \in DOMAIN graph[m] /\ h[m][k] = graph[m][k]
    BY <2>1, <2>2 DEF Children
  <2> QED BY <1>8, <1>9, <2>1, <2>2
<1> QED BY <1>4, <1>5, <1>6, <1>7, <1>10, <1>11, <1>12 DEF Effect

LEMMA NewSteps ==
    ASSUME Typed, NEW p, New(p)
    PROVE  Steps(p, {}) \/ Steps(p, Fresh)
<1>1. Runs(p, "new") /\ UNCHANGED roots
  BY DEF New
<1>2. p \in DOMAIN procs /\ HasInst(p)
  BY <1>1, RunsFacts
<1>3. PICK r : r = last_id + 1
  OBVIOUS
<1>4. PICK end : end = Final(p, IsSym(p, "syma"), Linked(p, r))
  OBVIOUS
<1>5. PICK dies \in BOOLEAN : dies = (end.action = "FAIL")
  OBVIOUS
<1>6. Leave(p, end, dies) /\ r <= MaxRef
  BY <1>3, <1>4, <1>5 DEF New
<1>7. CASE IsSym(p, "syma")
  <2>1. PICK linked, new : linked = Linked(p, r) /\ new = {r}
    OBVIOUS
  <2>2. Effect(p, linked, new) /\ Len(linked.mods) = 2 /\ new \cap DOMAIN graph = {}
    BY <1>2, <1>3, <2>1, LinkedEffect DEF Typed
  <2>3. end = Advance(p, linked)
    BY <1>4, <1>7, <2>1 DEF Final
  <2>a. Effect(p, Advance(p, linked), new) /\ Len(Advance(p, linked).mods) <= Len(linked.mods) + 1
    BY <1>2, <2>2, EffectAdvance
  <2>4. Effect(p, end, new) /\ Len(end.mods) <= 3
    BY <2>2, <2>3, <2>a
  <2>5. new = Fresh /\ last_id' = last_id + 1 /\ last_id' <= MaxRef
    BY <1>3, <1>6, <1>7, <2>1 DEF New, Fresh
  <2>6. Steps(p, new)
    BY <1>1, <1>2, <1>6, <2>4, <2>5, LeaveSteps
  <2> QED BY <2>5, <2>6
<1>8. CASE ~ IsSym(p, "syma")
  <2>1. PICK first : first = Result
    OBVIOUS
  <2>2. end = Failed(first) /\ UNCHANGED last_id
    BY <1>4, <1>8, <2>1 DEF Final, New
  <2>3. Effect(p, first, {}) /\ Len(first.mods) = 0
    BY <2>1, EffectResult
  <2>4. Effect(p, end, {}) /\ Len(end.mods) = 0
    BY <2>2, <2>3, EffectFailed
  <2> QED BY <1>1, <1>2, <1>6, <2>2, <2>4, LeaveSteps
<1> QED BY <1>7, <1>8

LEMMA CopySteps ==
    ASSUME Typed, NEW p, Copy(p)
    PROVE  Steps(p, {})
<1>1. PICK val, loads : val = Operand(p, "syma") /\ loads = (~ Is(val, "none"))
  OBVIOUS
<1>2. Runs(p, "copy") /\ Assign(p, loads, "symb", val)
  BY <1>1 DEF Copy
<1>3. p \in DOMAIN procs /\ HasInst(p)
  BY <1>2, RunsFacts
<1>4. loads => Owned(p, val)
  BY <1>1, <1>3, OwnedUnlessNone
<1> QED BY <1>2, <1>3, <1>4, AssignSteps

LEMMA LoadSteps ==
    ASSUME Typed, NEW p, Load(p)
    PROVE  Steps(p, {})
<1>1. PICK sec, val, loads :
         /\ sec = Operand(p, "syma") /\ val = Get(graph, Data(sec), Key(p, "symb"))
         /\ loads = (Is(sec, "ref") /\ IsSym(p, "symb") /\ ~ Is(val, "none"))
  OBVIOUS
<1>2. Runs(p, "load") /\ Assign(p, loads, "symc", val)
  BY <1>1 DEF Load
<1>3. p \in DOMAIN procs /\ HasInst(p)
  BY <1>2, RunsFacts
<1>4. ASSUME loads PROVE Owned(p, val)
  <2>1. Is(sec, "ref") /\ ~ Is(sec, "none") /\ ~ Is(val, "none")
    BY <1>1, <1>4 DEF Is
  <2>2. Owned(p, sec)
    BY <1>1, <1>3, <2>1, OwnedUnlessNone
  <2>3. PICK n, key : n = Data(sec) /\ key = Key(p, "symb")
    OBVIOUS
  <2>4. n \in DOMAIN graph => n \in Mine(p)
    BY <1>3, <2>1, <2>2, <2>3, RefOwned
  <2> QED BY <1>1, <2>1, <2>3, <2>4, GetOwned, NoneFacts
<1> QED BY <1>2, <1>3, <1>4, AssignSteps

LEMMA SaveSteps ==
    ASSUME Typed, NEW p, Save(p)
    PROVE  Steps(p, {})
<1>1. PICK sec, val, n, key, loads, r :
         /\ sec = Operand(p, "symc") /\ val = Operand(p, "syma")
         /\ n = Data(sec) /\ key = Key(p, "symb")
         /\ loads = (~ Is(val, "none") /\ IsSym(p, "symb") /\ Is(sec, "ref"))
         /\ r = Store(Result, n, key, val)
  OBVIOUS
<1>2. Runs(p, "save") /\ Plain(p, loads, r)
  BY <1>1 DEF Save
<1>3. p \in DOMAIN procs /\ HasInst(p)
  BY <1>2, RunsFacts
<1>4. ASSUME loads PROVE Effect(p, r, {}) /\ Len(r.mods) <= 2
  <2>1. Is(sec, "ref") /\ ~ Is(sec, "none") /\ ~ Is(val, "none")
    BY <1>1, <1>4 DEF Is
  <2>2. Owned(p, sec) /\ Owned(p, val)
    BY <1>1, <1>3, <2>1, OwnedUnlessNone
  <2>3. n \in Int /\ (n \in DOMAIN graph => n \in Mine(p))
    BY <1>1, <1>3, <2>1, <2>2, RefOwned
  <2>4. Effect(p, Store(Result, n, key, val), {}) /\ Len(Store(Result, n, key, val).mods) = 1
    BY <2>2, <2>3, StoreResult
  <2>5. Effect(p, r, {}) /\ Len(r.mods) = 1
    BY <1>1, <2>4, Zenon
  <2> QED BY <2>5
<1> QED BY <1>2, <1>3, <1>4, PlainSteps

LEMMA DropPairSteps ==
    ASSUME Typed, NEW p, DropPair(p)
    PROVE  Steps(p, {})
<1>1. PICK n, key, loads, r :
         /\ n = Data(Var(p, "syma")) /\ key = Key(p, "symb")
         /\ loads = (IsRefVar(p, "syma") /\ IsSym(p, "symb"))
         /\ r = Drop(Result, n, key)
  OBVIOUS
<1>2. Runs(p, "drop") /\ Plain(p, loads, r)
  BY <1>1 DEF DropPair
<1>3. p \in DOMAIN procs /\ HasInst(p)
  BY <1>2, RunsFacts
<1>4. ASSUME loads PROVE Effect(p, r, {}) /\ Len(r.mods) <= 2
  <2>1. NonNull(Var(p, "syma")) /\ ~ Is(Var(p, "syma"), "none")
    BY <1>1, <1>4 DEF IsRefVar, NonNull, Is
  <2>2. n \in Mine(p)
    BY <1>1, <1>3, <2>1, OwnedUnlessNone DEF Owned
  <2>3. Effect(p, Drop(Result, n, key), {}) /\ Len(Drop(Result, n, key).mods) = 1
    BY <2>2, EffectDrop
  <2>4. Effect(p, r, {}) /\ Len(r.mods) = 1
    BY <1>1, <2>3, Zenon
  <2> QED BY <2>4
<1> QED BY <1>2, <1>3, <1>4, PlainSteps

LEMMA LookSteps ==
    ASSUME Typed, NEW p, TypeOf(p) \/ Count(p) \/ IndexLoad(p)
    PROVE  Steps(p, {})
<1>1. CASE TypeOf(p)
  <2>1. PICK val, loads : /\ val = Sym(Get(graph, Data(Var(p, "syma")), Key(p, "symb"))[1])
                          /\ loads = (IsRefVar(p, "syma") /\ IsSym(p, "symb"))
    OBVIOUS
  <2>2. Runs(p, "type") /\ Assign(p, loads, "symc", val)
    BY <1>1, <2>1 DEF TypeOf
  <2>3. Owned(p, val) /\ p \in DOMAIN procs /\ HasInst(p)
    BY <2>1, <2>2, PlainValues, RunsFacts
  <2> QED BY <2>2, <2>3, AssignSteps
<1>2. CASE Count(p)
  <2>1. PICK val, loads : /\ val = Num(Cardinality(Pairs(Data(Var(p, "syma")))))
                          /\ loads = IsRefVar(p, "syma")
    OBVIOUS
  <2>2. Runs(p, "count") /\ Assign(p, loads, "symb", val)
    BY <1>2, <2>1 DEF Count
  <2>3. Owned(p, val) /\ p \in DOMAIN procs /\ HasInst(p)
    BY <2>1, <2>2, PlainValues, RunsFacts
  <2> QED BY <2>2, <2>3, AssignSteps
<1>3. CASE IndexLoad(p)
  <2>1. PICK loads : loads = (IsRefVar(p, "syma") /\ IsSym(p, "symb") /\ Is(Var(p, "symb"), "int"))
    OBVIOUS
  <2>2. Runs(p, "iload") /\ \E k : Assign(p, loads, "symc", Sym(k))
    BY <1>3, <2>1, Zenon DEF IndexLoad
  <2>3. PICK k, val : val = Sym(k) /\ Assign(p, loads, "symc", val)
    BY <2>2
  <2>4. Owned(p, val) /\ p \in DOMAIN procs /\ HasInst(p)
    BY <2>2, <2>3, PlainValues, RunsFacts
  <2> QED BY <2>3, <2>4, AssignSteps
<1> QED BY <1>1, <1>2, <1>3

LEMMA ComputeSteps ==
    ASSUME Typed, NEW p,
           ComputeOne(p) \/ ComputeTwo(p, TwoArgFp, "float") \/ ComputeTwo(p, TwoArgInt, "int")
    PROVE  Steps(p, {})
<1>1. CASE ComputeOne(p)
  <2>0. PICK op \in DOMAIN OneArg : \E val \in Results(OneArg[op][2]) :
            Runs(p, op) /\ Assign(p, Is(Operand(p, "syma"), OneArg[op][1]), "symb", val)
    BY <1>1, Zenon DEF ComputeOne
  <2>1. PICK val \in Results(OneArg[op][2]) :
            Runs(p, op) /\ Assign(p, Is(Operand(p, "syma"), OneArg[op][1]), "symb", val)
    BY <2>0, Zenon
  <2>2. PICK loads : loads = Is(Operand(p, "syma"), OneArg[op][1])
    OBVIOUS
  <2>3. OneArg[op][2] \in {"int", "sym", "float"}
    BY DEF OneArg
  <2>4. Owned(p, val) /\ p \in DOMAIN procs /\ HasInst(p) /\ Assign(p, loads, "symb", val)
    BY <2>1, <2>2, <2>3, ResultsOwned, RunsFacts
  <2> QED BY <2>4, AssignSteps
<1>2. ASSUME NEW ops, NEW type \in {"int", "sym", "float"}, ComputeTwo(p, ops, type)
      PROVE  Steps(p, {})
  <2>1. PICK op \in ops, val \in Results(type) :
            Runs(p, op) /\ Assign(p, TakesTwo(p, type), "symc", val)
    BY <1>2 DEF ComputeTwo
  <2>2. PICK loads : loads = TakesTwo(p, type)
    OBVIOUS
  <2>3. Owned(p, val) /\ p \in DOMAIN procs /\ HasInst(p) /\ Assign(p, loads, "symc", val)
    BY <2>1, <2>2, ResultsOwned, RunsFacts
  <2> QED BY <2>3, AssignSteps
<1> QED BY <1>1, <1>2

LEMMA BranchSteps ==
    ASSUME Typed, NEW p, Branch(p)
    PROVE  Steps(p, {})
<1>1. PICK loads : loads = (~ Is(Operand(p, "syma"), "none")
                            /\ Is(Operand(p, "symb"), Operand(p, "syma")[1]))
  OBVIOUS
<1>2. p \in DOMAIN procs /\ HasInst(p) /\ UNCHANGED last_id /\ UNCHANGED roots
  BY RunsFacts DEF Branch
<1>3. PICK way, next, n, end :
        /\ next = (IF Is(Arg(p, way), "none") THEN Arg(p, "next") ELSE Arg(p, way))
        /\ n = Local(p)
        /\ end = (IF loads /\ ~ Is(next, "none") THEN Store(Result, n, "instpntr", next)
                  ELSE Failed(Result))
        /\ Leave(p, end, end.action = "FAIL")
  BY <1>1, Zenon DEF Branch
<1>4. PICK dies \in BOOLEAN : dies = (end.action = "FAIL")
  OBVIOUS
<1>5. Leave(p, end, dies)
  BY <1>3, <1>4
<1>6. CASE loads /\ ~ Is(next, "none")
  <2>1. Owned(p, next)
    BY <1>2, <1>3, <1>6, OwnedUnlessNone
  <2>2. n \in Int /\ (n \in DOMAIN graph => n \in Mine(p))
    BY <1>2, <1>3, InstFacts, MineFacts DEF Typed
  <2>3. Effect(p, Store(Result, n, "instpntr", next), {})
        /\ Len(Store(Result, n, "instpntr", next).mods) = 1
    BY <2>1, <2>2, StoreResult
  <2>4. Effect(p, end, {}) /\ Len(end.mods) = 1
    BY <1>3, <1>6, <2>3, Zenon
  <2>5. Effect(p, end, {}) /\ Len(end.mods) <= 3
    BY <2>4
  <2> QED BY <1>2, <1>5, <2>5, LeaveSteps
<1>7. CASE ~ (loads /\ ~ Is(next, "none"))
  <2>1. end = Failed(Result)
    BY <1>3, <1>7, Zenon
  <2>2. Effect(p, Failed(Result), {}) /\ Failed(Result).mods = Result.mods /\ Len(Result.mods) = 0
    BY EffectResult, EffectFailed
  <2>3. Effect(p, end, {}) /\ Len(end.mods) = 0
    BY <2>1, <2>2
  <2> QED BY <1>2, <1>5, <2>3, LeaveSteps
<1> QED BY <1>6, <1>7

LEMMA FinalResult ==
    ASSUME Typed, NEW p, HasInst(p), NEW loads
    PROVE  /\ Effect(p, Final(p, loads, Result), {}) /\ Len(Final(p, loads, Result).mods) <= 3
           /\ Final(p, loads, Result).action # "FAIL" => loads
<1>1. PICK r : r = Result
  OBVIOUS
<1>2. Effect(p, r, {}) /\ Len(r.mods) = 0
  BY <1>1, EffectResult
<1>3. Effect(p, Final(p, loads, r), {}) /\ Len(Final(p, loads, r).mods) <= 3
  BY <1>2, EffectFinal
<1>4. ~ loads => Final(p, loads, Result).action = "FAIL"
  BY DEF Final, Failed, Result
<1> QED BY <1>1, <1>3, <1>4, Zenon

LEMMA IdleSteps ==
    ASSUME Typed, NEW p, Wait(p) \/ Show(p) \/ Sleep(p) \/ ExCall(p)
    PROVE  Steps(p, {})
<1>1. p \in DOMAIN procs /\ HasInst(p) /\ UNCHANGED last_id /\ UNCHANGED roots
  BY RunsFacts DEF Wait, Show, Sleep, ExCall, Plain
<1>2. \E loads : \E dies \in BOOLEAN : Leave(p, Final(p, loads, Result), dies)
  <2>1. CASE Wait(p)
    BY <2>1 DEF Wait, Plain
  <2>2. CASE Show(p)
    BY <2>2 DEF Show, Plain
  <2>3. CASE Sleep(p)
    BY <2>3 DEF Sleep
  <2>4. CASE ExCall(p)
    BY <2>4 DEF ExCall
  <2> QED BY <2>1, <2>2, <2>3, <2>4
<1>3. PICK loads, end, dies :
        dies \in BOOLEAN /\ end = Final(p, loads, Result) /\ Leave(p, end, dies)
  BY <1>2
<1>4. Effect(p, end, {}) /\ Len(end.mods) <= 3
  BY <1>1, <1>3, FinalResult
<1> QED BY <1>1, <1>3, <1>4, LeaveSteps

LEMMA PushSteps ==
    ASSUME Typed, NEW p, Push(p)
    PROVE  Steps(p, {})
<1>1. p \in DOMAIN procs /\ HasInst(p) /\ UNCHANGED last_id
  BY RunsFacts DEF Push
<1>2. PICK loads, frame, stored, invoke, calls :
        /\ loads = (IsSym(p, "syma") /\ NonNull(Arg(p, "next")))
        /\ frame = Local(p)
        /\ stored = (IF loads THEN Store(Result, frame, "instrpnt", Arg(p, "next"))
                     ELSE Failed(Result))
        /\ invoke = Get(stored.graph, frame, Key(p, "syma"))
        /\ calls = (stored.action # "FAIL" /\ NonNull(invoke))
  OBVIOUS
<1>3. /\ graph' = stored.graph /\ res' = [pid |-> p, mods |-> stored.mods]
      /\ procs' = IF calls THEN [procs EXCEPT ![p].local = Data(invoke)]
                  ELSE [procs EXCEPT ![p].alive = FALSE]
      /\ roots' = IF calls THEN Remarked(p, Data(invoke)) ELSE roots
  BY <1>2, Zenon DEF Push
<1>4. frame \in Mine(p) /\ frame \in Int /\ frame \in DOMAIN graph
  BY <1>1, <1>2, InstFacts, MineFacts DEF Typed
<1>5. Effect(p, stored, {}) /\ Len(stored.mods) <= 3
  <2>1. CASE loads
    <3>1. PICK next : next = Arg(p, "next")
      OBVIOUS
    <3>2. Owned(p, next)
      BY <1>1, <1>2, <2>1, <3>1, OwnedUnlessNone DEF NonNull, Is
    <3>3. Effect(p, Store(Result, frame, "instrpnt", next), {})
          /\ Len(Store(Result, frame, "instrpnt", next).mods) = 1
      BY <1>4, <3>2, StoreResult
    <3>4. Effect(p, stored, {}) /\ Len(stored.mods) = 1
      BY <1>2, <2>1, <3>1, <3>3, Zenon
    <3> QED BY <3>4
  <2>2. CASE ~ loads
    <3>1. stored = Failed(Result)
      BY <1>2, <2>2, Zenon
    <3>2. Effect(p, Failed(Result), {}) /\ Failed(Result).mods = Result.mods /\ Len(Result.mods) = 0
      BY EffectResult, EffectFailed
    <3>3. Effect(p, stored, {}) /\ Len(stored.mods) = 0
      BY <3>1, <3>2
    <3> QED BY <3>3
  <2> QED BY <2>1, <2>2
<1>6. Frames(p)
  <2>1. CASE calls
    <3>1. PICK n, key : n = Data(invoke) /\ key = Key(p, "syma")
      OBVIOUS
    <3>2. /\ frame \in DOMAIN stored.graph /\ key \in DOMAIN stored.graph[frame]
          /\ NonNull(stored.graph[frame][key]) /\ n = Data(stored.graph[frame][key])
      BY <1>2, <2>1, <3>1, NoneFacts DEF Get
    <3>3. n \in Children(stored.graph, frame)
      BY <3>2 DEF Children
    <3>4. n \in Mine(p) /\ n \in Int
      BY <1>4, <1>5, <3>2, <3>3, MineFacts DEF Effect, Typed
    <3>5. procs' = [procs EXCEPT ![p].local = n] /\ roots' = Remarked(p, n)
      BY <1>3, <2>1, <3>1
    <3>6. procs \in Seq(Procs) /\ DOMAIN procs = 1 .. Len(procs) /\ Len(procs) \in Nat
      BY DEF Typed
    <3>7. PICK proc : proc = [procs[p] EXCEPT !.local = n]
      OBVIOUS
    <3>a. procs[p] \in Procs
      BY <1>1, <3>6
    <3>8. proc \in Procs /\ proc.local = n
      BY <3>4, <3>7, <3>a DEF Procs
    <3>9. procs' = [procs EXCEPT ![p] = proc]
      BY <3>5, <3>7
    <3>10. /\ procs' \in Seq(Procs) /\ DOMAIN procs' = DOMAIN procs
           /\ \A q \in DOMAIN procs : procs'[q] = IF q = p THEN proc ELSE procs[q]
      BY <1>1, <3>6, <3>8, <3>9, ExceptSeq
    <3>11. \A q \in DOMAIN procs' :
              procs'[q].local \in Mine(p) \/ (q \in DOMAIN procs /\ procs'[q].local = Local(q))
      BY <3>4, <3>8, <3>10 DEF Local
    <3>12. procs' \in Seq(Procs)
      BY <3>10
    <3> QED BY <1>1, <3>4, <3>5, <3>11, <3>12, Zenon DEF Frames
  <2>2. CASE ~ calls
    BY <1>1, <1>3, <2>2, KeptFrames
  <2> QED BY <1>2, <2>1, <2>2
<1> QED BY <1>1, <1>3, <1>5, <1>6 DEF Steps

LEMMA ForkSteps ==
    ASSUME Typed, NEW p, Fork(p)
    PROVE  Steps(p, {})
<1>1. p \in DOMAIN procs /\ HasInst(p) /\ UNCHANGED last_id /\ UNCHANGED roots
  BY RunsFacts DEF Fork
<1>2. PICK loads, end, n :
        /\ loads = IsRefVar(p, "syma") /\ end = Final(p, loads, Result)
        /\ n = Data(Var(p, "syma"))
  OBVIOUS
<1>3. /\ graph' = end.graph /\ res' = [pid |-> p, mods |-> end.mods]
      /\ procs' = IF end.action = "FAIL" THEN [procs EXCEPT ![p].alive = FALSE]
                  ELSE Append(procs, [local |-> n, alive |-> TRUE])
  BY <1>2, Zenon DEF Fork
<1>4. /\ Effect(p, end, {}) /\ Len(end.mods) <= 3
      /\ end.action # "FAIL" => loads
  BY <1>1, <1>2, FinalResult
<1>5. Frames(p)
  <2>1. CASE end.action = "FAIL"
    BY <1>1, <1>3, <2>1, KeptFrames
  <2>2. CASE end.action # "FAIL"
    <3>1. NonNull(Var(p, "syma")) /\ ~ Is(Var(p, "syma"), "none")
      BY <1>2, <1>4, <2>2 DEF IsRefVar, NonNull, Is
    <3>2. n \in Mine(p) /\ n \in Int
      BY <1>1, <1>2, <3>1, OwnedUnlessNone, MineFacts DEF Owned, Typed
    <3>3. PICK proc : proc = [local |-> n, alive |-> TRUE]
      OBVIOUS
    <3>4. proc \in Procs /\ proc.local = n /\ procs' = Append(procs, proc)
      BY <1>3, <2>2, <3>2, <3>3 DEF Procs
    <3>5. procs \in Seq(Procs) /\ DOMAIN procs = 1 .. Len(procs) /\ Len(procs) \in Nat
      BY DEF Typed
    <3>6. /\ procs' \in Seq(Procs) /\ DOMAIN procs' = 1 .. Len(procs) + 1
          /\ Len(procs') = Len(procs) + 1
          /\ \A q \in 1 .. Len(procs) : procs'[q] = procs[q]
          /\ procs'[Len(procs) + 1] = proc
      BY <3>4, <3>5
    <3>7. Len(procs') # 1
      BY <1>1, <3>5, <3>6
    <3>8. \A q \in DOMAIN procs' :
              procs'[q].local \in Mine(p) \/ (q \in DOMAIN procs /\ procs'[q].local = Local(q))
      BY <3>2, <3>4, <3>5, <3>6 DEF Local
    <3>9. procs' \in Seq(Procs)
      BY <3>6
    <3> QED BY <1>1, <3>7, <3>8, <3>9, Zenon DEF Frames
  <2> QED BY <2>1, <2>2
<1> QED BY <1>1, <1>3, <1>4, <1>5 DEF Steps

(* Every instruction, but for one that divides by zero.                    *)
LEMMA InstructionSteps ==
    ASSUME Typed, NEW p, Instruction(p)
    PROVE  \/ Steps(p, {}) \/ Steps(p, Fresh)
           \/ UNCHANGED <<graph, last_id, roots, procs, res>>
<1>1. DivideByZero(p) => UNCHANGED <<graph, last_id, roots, procs, res>>
  BY DEF DivideByZero
<1> QED BY <1>1, DiesSteps, NewSteps, CopySteps, LoadSteps, SaveSteps, DropPairSteps, LookSteps,
           ComputeSteps, BranchSteps, PushSteps, ForkSteps, IdleSteps DEF Instruction
-----------------------------------------------------------------------------
(* The invariant.                                                          *)
LEMMA InitTyped == Init => Typed
<1> SUFFICES ASSUME NEW prog \in Programs,
                    graph = prog.graph, last_id = Cardinality(DOMAIN prog.graph),
                    roots = prog.roots,
                    procs = <<[local |-> prog.local, alive |-> TRUE]>>,
                    res = [pid |-> 0, mods |-> <<>>]
             PROVE  Typed
  BY DEF Init
<1>1. PICK n \in 0 .. MaxRef : DOMAIN prog.graph = 1 .. n
  BY EvalAssumption
<1>2. last_id = n
  BY <1>1, FS_Interval
<1>3. WellFormed(prog.graph) /\ prog.roots \subseteq 1 .. n /\ prog.local \in 1 .. n
  BY <1>1, EvalAssumption
<1>4. procs \in Seq(Procs)
  BY <1>3 DEF Procs
<1>5. Len(res.mods) <= 3
  OBVIOUS
<1> QED BY <1>1, <1>2, <1>3, <1>4, <1>5 DEF Typed

LEMMA StepTyped ==
    ASSUME Typed, NEW p, NEW new, Steps(p, new)
    PROVE  Typed'
<1>1. PICK r : /\ Effect(p, r, new) /\ Len(r.mods) <= 3
               /\ graph' = r.graph /\ res' = [pid |-> p, mods |-> r.mods]
  BY DEF Steps
<1>2. \/ new = {} /\ last_id' = last_id
      \/ new = {last_id + 1} /\ last_id' = last_id + 1 /\ last_id' <= MaxRef
  BY DEF Steps, Fresh
<1>3. last_id' \in 0 .. MaxRef /\ 1 .. last_id \subseteq 1 .. last_id' /\ new \subseteq 1 .. last_id'
  BY <1>2, EvalAssumption DEF Typed
<1>4. DOMAIN graph' \subseteq 1 .. last_id' /\ WellFormed(graph') /\ Len(res'.mods) <= 3
  BY <1>1, <1>3 DEF Effect, Typed
<1>5. roots' \subseteq 1 .. last_id' /\ procs' \in Seq(Procs)
  BY <1>3, MineFacts DEF Steps, Frames, Typed, Remarked
<1> QED BY <1>3, <1>4, <1>5 DEF Typed

LEMMA CleanTyped ==
    ASSUME Typed, Clean
    PROVE  /\ Typed'
           /\ DOMAIN graph' \subseteq DOMAIN graph
           /\ \A n \in DOMAIN graph' : graph'[n] = graph[n]
           /\ roots \cap DOMAIN graph \subseteq DOMAIN graph'
<1>1. IsFiniteSet(DOMAIN graph)
  BY GraphFinite
<1>2. PICK T : T = Reach(graph, roots)
  OBVIOUS
<1>3. roots \cap DOMAIN graph \subseteq T /\ T \subseteq DOMAIN graph /\ ClosedIn(graph, T)
  BY <1>1, <1>2, ReachStarts, ReachCloses
<1>4. DOMAIN graph' = T /\ \A n \in T : graph'[n] = graph[n]
  BY <1>2 DEF Clean, Cleaned
<1>5. WellFormed(graph')
  <2> SUFFICES ASSUME NEW n \in T, NEW k \in DOMAIN graph[n]
               PROVE  /\ graph[n][k][1] \in {"ref", "sym", "int", "float"}
                      /\ NonNull(graph[n][k]) => Data(graph[n][k]) \in T
    BY <1>4 DEF WellFormed
  <2>1. /\ graph[n][k][1] \in {"ref", "sym", "int", "float"}
        /\ NonNull(graph[n][k]) => Data(graph[n][k]) \in DOMAIN graph
    BY <1>3 DEF Typed, WellFormed
  <2>2. NonNull(graph[n][k]) => Data(graph[n][k]) \in Children(graph, n)
    BY DEF Children
  <2> QED BY <1>3, <2>1, <2>2 DEF ClosedIn
<1>6. UNCHANGED <<last_id, roots, procs>> /\ Len(res'.mods) <= 3
  BY DEF Clean
<1> QED BY <1>3, <1>4, <1>5, <1>6 DEF Typed

(* What a step may be.                                                     *)
LEMMA StepCases ==
    ASSUME Typed, [Next]_vars
    PROVE  \/ \E p : Steps(p, {}) \/ Steps(p, Fresh)
           \/ UNCHANGED <<graph, last_id, roots, procs, res>>
           \/ Clean
BY InstructionSteps DEF Next, vars

LEMMA TypedStep == Typed /\ [Next]_vars => Typed'
<1> SUFFICES ASSUME Typed, [Next]_vars
             PROVE  Typed'
  OBVIOUS
<1>1. UNCHANGED <<graph, last_id, roots, procs, res>> => Typed'
  BY DEF Typed
<1> QED BY <1>1, StepCases, StepTyped, CleanTyped

LEMMA AlwaysTyped == Spec => []Typed
BY InitTyped, TypedStep, PTL DEF Spec

(* Whatever the program, its processes and the collections between them,   *)
(* every reference in the graph is null or names a node that exists, every *)
(* mark is on an address that was given, and no instruction modifies more  *)
(* nodes than eval.h has room for.                                         *)
THEOREM EvalTypeOK == Spec => []TypeOK
<1>1. Typed => TypeOK
  BY DEF Typed, TypeOK
<1> QED BY <1>1, AlwaysTyped, PTL

(* Every node an instruction made or changed is among those it says it     *)
(* modified, also when it fails halfway: no process that waits on a node   *)
(* is left asleep over a change.                                           *)
THEOREM EvalModsCover == Spec => ModsCover
<1> DEFINE Told == \A n \in DOMAIN graph' :
                      n \notin DOMAIN graph \/ graph'[n] # graph[n]
                         => \E i \in DOMAIN res'.mods : res'.mods[i] = n
<1>1. ASSUME Typed, [Next]_vars PROVE [Told]_vars
  <2>1. ASSUME NEW p, NEW new, Steps(p, new) PROVE Told
    <3>1. PICK r : Effect(p, r, new) /\ graph' = r.graph /\ res'.mods = r.mods
      BY <2>1 DEF Steps
    <3> QED BY <3>1 DEF Effect
  <2>2. UNCHANGED <<graph, last_id, roots, procs, res>> => Told
    OBVIOUS
  <2>3. Clean => Told
    BY <1>1, CleanTyped
  <2> QED BY <1>1, <2>1, <2>2, <2>3, StepCases
<1> QED BY <1>1, AlwaysTyped, PTL DEF Spec, ModsCover

(* References cannot be made up.                                           *)
LEMMA StepConfined ==
    ASSUME Typed, NEW p, NEW new, Steps(p, new)
    PROVE  /\ \A n \in DOMAIN graph : graph'[n] # graph[n] => n \in Mine(p)
           /\ \A q \in DOMAIN procs' :
                Reach(graph', {procs'[q].local})
                   \subseteq Mine(p) \cup (DOMAIN graph' \ DOMAIN graph) \cup
                             IF q \in DOMAIN procs THEN Reach(graph, {Local(q)}) ELSE {}
<1>1. PICK r : Effect(p, r, new) /\ graph' = r.graph
  BY DEF Steps
<1>2. new \cap DOMAIN graph = {}
  BY DEF Steps, Fresh, Typed
<1>3. DOMAIN graph' = DOMAIN graph \cup new
      /\ \A n \in DOMAIN graph : graph'[n] # graph[n] => n \in Mine(p)
  BY <1>1, <1>2 DEF Effect
<1>4. IsFiniteSet(DOMAIN graph) /\ IsFiniteSet(DOMAIN graph')
  <2>1. last_id' \in Nat /\ DOMAIN graph' \subseteq 1 .. last_id'
    BY StepTyped DEF Typed
  <2>2. IsFiniteSet(1 .. last_id')
    BY <2>1, FS_Interval
  <2>3. IsFiniteSet(DOMAIN graph')
    BY <2>1, <2>2, FS_Subset
  <2> QED BY <2>3, GraphFinite
<1>5. ASSUME NEW q \in DOMAIN procs'
      PROVE  Reach(graph', {procs'[q].local})
                \subseteq Mine(p) \cup new \cup
                          IF q \in DOMAIN procs THEN Reach(graph, {Local(q)}) ELSE {}
  <2>1. PICK frame, own :
          /\ frame = procs'[q].local
          /\ own = IF q \in DOMAIN procs THEN Reach(graph, {Local(q)}) ELSE {}
    OBVIOUS
  <2>2. frame \in Mine(p) \/ (q \in DOMAIN procs /\ frame = Local(q))
    BY <2>1 DEF Steps, Frames
  <2>3. /\ q \in DOMAIN procs => {Local(q)} \cap DOMAIN graph \subseteq own
        /\ own \subseteq DOMAIN graph
        /\ \A n \in own : \A c \in Children(graph, n) : c \in own
    BY <2>1, MineFacts DEF Mine
  <2>4. PICK T : T = Mine(p) \cup new \cup own
    OBVIOUS
  <2>5. {frame} \cap DOMAIN graph' \subseteq T
    BY <1>3, <2>2, <2>3, <2>4
  <2>6. \A n \in T \cap DOMAIN graph' : \A c \in Children(graph', n) : c \in T
    <3> SUFFICES ASSUME NEW n \in T \cap DOMAIN graph', NEW c \in Children(graph', n)
                 PROVE  c \in T
      OBVIOUS
    <3>1. (n \in DOMAIN graph /\ c \in Children(graph, n)) \/ c \in Mine(p) \cup new
      BY <1>1 DEF Effect
    <3> QED BY <1>2, <2>3, <2>4, <3>1, MineFacts
  <2>7. ClosedIn(graph', T)
    BY <2>6 DEF ClosedIn
  <2>8. Reach(graph', {frame}) \subseteq T
    BY <1>4, <2>5, <2>7, ReachLeast
  <2> QED BY <2>1, <2>4, <2>8
<1>6. new = DOMAIN graph' \ DOMAIN graph
  BY <1>2, <1>3
<1> QED BY <1>3, <1>5, <1>6

(* A process writes only to what it could reach, and to what it made; and  *)
(* after its instruction no frame, its own or another's, reaches anything  *)
(* but what that frame or the process reached before, or what is new.      *)
THEOREM EvalConfined == Spec => Confined
<1> DEFINE Kept ==
             LET mine == Reach(graph, {Local(res'.pid)})
                 new  == DOMAIN graph' \ DOMAIN graph
             IN  res'.pid # 0 =>
                   /\ \A n \in DOMAIN graph : graph'[n] # graph[n] => n \in mine
                   /\ \A p \in DOMAIN procs' :
                        Reach(graph', {procs'[p].local})
                           \subseteq mine \cup new \cup
                                     IF p \in DOMAIN procs THEN Reach(graph, {Local(p)}) ELSE {}
<1>1. ASSUME Typed, [Next]_vars PROVE [Kept]_vars
  <2>1. ASSUME NEW p, NEW new, Steps(p, new) PROVE Kept
    <3>1. res'.pid = p
      BY <2>1 DEF Steps
    <3> QED BY <1>1, <2>1, <3>1, StepConfined, Zenon DEF Mine
  <2>2. UNCHANGED <<graph, last_id, roots, procs, res>> => Kept
    BY DEF Local
  <2>3. Clean => Kept
    BY DEF Clean
  <2> QED BY <1>1, <2>1, <2>2, <2>3, StepCases
<1> QED BY <1>1, AlwaysTyped, PTL DEF Spec, Confined

(* With one process only, its frame is a node and marked as a root, from   *)
(* the first frame to any it calls: no collection takes it away.  That the *)
(* first frame is marked is up to who starts the process; allocating it    *)
(* with ndl_graph_alloc, as nodelrun does, marks it.                       *)
THEOREM EvalFrameRooted ==
    ASSUME \A prog \in Programs : prog.local \in prog.roots
    PROVE  Spec => []FrameRooted
<1> DEFINE Inv == Typed /\ FrameRooted
<1>1. Init => Inv
  <2> SUFFICES ASSUME Init PROVE FrameRooted
    BY InitTyped
  <2>1. PICK prog \in Programs : /\ graph = prog.graph /\ roots = prog.roots
                                 /\ procs = <<[local |-> prog.local, alive |-> TRUE]>>
    BY DEF Init
  <2>2. prog.local \in DOMAIN prog.graph
    BY EvalAssumption
  <2> QED BY <2>1, <2>2 DEF FrameRooted, Local
<1>2. Inv /\ [Next]_vars => Inv'
  <2> SUFFICES ASSUME Inv, [Next]_vars, Len(procs') = 1
               PROVE  procs'[1].local \in roots' \cap DOMAIN graph'
    BY TypedStep DEF FrameRooted, Local
  <2>1. procs \in Seq(Procs)
    BY DEF Typed
  <2>2. ASSUME NEW p, NEW new, Steps(p, new)
        PROVE  procs'[1].local \in roots' \cap DOMAIN graph'
    <3>1. DOMAIN graph \subseteq DOMAIN graph'
      BY <2>2 DEF Steps, Effect
    <3>2. CASE UNCHANGED roots /\ Len(procs) = 1 /\ procs'[1].local = Local(1)
      BY <3>1, <3>2 DEF FrameRooted
    <3>3. CASE \E n \in Mine(p) : /\ p \in DOMAIN procs
                                  /\ roots' = Remarked(p, n)
                                  /\ procs' = [procs EXCEPT ![p].local = n]
      <4>1. PICK n \in Mine(p) : /\ p \in DOMAIN procs
                                 /\ roots' = Remarked(p, n)
                                 /\ procs' = [procs EXCEPT ![p].local = n]
        BY <3>3
      <4>2. DOMAIN procs = 1 .. Len(procs) /\ DOMAIN procs' = DOMAIN procs
            /\ procs' \in Seq(Procs) /\ DOMAIN procs' = 1 .. Len(procs')
        BY <2>1, <2>2, <4>1 DEF Steps, Frames
      <4>3. p = 1 /\ procs[1] \in Procs
        BY <2>1, <4>1, <4>2
      <4>4. procs'[1].local = n
        BY <4>1, <4>2, <4>3 DEF Procs
      <4> QED BY <3>1, <4>1, <4>4, MineFacts DEF Remarked
    <3> QED BY <2>2, <3>2, <3>3 DEF Steps, Frames
  <2>3. CASE UNCHANGED <<graph, last_id, roots, procs, res>>
    BY <2>3 DEF FrameRooted, Local
  <2>4. CASE Clean
    <3>1. roots \cap DOMAIN graph \subseteq DOMAIN graph' /\ UNCHANGED <<roots, procs>>
      BY <2>4, CleanTyped DEF Clean
    <3> QED BY <3>1 DEF FrameRooted, Local
  <2> QED BY <2>2, <2>3, <2>4, StepCases
<1> QED BY <1>1, <1>2, PTL DEF Spec
=============================================================================
