-------------------------------- MODULE Eval --------------------------------
(***************************************************************************)
(* The evaluator: core/eval.c, the instructions of core/opcodes.c, and     *)
(* ndl_proc_step of runtime/proc.c, over a graph whose nodes have any      *)
(* number of pairs.                                                        *)
(*                                                                         *)
(* An action is one instruction of one process: what the instruction does  *)
(* to the graph, the nodes it says it modified, and what ndl_proc_step     *)
(* does with the process afterwards.  When a process that sleeps or waits  *)
(* comes back is the business of Runtime; here it may at any time.         *)
(*                                                                         *)
(* What a computation results in is any number: arithmetic is there for    *)
(* the types it takes and gives.                                           *)
(***************************************************************************)
EXTENDS NodeStore

CONSTANTS MaxRef,    \* bound: the last address in use
          MaxProcs,  \* bound: processes ever created
          Ints,      \* the numbers computations result in
          Syms,      \* the symbols computations result in
          ExCalls,   \* the external calls that are registered
          Programs   \* what a process is started on: [graph, roots, local]

ASSUME EvalAssumption ==
    /\ MaxRef \in Nat /\ MaxProcs \in Nat \ {0}
    /\ Ints \subseteq Int
    /\ \A prog \in Programs :
         /\ \E n \in 0 .. MaxRef : DOMAIN prog.graph = 1 .. n
         /\ WellFormed(prog.graph)
         /\ prog.roots \cup {prog.local} \subseteq DOMAIN prog.graph

VARIABLES graph,    \* node -> key -> value, for the nodes and pairs there are
          last_id,  \* the last address given
          roots,    \* the nodes marked as roots
          procs,    \* the processes in order of creation: [local, alive]
          up,       \* the interpreter has not crashed
          res       \* of the last step: the process, and the nodes modified

vars == <<graph, last_id, roots, procs, up, res>>

Results(type) == CASE type = "int"   -> {Num(n) : n \in Ints}
                   [] type = "sym"   -> {Sym(s) : s \in Syms}
                   [] type = "float" -> {Real}

(***************************************************************************)
(* The macros of opcodes.c, on a result r: [graph, mods, action].          *)
(***************************************************************************)
Result    == [graph |-> graph, mods |-> <<>>, action |-> "NONE"]
Failed(r) == [r EXCEPT !.action = "FAIL"]

(* A node is recorded as modified before it turns out whether it can be.   *)
Store(r, n, k, val) ==
    LET recorded == [r EXCEPT !.mods = Append(@, n)]
    IN  IF CanSet(r.graph, n, val) THEN [recorded EXCEPT !.graph = Put(@, n, k, val)]
        ELSE Failed(recorded)

Drop(r, n, k) ==
    LET recorded == [r EXCEPT !.mods = Append(@, n)]
    IN  IF ~ Is(Get(r.graph, n, k), "none")
        THEN [recorded EXCEPT !.graph = Del(@, n, k)]
        ELSE Failed(recorded)

Local(p)  == procs[p].local
Inst(p)   == Data(Get(graph, Local(p), "instpntr"))
Arg(p, k) == Get(graph, Inst(p), k)
Key(p, k) == Data(Arg(p, k))

(* LOAD of a symbol; LOADREF of the variable a symbol names.               *)
IsSym(p, k)    == Is(Arg(p, k), "sym")
Var(p, k)      == Get(graph, Local(p), Key(p, k))
IsRefVar(p, k) == IsSym(p, k) /\ NonNull(Var(p, k))

(* LOADVAL: an argument that is a symbol stands for the variable.          *)
Operand(p, k) == IF IsSym(p, k) THEN Var(p, k) ELSE Arg(p, k)

(* The next instruction is read after the instruction has had its effect.  *)
Advance(p, r) ==
    LET next == Get(r.graph, Inst(p), "next") IN
    CASE r.action = "FAIL"                    -> r
      [] r.action # "FAIL" /\ NonNull(next)   -> Store(r, Local(p), "instpntr", next)
      [] r.action # "FAIL" /\ ~ NonNull(next) -> Failed(r)

(***************************************************************************)
(* ndl_eval and ndl_proc_step.                                             *)
(***************************************************************************)
(* The types the arithmetic instructions take and give.                    *)
OneArg == [fneg |-> <<"float", "float">>, fsqrt |-> <<"float", "float">>,
           ftoi |-> <<"float", "int">>,   itof  |-> <<"int", "float">>,
           neg  |-> <<"int", "int">>,     not   |-> <<"int", "int">>,
           itos |-> <<"int", "sym">>,     stoi  |-> <<"sym", "int">>]

TwoArgFp  == {"fadd", "fsub", "fmul", "fdiv", "fmod"}
TwoArgInt == {"and", "or", "xor", "lshift", "rshift", "ulshift", "urshift",
              "add", "sub", "mul", "div", "mod"}

Opcodes == {"new", "copy", "load", "save", "drop", "type", "count", "iload",
            "branch", "push", "fork", "exit", "wait", "sleep", "excall", "print"}
           \cup DOMAIN OneArg \cup TwoArgFp \cup TwoArgInt

Alive(p) == up /\ p \in DOMAIN procs /\ procs[p].alive

HasInst(p) == NonNull(Get(graph, Local(p), "instpntr"))

Runs(p, op) == Alive(p) /\ HasInst(p) /\ Arg(p, "opcode") = Sym(op)

(* What an instruction leaves: if the process must die it does, and its    *)
(* frame stays a root.                                                     *)
Leave(p, r, dies) ==
    /\ graph' = r.graph
    /\ res' = [pid |-> p, mods |-> r.mods]
    /\ procs' = [procs EXCEPT ![p].alive = ~ dies]

(* An instruction that loads, has its effect, and advances.                *)
Final(p, loads, r) == IF loads THEN Advance(p, r) ELSE Failed(Result)

Plain(p, loads, r) ==
    /\ LET end == Final(p, loads, r) IN Leave(p, end, end.action = "FAIL")
    /\ UNCHANGED <<last_id, roots, up>>

Assign(p, loads, k, val) == Plain(p, loads /\ IsSym(p, k), Store(Result, Local(p), Key(p, k), val))

BadInst(p) ==
    /\ Alive(p)
    /\ ~ (HasInst(p) /\ IsSym(p, "opcode") /\ Key(p, "opcode") \in Opcodes)
    /\ Leave(p, Result, TRUE)
    /\ UNCHANGED <<last_id, roots, up>>

(* Nodes and slots.  salloc makes a node that refers to nothing.           *)
MadeNode(p, r) == Salloc(graph, Local(p), Key(p, "syma"), r)

(* Mutant: the reference is stored in the frame once more.                *)
StoredTwice(p, r) ==
    Store([Result EXCEPT !.graph = MadeNode(p, r), !.mods = <<Local(p), r>>],
          Local(p), Key(p, "syma"), Ref(r))

Linked(p, r) == [Result EXCEPT !.graph = MadeNode(p, r), !.mods = <<Local(p), r>>]

New(p) ==
    LET r   == last_id + 1
        end == Final(p, IsSym(p, "syma"), Linked(p, r))
    IN  /\ Runs(p, "new") /\ r <= MaxRef
        /\ Leave(p, end, end.action = "FAIL")
        /\ last_id' = IF IsSym(p, "syma") THEN r ELSE last_id
        /\ UNCHANGED <<roots, up>>

Copy(p) ==
    /\ Runs(p, "copy")
    /\ LET val == Operand(p, "syma") IN Assign(p, ~ Is(val, "none"), "symb", val)

(* Mutant: the type of what is loaded from is not checked.                *)
LoadAny(p) ==
    LET sec == Operand(p, "syma")
        val == Get(graph, Data(sec), Key(p, "symb"))
        ok  == Is(sec, "ref") \/ Is(sec, "int")
    IN  /\ Runs(p, "load")
        /\ Assign(p, ok /\ IsSym(p, "symb") /\ ~ Is(val, "none"), "symc", val)

Load(p) ==
    LET sec == Operand(p, "syma")
        val == Get(graph, Data(sec), Key(p, "symb"))
    IN  /\ Runs(p, "load")
        /\ Assign(p, Is(sec, "ref") /\ IsSym(p, "symb") /\ ~ Is(val, "none"), "symc", val)

(* Mutant: the frame is recorded, not the node saved to.                  *)
SaveUntold(p) ==
    LET val  == Operand(p, "syma")
        sec  == Operand(p, "symc")
        told == [Store(Result, Data(sec), Key(p, "symb"), val) EXCEPT !.mods = <<Local(p)>>]
    IN  /\ Runs(p, "save")
        /\ Plain(p, ~ Is(val, "none") /\ IsSym(p, "symb") /\ Is(sec, "ref"), told)

Save(p) ==
    LET val == Operand(p, "syma")
        sec == Operand(p, "symc")
    IN  /\ Runs(p, "save")
        /\ Plain(p, ~ Is(val, "none") /\ IsSym(p, "symb") /\ Is(sec, "ref"),
                 Store(Result, Data(sec), Key(p, "symb"), val))

DropPair(p) ==
    /\ Runs(p, "drop")
    /\ Plain(p, IsRefVar(p, "syma") /\ IsSym(p, "symb"),
             Drop(Result, Data(Var(p, "syma")), Key(p, "symb")))

TypeOf(p) ==
    LET val == Get(graph, Data(Var(p, "syma")), Key(p, "symb"))
    IN  Runs(p, "type") /\ Assign(p, IsRefVar(p, "syma") /\ IsSym(p, "symb"), "symc", Sym(val[1]))

Pairs(n) == IF n \in DOMAIN graph THEN DOMAIN graph[n] ELSE {}

Count(p) ==
    /\ Runs(p, "count")
    /\ Assign(p, IsRefVar(p, "syma"), "symb", Num(Cardinality(Pairs(Data(Var(p, "syma"))))))

(* The key at an index, in whatever order the table has them.              *)
IndexLoad(p) ==
    LET keys == Pairs(Data(Var(p, "syma")))
        i    == Data(Var(p, "symb"))
        loads == IsRefVar(p, "syma") /\ IsSym(p, "symb") /\ Is(Var(p, "symb"), "int")
    IN  /\ Runs(p, "iload")
        /\ \E k \in IF loads /\ i \in 0 .. Cardinality(keys) - 1 THEN keys ELSE {NullSym} :
              Assign(p, loads, "symc", Sym(k))

(* Arithmetic.                                                             *)
ComputeOne(p) ==
    \E op \in DOMAIN OneArg : \E val \in Results(OneArg[op][2]) :
        Runs(p, op) /\ Assign(p, Is(Operand(p, "syma"), OneArg[op][1]), "symb", val)

TakesTwo(p, type) == Is(Operand(p, "syma"), type) /\ Is(Operand(p, "symb"), type)

ByZero(p, op) == op \in {"div", "mod"} /\ TakesTwo(p, "int") /\ IsSym(p, "symc")
                 /\ Operand(p, "symb") = Num(0)

ComputeTwo(p, ops, type) ==
    \E op \in ops, val \in Results(type) :
        Runs(p, op) /\ ~ ByZero(p, op) /\ Assign(p, TakesTwo(p, type), "symc", val)

(* The processor's exception ends the whole interpreter.                   *)
DivideByZero(p) ==
    /\ \E op \in {"div", "mod"} : Runs(p, op) /\ ByZero(p, op)
    /\ up' = FALSE
    /\ UNCHANGED <<graph, last_id, roots, procs, res>>

(* Control.  All that is known of the order of symbols and of floating     *)
(* point numbers is which symbols are equal.                               *)
Compare(a, b) ==
    CASE Is(a, "float")               -> {"lt", "eq", "gt"}
      [] ~ Is(a, "float") /\ a = b    -> {"eq"}
      [] Is(a, "sym") /\ a # b        -> {"lt", "gt"}
      [] OTHER                        -> IF Data(a) < Data(b) THEN {"lt"} ELSE {"gt"}

(* Only here may the next instruction be something other than a reference. *)
Branch(p) ==
    LET a     == Operand(p, "syma")
        b     == Operand(p, "symb")
        loads == ~ Is(a, "none") /\ Is(b, a[1])
    IN  /\ Runs(p, "branch")
        /\ \E way \in IF loads THEN Compare(a, b) ELSE {"eq"} :
             LET next == IF Is(Arg(p, way), "none") THEN Arg(p, "next") ELSE Arg(p, way)
                 end  == IF loads /\ ~ Is(next, "none")
                         THEN Store(Result, Local(p), "instpntr", next)
                         ELSE Failed(Result)
             IN  Leave(p, end, end.action = "FAIL")
        /\ UNCHANGED <<last_id, roots, up>>

(* Mutant: the new frame is marked before the old one is unmarked.        *)
MarkedFirst(p, n) == (roots \cup {n}) \ {Local(p)}

(* CALL: the frame that was left is no root any more, the new one is.      *)
Remarked(p, n) == (roots \ {Local(p)}) \cup {n}

(* push stores the next instruction under a misspelt key, and reads the    *)
(* new frame after that.                                                   *)
Push(p) ==
    LET loads  == IsSym(p, "syma") /\ NonNull(Arg(p, "next"))
        stored == IF loads THEN Store(Result, Local(p), "instrpnt", Arg(p, "next"))
                  ELSE Failed(Result)
        invoke == Get(stored.graph, Local(p), Key(p, "syma"))
        calls  == stored.action # "FAIL" /\ NonNull(invoke)
    IN  /\ Runs(p, "push")
        /\ graph' = stored.graph
        /\ res' = [pid |-> p, mods |-> stored.mods]
        /\ procs' = IF calls THEN [procs EXCEPT ![p].local = Data(invoke)]
                    ELSE [procs EXCEPT ![p].alive = FALSE]
        /\ roots' = IF calls THEN Remarked(p, Data(invoke)) ELSE roots
        /\ UNCHANGED <<last_id, up>>

(* Processes.  The frame of a forked process does not become a root.       *)
Fork(p) ==
    LET end == Final(p, IsRefVar(p, "syma"), Result)
        new == [local |-> Data(Var(p, "syma")), alive |-> TRUE]
    IN  /\ Runs(p, "fork") /\ Len(procs) < MaxProcs
        /\ graph' = end.graph
        /\ res' = [pid |-> p, mods |-> end.mods]
        /\ procs' = IF end.action = "FAIL" THEN [procs EXCEPT ![p].alive = FALSE]
                    ELSE Append(procs, new)
        /\ UNCHANGED <<last_id, roots, up>>

Exit(p) == Runs(p, "exit") /\ Leave(p, Result, TRUE) /\ UNCHANGED <<last_id, roots, up>>

(* A process that would sleep for a negative time dies, having advanced.   *)
Sleep(p) ==
    LET val == Operand(p, "syma")
        end == Final(p, Is(val, "int"), Result)
    IN  /\ Runs(p, "sleep")
        /\ Leave(p, end, end.action = "FAIL" \/ Data(val) < 0)
        /\ UNCHANGED <<last_id, roots, up>>

Wait(p) == Runs(p, "wait")  /\ Plain(p, NonNull(Operand(p, "syma")), Result)
Show(p) == Runs(p, "print") /\ Plain(p, ~ Is(Operand(p, "syma"), "none"), Result)

(* The instruction advances first.  A call that is not registered is       *)
(* looked up through a null pointer.  One that returns nonzero is the end  *)
(* of its process; what else it does is its own affair.                    *)
ExCall(p) ==
    LET end  == Final(p, TRUE, Result)
        name == Get(end.graph, Inst(p), "syma")
        data == end.action # "FAIL" /\ Is(name, "sym") /\ Data(name) # NullSym
    IN  /\ Runs(p, "excall")
        /\ IF data /\ Data(name) \notin ExCalls
           THEN up' = FALSE /\ Leave(p, end, FALSE)
           ELSE \E nonzero \in BOOLEAN : Leave(p, end, data => nonzero) /\ UNCHANGED up
        /\ UNCHANGED <<last_id, roots>>

Instruction(p) ==
    \/ BadInst(p) \/ New(p) \/ Copy(p) \/ Load(p) \/ Save(p) \/ DropPair(p)
    \/ TypeOf(p) \/ Count(p) \/ IndexLoad(p)
    \/ ComputeOne(p) \/ ComputeTwo(p, TwoArgFp, "float") \/ ComputeTwo(p, TwoArgInt, "int")
    \/ DivideByZero(p) \/ Branch(p) \/ Push(p)
    \/ Fork(p) \/ Exit(p) \/ Sleep(p) \/ Wait(p) \/ ExCall(p) \/ Show(p)

(* The embedding program collects garbage between two instructions.        *)
Clean ==
    /\ up /\ Reach(graph, roots) # DOMAIN graph
    /\ graph' = Cleaned(graph, roots)
    /\ res' = [pid |-> 0, mods |-> <<>>]
    /\ UNCHANGED <<last_id, roots, procs, up>>

Init == \E prog \in Programs :
            /\ graph = prog.graph
            /\ last_id = Cardinality(DOMAIN prog.graph)
            /\ roots = prog.roots
            /\ procs = <<[local |-> prog.local, alive |-> TRUE]>>
            /\ up = TRUE
            /\ res = [pid |-> 0, mods |-> <<>>]

Next == Clean \/ \E p \in 1 .. MaxProcs : Instruction(p)

Spec == Init /\ [][Next]_vars

-----------------------------------------------------------------------------
(* Every pair of a node holds a value, references are null or name nodes   *)
(* that exist, and the nodes an instruction modified fit into the array    *)
(* of three that eval.h gives them.                                        *)
TypeOK ==
    /\ DOMAIN graph \subseteq 1 .. last_id /\ last_id <= MaxRef
    /\ WellFormed(graph)
    /\ roots \subseteq 1 .. last_id
    /\ Len(res.mods) <= 3

(* eval.h: an instruction "returns all modified nodes", so that processes  *)
(* waiting on them can be woken; also when it fails halfway.               *)
ModsCover ==
    [][\A n \in DOMAIN graph' :
          n \notin DOMAIN graph \/ graph'[n] # graph[n]
             => \E i \in DOMAIN res'.mods : res'.mods[i] = n]_vars

(* References cannot be made up.  An instruction writes only to nodes its  *)
(* process reached before or that are new, and what any frame reaches      *)
(* after it, that frame or the process reached before, or is new.          *)
Confined ==
    [][LET mine == Reach(graph, {Local(res'.pid)})
           new  == DOMAIN graph' \ DOMAIN graph
       IN  res'.pid # 0 =>
             /\ \A n \in DOMAIN graph : graph'[n] # graph[n] => n \in mine
             /\ \A p \in DOMAIN procs' :
                  Reach(graph', {procs'[p].local})
                     \subseteq mine \cup new \cup
                               IF p \in DOMAIN procs THEN Reach(graph, {Local(p)}) ELSE {}]_vars

(* As long as there is one process, the frame it runs in is a root, so no  *)
(* collection takes it away, whatever it calls and from where.             *)
FrameRooted == Len(procs) = 1 => Local(1) \in roots \cap DOMAIN graph

(* ARCH, on calls: "the original function can resume execution".  So the   *)
(* frame that calls must be left pointing to the next instruction.         *)
CallerResumes ==
    [][\A p \in DOMAIN procs :
          procs'[p].local # Local(p)
             => graph'[Local(p)]["instpntr"] = Arg(p, "next")]_vars
=============================================================================
