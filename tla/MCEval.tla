------------------------------- MODULE MCEval -------------------------------
(* Instances of Eval for TLC: every program of three instructions from the *)
(* forms below, run in a frame that may refer to itself and to another     *)
(* frame.  Nodes 1 to 3 are the instructions, 4 and 5 the frames.          *)
EXTENDS Eval, TLC

Forms(op, a, b, c) ==
    {("opcode" :> Sym(op)) @@ x @@ y @@ z : x \in a, y \in b, z \in c}
X == "syma" :> Sym("x")
A(vals) == {"syma" :> v : v \in vals}
B(vals) == {"symb" :> v : v \in vals}
C(vals) == {"symc" :> v : v \in vals}
Absent  == {<<>>}

SX == Sym("x")  SY == Sym("y")

(* Instructions on nodes, slots and frames.                                *)
Moves ==
    Forms("new", A({SX}), Absent, Absent)
    \cup Forms("copy", A({SX, SY}), B({SX, SY}), Absent)
    \cup Forms("load", A({SX, SY}), B({SX, SY}), C({SY}))
    \cup Forms("save", A({SX, SY, Num(1)}), B({SX}), C({SX, SY}))
    \cup Forms("drop", A({SX}), B({SX, Sym("instpntr")}), Absent)
    \cup Forms("push", A({SX, SY}), Absent, Absent)
    \cup Forms("fork", A({SX}), Absent, Absent)

(* All the others.                                                         *)
Others ==
    Forms("type", A({SX}), B({SY}), C({SX}))
    \cup Forms("count", A({SX}), B({SY}), Absent)
    \cup Forms("iload", A({SX}), B({SY}), C({SY}))
    \cup Forms("itof", A({SY}), B({SY}), Absent)
    \cup Forms("itos", A({SY}), B({SY}), Absent)
    \cup Forms("fadd", A({SY}), B({SY}), C({SY}))
    \cup Forms("add", A({SY}), B({Num(1)}), C({SY}))
    \cup Forms("div", A({Num(1)}), B({SY}), C({SY}))
    \cup UNION {Forms(op, A({SX, SY}), Absent, Absent) : op \in {"wait", "sleep", "print"}}
    \cup Forms("excall", A({Sym("log"), Sym("none"), Num(0)}), Absent, Absent)
    \cup Forms("exit", Absent, Absent, Absent)
    \cup Forms("nop", Absent, Absent, Absent)
    \cup {f @@ ("lt" :> Num(0)) @@ ("eq" :> Ref(1)) : f \in Forms("branch", A({SX, SY}), B({SY}), Absent)}

Frames == {("instpntr" :> Ref(1)) @@ ("x" :> x) @@ ("y" :> y) :
             x \in {Ref(4), Ref(5)}, y \in {Num(0), Ref(4), Ref(NullRef)}}

Last == Forms("push", A({SX, SY}), Absent, Absent)
        \cup Forms("fork", A({SX}), Absent, Absent)
        \cup Forms("save", A({SY}), B({SX}), C({SX}))

Code == {[graph |-> <<("next" :> Ref(2)) @@ one, ("next" :> Ref(3)) @@ two,
                      ("next" :> Ref(1)) @@ three, frame,
                      ("instpntr" :> Ref(2)) @@ ("x" :> Ref(4)) @@ ("y" :> Ref(5))>>,
          roots |-> {1, 4}, local |-> 4] :
          one \in Moves \cup Others, two \in Moves, three \in Last, frame \in Frames}

SomeInts == {-1, 0, 5}

Seen == <<graph, last_id, roots, procs, up>>
=============================================================================
