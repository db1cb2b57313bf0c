-------------------------------- MODULE MCAsm --------------------------------
(* Texts of up to four lines for Asm, and graphs to assemble them into.    *)
EXTENDS Asm, TLC

Symbols == Words \cup {"l", "m", "gt", "x", "k"}

L == <<":", "l">>
M == <<":", "m">>

Line(kind, end) == [kind |-> kind, name |-> "", args |-> <<>>, kvs |-> <<>>, end |-> end]
Mark(l, end)    == [Line("label", end) EXCEPT !.name = l]
Op(args, kvs)   == [Line("op", "eol") EXCEPT !.args = args, !.kvs = kvs]

LineForms ==
    {Line("blank", "eol"), Line("junk", "junk"), Line("op", "comment"),
     Mark("l", "eol"), Mark("m", "eol"), Mark("m", "junk"),
     Op(<<>>, <<>>), Op(<<Num(1), L>>, <<>>), Op(<<L, M, L>>, <<>>),
     [Op(<<L>>, <<>>) EXCEPT !.end = "junk"],
     Op(<<M>>, << <<"gt", L>>, <<"gt", Sym("x")>> >>),
     Op(<<Num(1)>>, << <<"syma", Num(2)>>, <<"next", M>> >>)}

Texts == UNION {[1 .. n -> LineForms] : n \in 0 .. 4}

(* An empty graph; and one with a node that nothing reaches, and with one  *)
(* address that was freed.                                                 *)
Graphs == {[graph |-> <<>>, last_id |-> 0, roots |-> {}],
           [graph |-> <<"k" :> Ref(1), "k" :> Ref(1)>>, last_id |-> 3, roots |-> {1}]}
=============================================================================
