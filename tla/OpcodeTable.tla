---------------------------- MODULE OpcodeTable ----------------------------
(***************************************************************************)
(* The tables of opcodes and of external calls that core/eval.c keeps for  *)
(* the whole program.  The first who asks makes them; runtimes count their *)
(* references (ndl_runtime_minit and mkill), and the last one frees them.  *)
(* A lookup that belongs to no runtime makes them too, and does not count. *)
(* Memory is not exhausted.                                                *)
(***************************************************************************)
EXTENDS Integers, FiniteSets

CONSTANT Runtimes

VARIABLES refs,   \* ndl_eval_opcode_table_refs
          made,   \* ndl_eval_opcode_table and _excall_table are not null
          living  \* the runtimes there are (history)

opcodes == <<refs, made, living>>

OpcodesInit == refs = -1 /\ made = FALSE /\ living = {}

(* Mutant: the count goes on from its value for no table.                 *)
OneMoreBlindly(n) == n + 1

(* ndl_eval_opcodes_ref.                                                   *)
OneMore(n) == IF n = -1 THEN 1 ELSE n + 1

BeginRuntime(r) ==
    /\ r \notin living
    /\ living' = living \cup {r}
    /\ refs' = OneMore(refs)
    /\ made' = TRUE

(* ndl_eval_opcodes_deref.                                                 *)
EndRuntime(r) ==
    /\ r \in living
    /\ living' = living \ {r}
    /\ refs' = IF refs - 1 <= 0 THEN -1 ELSE refs - 1
    /\ made' = (made /\ refs - 1 > 0)

(* ndl_eval_get_opcode_table, for ndl_eval and the lookups.                *)
Lookup == made' = TRUE /\ UNCHANGED <<refs, living>>

OpcodesNext == Lookup \/ \E r \in Runtimes : BeginRuntime(r) \/ EndRuntime(r)

-----------------------------------------------------------------------------
(* No runtime loses the tables to another's end, in whatever order they    *)
(* begin and end and whoever looked something up before; and the count     *)
(* returns to its value for no table with the last.                        *)
TablesHeld ==
    IF living = {} THEN refs = -1 ELSE made /\ refs = Cardinality(living)
=============================================================================
