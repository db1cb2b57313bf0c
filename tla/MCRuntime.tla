----------------------------- MODULE MCRuntime -----------------------------
(* Instances of Runtime for TLC.                                           *)
EXTENDS Runtime
NoMods   == {<<>>}
SomeMods == {<<>>, <<1>>}

Program(calls, procs, times) == [calls |-> calls, procs |-> procs, times |-> times]

(* Two processes and every call; three, which make lists that outlast one  *)
(* of their own; and two that may have no period.                          *)
Waiters  == {"proc_init", "proc_kill", "resume", "wait"}
Several  == {Program(Calls, 2, {1}), Program(Waiters, 3, {1}), Program(Waiters, 2, {0, 1})}

(* What nodelrun.c does: create processes and resume them.                 *)
NodelRun == {Program({"proc_init", "resume"}, MaxPid, Durations)}
=============================================================================
