-------------------------------- MODULE Proc --------------------------------
(***************************************************************************)
(* The processes of runtime/proc.c: each function as an operator from a    *)
(* runtime s and a process p to the runtime it leaves, whose field err is  *)
(* what the function returned (0, or -1).                                  *)
(*                                                                         *)
(* The runtime is the record of struct ndl_runtime:                        *)
(*   procs     pid -> process, for the processes that exist,               *)
(*   head      pid -> the process's pointer into the clock heap,           *)
(*   slot,size the clock heap (HeapOps),                                   *)
(*   waits     node -> first process of the list waiting on it,            *)
(*   next_pid  the pid of the next process.                                *)
(* Nodes and pids are both int64_t and the code mixes them up, so here     *)
(* both are integers.  Time is counted in ticks, one tick a second.  A     *)
(* process's local frame belongs to the graph and is left out.             *)
(***************************************************************************)
EXTENDS HeapOps

CONSTANTS MaxPid,     \* bound: processes ever created
          Nodes,      \* the nodes a process may wait on or modify
          Durations   \* the periods and sleeping times in use

ASSUME ProcAssumption ==
    /\ MaxPid \in Nat \ {0}
    /\ MaxPid <= Cap
    /\ Nodes \subseteq Nat
    /\ Durations \subseteq Nat

VARIABLE clock  \* what ndl_time_get returns

Pid     == 1 .. MaxPid
NullPid == -1

States == {"RUNNING", "SLEEPING", "WAITING", "DEAD"}

(* ndl_proc_reason, in the order of the enumeration.                       *)
CauseNull == 0  NoCause == 1  Exited == 2  Killed == 3
BadInst   == 4  BadData == 5  Internal == 6
Causes    == 0 .. 6

(* The union at the end of struct ndl_proc: a sleeping process reads it as *)
(* its duration, a waiting one as its node, a dead one as its cause.       *)
Data == Durations \cup Nodes \cup Causes

Process == [active : BOOLEAN, state : States,
            prev : Pid \cup {NullPid}, next : Pid \cup {NullPid},
            period : Durations, data : Data]

Ok(s)   == [s EXCEPT !.err = 0]
Fail(s) == [s EXCEPT !.err = -1]

(***************************************************************************)
(* Hooking into the clock heap.                                            *)
(***************************************************************************)
Sched(s, p, delta) ==
    LET e == [when |-> IF delta = 0 THEN 0 ELSE clock + delta, pid |-> p]
    IN  [HeapPut(s, e) EXCEPT
            !.head[p]  = PutAt(s, e),
            !.procs[p] = [@ EXCEPT !.active = TRUE, !.prev = NullPid, !.next = NullPid],
            !.err      = 0]

Desched(s, p) == [HeapDelete(s, s.head[p]) EXCEPT !.procs[p].active = FALSE, !.err = 0]

(***************************************************************************)
(* Hooking into the list of the node waited on.  A node with no list gets  *)
(* none: the list is created under the process's own pid.                  *)
(***************************************************************************)
WaitResume(s, p) ==
    LET node  == s.procs[p].data
        key   == IF node \in DOMAIN s.waits THEN node ELSE p
        first == IF node \in DOMAIN s.waits THEN s.waits[node] ELSE NullPid
    IN  [s EXCEPT
            !.waits    = [k \in DOMAIN s.waits \cup {key} |-> IF k = key THEN p ELSE s.waits[k]],
            !.procs[p] = [@ EXCEPT !.active = TRUE, !.prev = NullPid, !.next = first],
            !.err      = 0]

(* Mutant: the emptied list stays in the table.                           *)
LeftEmpty(waits, me) ==
    [k \in DOMAIN waits |-> IF k = me.data THEN me.next ELSE waits[k]]

(* The lists after the first process of one has left it.                   *)
Beheaded(waits, me) ==
    [k \in {n \in DOMAIN waits : n # me.data \/ me.next # NullPid} |->
        IF k = me.data THEN me.next ELSE waits[k]]

(* The neighbours are relinked before the list's head is looked up, and    *)
(* stay so if that fails.                                                  *)
WaitSuspend(s, p) ==
    LET me    == s.procs[p]
        relinked == [s EXCEPT !.procs = [q \in DOMAIN s.procs |->
                        [s.procs[q] EXCEPT
                            !.next = IF q = me.prev THEN me.next ELSE @,
                            !.prev = IF q = me.next THEN me.prev ELSE @]]]
    IN  IF me.prev = NullPid /\ me.data \notin DOMAIN s.waits
        THEN Fail(relinked)
        ELSE [relinked EXCEPT
                !.waits    = IF me.prev = NullPid THEN Beheaded(@, me) ELSE @,
                !.procs[p] = [me EXCEPT !.active = FALSE, !.prev = NullPid, !.next = NullPid],
                !.err      = 0]

(***************************************************************************)
(* ndl_proc_suspend and ndl_proc_resume.                                   *)
(***************************************************************************)
Suspend(s, p) ==
    LET me == s.procs[p] IN
    CASE ~ me.active            -> Ok(s)
      [] me.active /\ me.state = "WAITING" -> WaitSuspend(s, p)
      [] me.active /\ me.state = "DEAD"    -> [s EXCEPT !.procs[p].active = FALSE, !.err = 0]
      [] OTHER                  -> Desched(s, p)

Resume(s, p) ==
    LET me == s.procs[p] IN
    CASE me.active                           -> Ok(s)
      [] ~ me.active /\ me.state = "WAITING"  -> WaitResume(s, p)
      [] ~ me.active /\ me.state = "DEAD"     -> [s EXCEPT !.procs[p].active = TRUE, !.err = 0]
      [] ~ me.active /\ me.state = "SLEEPING" -> Sched(s, p, me.data)
      [] OTHER                               -> Sched(s, p, me.period)

(***************************************************************************)
(* State changes.  A hooked process is unhooked first and hooked again     *)
(* after; if it cannot be unhooked the call fails.                         *)
(***************************************************************************)
Enter(s, p, state, data) ==
    LET off == Suspend(s, p)
        set == [off EXCEPT !.procs[p].state = state, !.procs[p].data = data]
    IN  IF off.err # 0 THEN off
        ELSE IF s.procs[p].active THEN Resume(set, p) ELSE set

Cancel(s, p) ==
    IF s.procs[p].state \notin {"WAITING", "SLEEPING", "RUNNING"} THEN Fail(s)
    ELSE Enter(s, p, "RUNNING", s.procs[p].data)

Wait(s, p, node) ==
    IF s.procs[p].state \notin {"WAITING", "RUNNING"} THEN Fail(s)
    ELSE Enter(s, p, "WAITING", node)

(* Mutant: a waiting process may be put to sleep.                         *)
SleepAny(s, p, duration) ==
    IF s.procs[p].state = "DEAD" THEN Fail(s) ELSE Enter(s, p, "SLEEPING", duration)

Sleep(s, p, duration) ==
    IF s.procs[p].state \notin {"SLEEPING", "RUNNING"} THEN Fail(s)
    ELSE Enter(s, p, "SLEEPING", duration)

(* Mutant: die forgets to unhook.                                         *)
DieHooked(s, p, cause) ==
    [Ok(s) EXCEPT !.procs[p].state = "DEAD", !.procs[p].data = cause]

Die(s, p, cause) ==
    LET off == IF s.procs[p].state = "DEAD" THEN Ok(s) ELSE Suspend(s, p)
    IN  IF off.err # 0 THEN off
        ELSE [off EXCEPT !.procs[p].state = "DEAD", !.procs[p].data = cause]

(* Writes the union, not the period.                                       *)
SetPeriod(s, p, duration) ==
    LET running == s.procs[p].state = "RUNNING" /\ s.procs[p].active
        off == IF running THEN Suspend(s, p) ELSE Ok(s)
        set == [off EXCEPT !.procs[p].data = duration]
    IN  IF off.err # 0 THEN off
        ELSE IF running THEN Resume(set, p) ELSE set

(* What ndl_proc_checkmod does to each process of a list.                  *)
Wake(s, p) ==
    LET off == Suspend(s, p)
    IN  IF off.err # 0 THEN off
        ELSE Resume([off EXCEPT !.procs[p].state = "RUNNING"], p)

(***************************************************************************)
(* Creation and removal (runtime.c).                                       *)
(***************************************************************************)
ProcInit(s, period) ==
    LET pid == s.next_pid
        new == [active |-> FALSE, state |-> "RUNNING", prev |-> NullPid, next |-> NullPid,
                period |-> period, data |-> 0]
    IN  [s EXCEPT
            !.procs    = [q \in DOMAIN s.procs \cup {pid} |-> IF q = pid THEN new ELSE s.procs[q]],
            !.head     = [q \in DOMAIN s.head \cup {pid} |-> IF q = pid THEN 0 ELSE s.head[q]],
            !.next_pid = pid + 1,
            !.err      = 0]

(* Mutant: the pid of the last process is handed out again.               *)
ReusedPid(s, p) ==
    [s EXCEPT !.procs = [q \in DOMAIN @ \ {p} |-> @[q]],
              !.head  = [q \in DOMAIN @ \ {p} |-> @[q]],
              !.next_pid = IF p + 1 = @ THEN p ELSE @]

Removed(s, p) ==
    [s EXCEPT !.procs = [q \in DOMAIN @ \ {p} |-> @[q]],
              !.head  = [q \in DOMAIN @ \ {p} |-> @[q]]]

ProcKill(s, p) ==
    LET off == Suspend(s, p)
    IN  IF off.err # 0 THEN off ELSE Removed(off, p)

=============================================================================
