------------------------------ MODULE Runtime ------------------------------
(***************************************************************************)
(* The runtime of nodel (runtime/runtime.c over runtime/proc.c): processes *)
(* driven by a clock heap and by modifications of graph nodes.             *)
(*                                                                         *)
(* Everything runs in one thread.  Between passes ("api") the embedding    *)
(* program may call any function on any process; a pass is a call of       *)
(* ndl_runtime_run_ready.  The loops of a pass are one step per iteration: *)
(* the loop over ready events ("pass"), the loop over an event's processes *)
(* ("list"), the calls of checkmod for the nodes an instruction modified   *)
(* ("mods") and checkmod's own loop ("wake").  Time may pass at any step.  *)
(* What an instruction does to the graph is not modelled, only what it     *)
(* asks of the runtime and which nodes it modifies: both are chosen freely.*)
(*                                                                         *)
(* Embedding programs differ in what they call, in how many processes they *)
(* have and in their times.  Each is one of Programs, fixed at the start.  *)
(***************************************************************************)
EXTENDS Proc, Sequences

CONSTANTS MaxClock,   \* bound: the last instant
          MinCycles,  \* NDL_RUNTIME_MIN_CYCLES: steps between two looks at the clock
          Mods,       \* the sequences of nodes an instruction may modify
          Ends,       \* the causes for which an instruction may end its process
          Programs    \* the embedding programs: [calls, procs, times]

Calls == {"proc_init", "proc_kill", "suspend", "resume", "cancel", "wait",
          "sleep", "die", "setperiod"}

ASSUME RuntimeAssumption ==
    /\ MaxClock \in Nat \ {0}
    /\ MinCycles \in Nat
    /\ Mods \subseteq Seq(Nodes)
    /\ Ends \subseteq {CauseNull, Exited, BadInst, BadData}
    /\ Programs \subseteq [calls : SUBSET Calls, procs : 0 .. MaxPid, times : SUBSET Durations]

VARIABLES program,  \* what is called, processes ever created (a bound), times used
          rt,    \* the runtime, see Proc
          pc,    \* where the thread is
          pass,  \* locals of run_cready: [now, rcount]
          run    \* locals of run_event, step and checkmod

vars == <<program, rt, clock, pc, pass, run>>

NoPass == [now |-> 0, rcount |-> 0]
NoRun  == [cur |-> NullPid, next |-> NullPid, count |-> 0,
           mods |-> <<>>, wake |-> NullPid, reason |-> NoCause]

Init ==
    /\ program \in Programs
    /\ rt = [procs |-> [p \in {} |-> NoPass], head |-> [p \in {} |-> 0],
             slot |-> [i \in Slot |-> [when |-> 0, pid |-> NullPid]], size |-> 0,
             waits |-> [k \in {} |-> NullPid], next_pid |-> 1, err |-> 0]
    /\ clock = 1
    /\ pc = "api" /\ pass = NoPass /\ run = NoRun

Procs == DOMAIN rt.procs

(***************************************************************************)
(* The embedding program.                                                  *)
(***************************************************************************)
Call(f, s) ==
    /\ pc = "api" /\ f \in program.calls
    /\ rt' = s
    /\ UNCHANGED <<program, clock, pc, pass, run>>

RoomForProc == rt.next_pid \in Pid /\ rt.next_pid <= program.procs

CreateProc(d)    == RoomForProc /\ d \in program.times /\ Call("proc_init", ProcInit(rt, d))
KillProc(p)      == Call("proc_kill", ProcKill(rt, p))
SuspendProc(p)   == Call("suspend", Suspend(rt, p))
ResumeProc(p)    == Call("resume", Resume(rt, p))
CancelProc(p)    == Call("cancel", Cancel(rt, p))
WaitProc(p, n)   == Call("wait", Wait(rt, p, n))
SleepProc(p, d)  == d \in program.times /\ Call("sleep", Sleep(rt, p, d))
DieProc(p)       == Call("die", Die(rt, p, Killed))
PeriodProc(p, d) == d \in program.times /\ Call("setperiod", SetPeriod(rt, p, d))

Api == \/ \E d \in Durations : CreateProc(d)
       \/ \E p \in Procs :
            \/ KillProc(p) \/ SuspendProc(p) \/ ResumeProc(p) \/ CancelProc(p) \/ DieProc(p)
            \/ \E n \in Nodes : WaitProc(p, n)
            \/ \E d \in Durations : SleepProc(p, d) \/ PeriodProc(p, d)

(***************************************************************************)
(* ndl_runtime_run_ready: run events until the earliest is not ready.      *)
(***************************************************************************)
RunReady ==
    /\ pc = "api" /\ pc' = "pass"
    /\ rt' = Ok(rt)
    /\ pass' = [now |-> clock, rcount |-> 0]
    /\ UNCHANGED <<program, clock, run>>

Return(err) ==
    /\ pc' = "api" /\ pass' = NoPass /\ run' = NoRun
    /\ rt' = [rt EXCEPT !.err = err]
    /\ UNCHANGED <<program, clock>>

(* Mutant: a pass stops at the first event of a process that sleeps.      *)
ReadyAwake == /\ rt.size > 0 /\ rt.slot[0].when < pass.now
              /\ \A p \in Procs : rt.slot[0].pid = p => rt.procs[p].state # "SLEEPING"

Ready == rt.size > 0 /\ rt.slot[0].when < pass.now

EndPass == pc = "pass" /\ ~ Ready /\ Return(0)

(* ndl_runtime_run_event on the top event.                                 *)
EventOfNobody == pc = "pass" /\ Ready /\ rt.slot[0].pid \notin Procs /\ Return(-1)

WakeSleeper ==
    LET p == rt.slot[0].pid IN
    /\ pc = "pass" /\ Ready /\ p \in Procs
    /\ rt.procs[p].state = "SLEEPING"
    /\ rt' = Cancel(rt, p)
    /\ UNCHANGED <<program, clock, pc, pass, run>>

(* Mutant: the event is left where it is.                                 *)
Unmoved(p) == 0

(* How far the process's event is moved.                                   *)
OnePeriod(p) == rt.procs[p].period

StartEvent ==
    LET p == rt.slot[0].pid IN
    /\ pc = "pass" /\ Ready /\ p \in Procs
    /\ rt.procs[p].state # "SLEEPING"
    /\ rt' = Readjust([rt EXCEPT !.slot[0].when = @ + OnePeriod(p)], 0)
    /\ pc' = "list"
    /\ run' = [NoRun EXCEPT !.cur = p]
    /\ UNCHANGED <<program, clock, pass>>

(* The loop over an event's processes goes on to `next`, read before the   *)
(* process ran; after the last, the clock is read if enough steps were run.*)
GoOn(r) ==
    IF r.next # NullPid
    THEN /\ pc' = "list" /\ run' = [NoRun EXCEPT !.cur = r.next, !.count = r.count]
         /\ UNCHANGED pass
    ELSE /\ pc' = "pass" /\ run' = NoRun
         /\ pass' = IF pass.rcount + r.count > MinCycles
                    THEN [now |-> clock, rcount |-> 0]
                    ELSE [pass EXCEPT !.rcount = @ + r.count]

(* The links may lead to a process that was removed since: a process that  *)
(* was unhooked by another one's event keeps its own in the heap, and may  *)
(* stand in a list meanwhile.  Then the pass fails.                        *)
LinkToNobody == pc = "list" /\ run.cur \notin Procs /\ Return(-1)

(* Bound: what is counted above MinCycles makes no difference to GoOn.     *)
Visited == [run EXCEPT !.next  = rt.procs[run.cur].next,
                       !.count = IF @ > MinCycles THEN @ ELSE @ + 1]

Runnable(p) == p \in Procs /\ rt.procs[p].active /\ rt.procs[p].state = "RUNNING"

VisitIdle ==
    /\ pc = "list" /\ run.cur \in Procs /\ ~ Runnable(run.cur)
    /\ GoOn(Visited)
    /\ UNCHANGED <<program, rt, clock>>

(***************************************************************************)
(* ndl_proc_step: one instruction of run.cur.                              *)
(***************************************************************************)
Step(s, mods, reason) ==
    /\ pc = "list" /\ Runnable(run.cur)
    /\ rt' = Ok(s)
    /\ pc' = "mods"
    /\ run' = [Visited EXCEPT !.mods = mods, !.reason = reason]
    /\ UNCHANGED <<program, clock, pass>>

Returned(s) == IF s.err = 0 THEN NoCause ELSE Internal

(* EACTION_NONE, a valid EACTION_CALL or a successful EACTION_EXCALL.      *)
StepPlain(mods) == Step(rt, mods, NoCause)

StepFork(mods) ==
    LET s == ProcInit(rt, rt.procs[run.cur].period)
        t == Resume(s, rt.next_pid)
    IN  RoomForProc /\ Step(t, mods, Returned(t))

StepWait(n, mods)  == LET s == Wait(rt, run.cur, n)  IN Step(s, mods, Returned(s))
StepSleep(d, mods) ==
    LET s == Sleep(rt, run.cur, d)
    IN  d \in program.times /\ Step(s, mods, Returned(s))

(* Exit, a bad instruction, bad arguments, or an external call that failed *)
(* (recorded as ECAUSE_NULL).                                              *)
StepEnd(cause, mods) == Step(rt, mods, cause)

Instruction ==
    \E mods \in Mods :
        \/ StepPlain(mods)
        \/ StepFork(mods)
        \/ \E n \in Nodes : StepWait(n, mods)
        \/ \E d \in Durations : StepSleep(d, mods)
        \/ \E c \in Ends : StepEnd(c, mods)

(* ndl_proc_checkmod for the next modified node: find its list.            *)
CheckMod ==
    /\ pc = "mods" /\ run.mods # <<>>
    /\ LET n == Head(run.mods) IN
       IF n \in DOMAIN rt.waits
       THEN pc' = "wake" /\ run' = [run EXCEPT !.mods = Tail(@), !.wake = rt.waits[n]]
       ELSE pc' = "mods" /\ run' = [run EXCEPT !.mods = Tail(@)]
    /\ UNCHANGED <<program, rt, clock, pass>>

(* One process of the list: the link is read, the process is unhooked, set *)
(* running and hooked.  A process that is missing or fails ends the loop.  *)
WakeNext ==
    LET p == run.wake
        s == Wake(rt, p)
        next == rt.procs[p].next
    IN  /\ pc = "wake"
        /\ IF p \in Procs
           THEN /\ rt' = Ok(s)
                /\ run' = [run EXCEPT !.wake = IF s.err = 0 THEN next ELSE NullPid]
           ELSE run' = [run EXCEPT !.wake = NullPid] /\ UNCHANGED rt
        /\ pc' = IF run'.wake = NullPid THEN "mods" ELSE "wake"
        /\ UNCHANGED <<program, clock, pass>>

(* The nodes are done: the process dies if it has to, and the loop goes on.*)
EndStep ==
    /\ pc = "mods" /\ run.mods = <<>>
    /\ rt' = IF run.reason = NoCause THEN rt ELSE Ok(Die(rt, run.cur, run.reason))
    /\ GoOn(run)
    /\ UNCHANGED <<program, clock>>

Advance == \/ EndPass \/ EventOfNobody \/ WakeSleeper \/ StartEvent
           \/ LinkToNobody \/ VisitIdle \/ Instruction
           \/ CheckMod \/ WakeNext \/ EndStep

Tick == clock < MaxClock /\ clock' = clock + 1 /\ UNCHANGED <<program, rt, pc, pass, run>>

Next == Api \/ RunReady \/ Advance \/ Tick

Spec     == Init /\ [][Next]_vars
FairSpec == Spec /\ WF_vars(Advance)

-----------------------------------------------------------------------------
(* Every field of the runtime and every local is a value of its C type.    *)
TypeOK ==
    /\ program \in Programs
    /\ rt.procs \in [Procs -> Process] /\ Procs \subseteq Pid
    /\ rt.head \in [Procs -> Slot]
    /\ rt.slot \in [Slot -> [when : Nat, pid : Pid \cup {NullPid}]]
    /\ rt.size \in 0 .. Cap
    /\ rt.waits \in [DOMAIN rt.waits -> Pid] /\ DOMAIN rt.waits \subseteq Data \cup Pid
    /\ rt.next_pid \in 1 .. MaxPid + 1
    /\ rt.err \in {0, -1}
    /\ clock \in Nat
    /\ pc \in {"api", "pass", "list", "mods", "wake"}
    /\ pass \in [now : Nat, rcount : Nat]
    /\ run \in [cur : Pid \cup {NullPid}, next : Pid \cup {NullPid}, count : Nat,
                mods : Seq(Nodes), wake : Pid \cup {NullPid}, reason : Causes]

(* The clock heap stays ordered through every sequence of calls and steps, *)
(* positions out of date included: run_cready, which looks at the top      *)
(* only, never overlooks a ready event.                                    *)
HeapOrdered == Ordered(rt)

(* There are exactly as many clock events as hooked processes that are     *)
(* running or sleeping.  So ndl_heap_delete, which does not check, is      *)
(* never called on an empty heap (where it would read element -1), and the *)
(* heap never outgrows the processes, even when the wrong event is removed.*)
Clocked(s)   == {p \in DOMAIN s.procs :
                    s.procs[p].active /\ s.procs[p].state \in {"RUNNING", "SLEEPING"}}
ClockedCount == rt.size = Cardinality(Clocked(rt))

(* Events and links may outlive the process they name, but they never come *)
(* to name another one: every pid held anywhere was handed out before.     *)
PidsAreOld ==
    /\ \A p \in Procs : {p, rt.procs[p].prev, rt.procs[p].next} \subseteq
                        {NullPid} \cup 1 .. rt.next_pid - 1
    /\ \A i \in 0 .. rt.size - 1 : rt.slot[i].pid < rt.next_pid
    /\ \A k \in DOMAIN rt.waits : rt.waits[k] < rt.next_pid

(* The diagram of proc.h for living processes: waiting and sleeping are    *)
(* left for running or death only, whoever acts on the process.            *)
Diagram ==
    {<<"RUNNING", s>> : s \in States}
    \cup {<<w, s>> : w \in {"WAITING", "SLEEPING"}, s \in {"RUNNING", "DEAD"}}
StateDiagram ==
    [][\A p \in Procs \cap DOMAIN rt'.procs :
         LET s == rt.procs[p].state  t == rt'.procs[p].state
         IN  s # t /\ s # "DEAD" => <<s, t>> \in Diagram]_vars

(* A pass that returns success has left no event ready.                    *)
PassDrains ==
    [][pc = "pass" /\ pc' = "api" /\ rt'.err = 0
       => \A i \in 0 .. rt'.size - 1 : rt'.slot[i].when >= pass.now]_vars

(* A process with no period is ready again as soon as it has run, and the  *)
(* timeout of a pass, which could stop it, is read nowhere.                *)
NoPeriod == \E i \in 0 .. rt.size - 1 :
    /\ rt.slot[i].when < pass.now
    /\ rt.slot[i].pid \in Procs /\ rt.procs[rt.slot[i].pid].period = 0

(* The links go on for ever from process p.                                *)
InCircle(p) == \E C \in SUBSET Procs : p \in C /\ \A q \in C : rt.procs[q].next \in C

(* A pass ends, or looks at the clock again, whatever its instructions and *)
(* the wakes between them do to the heap and to the lists it goes along;   *)
(* unless one of the two things above keeps it.                            *)
PassEnds ==
    \/ []<>(pc = "api" \/ NoPeriod \/ (pc = "list" /\ InCircle(run.cur)))
    \/ []<><<pass'.now > pass.now>>_pass

-----------------------------------------------------------------------------
(* What the comments promise and the code does not keep.                   *)

(* proc.h, sleeping and running: "Registered with clock event heap."       *)
ClockRegistered == \A p \in Clocked(rt) : \E i \in 0 .. rt.size - 1 : rt.slot[i].pid = p

=============================================================================
