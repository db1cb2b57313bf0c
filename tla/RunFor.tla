------------------------------- MODULE RunFor -------------------------------
(***************************************************************************)
(* ndl_runtime_run_for (runtime/runtime.c): passes over the ready events,  *)
(* with naps until the next one, until time is up or no event is left.     *)
(* This is how nodelrun runs a program.                                    *)
(*                                                                         *)
(* The runtime is that of Runtime.tla and its pass runs as it does there.  *)
(* The loop around it is here, in the times of ndltime.c.  A tick of the   *)
(* runtime's clock is one nanosecond of Giga in a second, Giga being small.*)
(* What the thread does between two steps of `at` takes no time; a pass    *)
(* and a nap do.  The clock does not fail.                                 *)
(***************************************************************************)
EXTENDS Runtime, NdlTime

CONSTANTS Timeouts,  \* the timeouts given to run_for; zero is none
          MinSleep   \* NDL_RUNTIME_MIN_SLEEP: naps are not shorter

ASSUME RunForAssumption ==
    /\ Timeouts \subseteq Nat
    /\ MinSleep \in Nat

VARIABLE loop  \* [at: "off", "pass" or "nap",
               \*  until, curr: the locals of run_for,
               \*  wake: when usleep returns, at the latest,
               \*  due: the instant the caller asked for, or Never]

forVars == <<vars, loop>>

Never   == -1
Forever == At(2 * MaxClock + 2, 0)  \* LONG_MAX seconds: beyond every event

Off == [at |-> "off", until |-> TimeZero, curr |-> TimeZero, wake |-> TimeZero, due |-> Never]

ForInit == Init /\ loop = Off

Now == Reading(clock)

(* ndl_runtime_run_cready is called with the time in l.curr, which is read *)
(* anew when it returns.                                                   *)
StartPass(l) ==
    /\ pc' = "pass"
    /\ rt' = Ok(rt)
    /\ pass' = [now |-> Value(l.curr), rcount |-> 0]
    /\ loop' = [l EXCEPT !.at = "pass", !.curr = TimeZero, !.wake = TimeZero]
    /\ UNCHANGED <<program, clock, run>>

StartFor(timeout) ==
    /\ loop.at = "off" /\ pc = "api"
    /\ StartPass([Off EXCEPT
            !.curr  = Now,
            !.until = IF timeout = 0 THEN Forever ELSE TimeAdd(Now, Reading(timeout)),
            !.due   = IF timeout = 0 THEN Never ELSE clock + timeout])

Leave == loop' = Off /\ UNCHANGED vars

(* The next time round, if any of the time remains.                        *)
Again(l) == IF TimeSub(l.until, l.curr).sec >= 0 THEN StartPass(l) ELSE Leave

(* Mutant: the longer of the two.                                         *)
Later(a, b) == IF TimeCmp(a, b) <= 0 THEN b ELSE a

Sooner(a, b) == IF TimeCmp(a, b) <= 0 THEN a ELSE b

(* How long ndl_runtime_run_csleep asks to sleep.  The time remaining is   *)
(* relative, but is made absolute before it is compared with the time to   *)
(* the next event; and none remaining means no limit.                      *)
Request(remaining) ==
    LET left   == TimeSub(Reading(rt.slot[0].when), Now)
        timeto == IF TimeCmp(left, TimeZero) < 0 THEN TimeZero ELSE left
        limit  == IF remaining = TimeZero THEN Forever ELSE TimeAdd(Now, remaining)
    IN  IF timeto = TimeZero THEN TimeZero ELSE Sooner(timeto, limit)

(* usleep is asked for whole microseconds.                                 *)
Slept(request) == FromUsec(ToUsec(request))

PassOver ==
    /\ loop.at = "pass" /\ pc = "api"
    /\ LET l         == [loop EXCEPT !.curr = Now]
           remaining == TimeSub(loop.until, Now)
           request   == Request(remaining)
       IN  IF rt.err < 0 \/ rt.size = 0 \/ remaining.sec < 0 THEN Leave
           ELSE IF request = TimeZero \/ TimeCmp(request, Reading(MinSleep)) < 0 THEN Again(l)
           ELSE /\ loop' = [l EXCEPT !.at = "nap", !.wake = TimeAdd(Now, Slept(request))]
                /\ UNCHANGED vars

(* usleep has slept, or a signal has woken it early; then it counts as not *)
(* having slept at all.                                                    *)
WakeUp ==
    /\ loop.at = "nap" /\ clock >= Value(loop.wake)
    /\ Again([loop EXCEPT !.curr = TimeAdd(loop.curr, TimeSub(Now, loop.curr))])

Interrupted == loop.at = "nap" /\ Again(loop)

(* Between two calls of run_for the program calls what else it likes.      *)
ForNext ==
    \/ loop.at = "off" /\ Api /\ UNCHANGED loop
    \/ \E t \in Timeouts : StartFor(t)
    \/ loop.at = "pass" /\ Advance /\ UNCHANGED loop
    \/ PassOver \/ WakeUp \/ Interrupted
    \/ Tick /\ UNCHANGED loop

ForSpec == ForInit /\ [][ForNext]_forVars

-----------------------------------------------------------------------------
(* Every nap ends by the time of the earliest event there is, wherever the *)
(* heap has it: no event is slept through, and none is served late because *)
(* the loop around the passes mistook the time.                            *)
NapsEndInTime ==
    loop.at = "nap" => \A i \in 0 .. rt.size - 1 : Value(loop.wake) <= rt.slot[i].when

(* runtime.h: run_for "returns zero if timeout is reached or runtime is    *)
(* inactive": never before, through carries, interrupted naps and times    *)
(* that are written in two ways.                                           *)
ForRunsOut ==
    [][loop.at # "off" /\ loop'.at = "off" /\ rt.err = 0
       => rt.size = 0 \/ (loop.due # Never /\ clock >= loop.due)]_forVars
=============================================================================
