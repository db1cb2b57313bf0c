------------------------------ MODULE NdlTime ------------------------------
(***************************************************************************)
(* The times of runtime/ndltime.c: seconds and nanoseconds, as the system  *)
(* has them, with their sums, differences, order and conversions.  A sum   *)
(* of exactly one second's nanoseconds is not carried, so the same instant *)
(* may be written in two ways, and a comparison takes them for different.  *)
(***************************************************************************)
EXTENDS Integers

CONSTANTS Kilo,  \* nanoseconds in a microsecond (KILO)
          Mega   \* microseconds in a second (MEGA)

ASSUME NdlTimeAssumption ==
    /\ Kilo \in Nat \ {0}
    /\ Mega \in Nat \ {0}

Giga == Mega * Kilo

At(sec, nsec) == [sec |-> sec, nsec |-> nsec]

(* Every time the runtime computes is one of these (RunFor_proofs).        *)
Time == [sec : Int, nsec : 0 .. Giga]

TimeZero == At(0, 0)

(* The instant or the duration that a time stands for, in nanoseconds, and *)
(* what clock_gettime writes for it.                                       *)
Value(t)  == t.sec * Giga + t.nsec
Reading(v) == At(v \div Giga, v % Giga)

(* Mutant: the carry is cut off and added to nothing.                     *)
AddUncarried(a, b) ==
    IF a.nsec + b.nsec > Giga THEN At(a.sec + b.sec, a.nsec + b.nsec - Giga)
    ELSE At(a.sec + b.sec, a.nsec + b.nsec)

TimeAdd(a, b) ==
    IF a.nsec + b.nsec > Giga THEN At(a.sec + b.sec + 1, a.nsec + b.nsec - Giga)
    ELSE At(a.sec + b.sec, a.nsec + b.nsec)

TimeSub(a, b) ==
    IF a.nsec - b.nsec < 0 THEN At(a.sec - b.sec - 1, a.nsec - b.nsec + Giga)
    ELSE At(a.sec - b.sec, a.nsec - b.nsec)

TimeCmp(a, b) ==
    IF a.sec # b.sec THEN IF a.sec < b.sec THEN -1 ELSE 1
    ELSE IF a.nsec < b.nsec THEN -1
    ELSE IF a.nsec > b.nsec THEN 1 ELSE 0

(* C divides towards zero, and the remainder has the sign of the dividend. *)
Quot(n, d) == IF n >= 0 THEN n \div d ELSE -((-n) \div d)
Rem(n, d)  == n - d * Quot(n, d)

ToUsec(t) == t.sec * Mega + Quot(t.nsec, Kilo)

FromUsec(d) ==
    IF Rem(d, Mega) * Kilo < 0 THEN At(Quot(d, Mega) - 1, Rem(d, Mega) * Kilo + Giga)
    ELSE At(Quot(d, Mega), Rem(d, Mega) * Kilo)
=============================================================================
