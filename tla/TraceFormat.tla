---------------------------- MODULE TraceFormat ----------------------------
(***************************************************************************)
(* What a memory trace is: a sequence of accesses, each with the count of  *)
(* instructions of its thread, and of marks of that count.  The tracer     *)
(* promises what the programs that read traces phase by phase rely on.     *)
(***************************************************************************)
EXTENDS Integers, Sequences

\* 0xc0ffee stands before the count of a mark and the address of no access
IsMark(e) == "mark" \in DOMAIN e

TimeOf(e) == IF IsMark(e) THEN e.mark ELSE e.ts

\* s is the trace of a thread that has executed count instructions
DividedByMarks(s, count, interval) ==
    /\ {s[n].mark : n \in {n \in DOMAIN s : IsMark(s[n])}}
         = {n \in 1 .. count : n % interval = 0}
    /\ \A n \in 1 .. Len(s) - 1 :
         IF IsMark(s[n + 1]) THEN TimeOf(s[n]) < s[n + 1].mark
                             ELSE TimeOf(s[n]) <= s[n + 1].ts

=============================================================================
