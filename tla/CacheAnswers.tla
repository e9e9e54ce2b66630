---------------------------- MODULE CacheAnswers ----------------------------
(***************************************************************************)
(* What the tracer's caches can let through to memory, whatever they hold: *)
(* the records that one reference may add to the trace of last-level       *)
(* misses.  Tracer draws its caches' answers from here; PinCache, which    *)
(* has the caches, is checked to give no others.                           *)
(***************************************************************************)
EXTENDS Integers, Sequences

CONSTANT Lines

\* fault: evicted_line is recorded without the test that there is one
EvictsLineZero(line, n, dirtyEv_fromL2) ==
    LET read == IF dirtyEv_fromL2 THEN <<>> ELSE <<[line |-> line, rw |-> "load", ts |-> n]>>
    IN {<<>>} \cup {Append(read, [line |-> v, rw |-> "store", ts |-> n]) : v \in Lines \cup {0}}

\* a miss reads the line, unless the line comes from the level above, and
\* writes the dirty line it evicts
Ul3Answers(line, n, dirtyEv_fromL2) ==
    LET read == IF dirtyEv_fromL2 THEN <<>> ELSE <<[line |-> line, rw |-> "load", ts |-> n]>>
    IN {<<>>, read} \cup {Append(read, [line |-> v, rw |-> "store", ts |-> n]) : v \in Lines}

Ul2Answers(line, n) ==
    LET evictions == {<<>>} \cup UNION {Ul3Answers(v, n, TRUE) : v \in Lines}
    IN {<<>>} \cup {a[1] \o a[2] : a \in Ul3Answers(line, n, FALSE) \X evictions}

=============================================================================
