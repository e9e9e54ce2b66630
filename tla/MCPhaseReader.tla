--------------------------- MODULE MCPhaseReader ---------------------------
(***************************************************************************)
(* Traces for TLC: two phases and the beginning of a third, two marks to a *)
(* phase.  Accesses are on both sides of the marks, a thread has phases    *)
(* without accesses, a trace ends in the middle of a phase, ends with the  *)
(* mark that ends one, outlasts MaxPhases, or is empty; behind its items   *)
(* is nothing, the first word of an access, or that of a mark.             *)
(***************************************************************************)
EXTENDS PhaseReader

A(page, rw, ts) == [page |-> page, rw |-> rw, ts |-> ts]
M(n) == [mark |-> n]

Long ==
    <<A(1, "R", 1), A(1, "W", 1), M(2), A(2, "R", 3), M(4), A(1, "W", 4),
      M(6), A(1, "W", 7), M(8), A(2, "R", 8)>>
Boundary ==
    <<A(1, "W", 1), M(2), A(1, "R", 2), A(2, "R", 3), M(4), A(2, "R", 5), M(6), M(8)>>
Quiet == <<M(2), M(4), A(1, "W", 4), M(6)>>
Marks == [n \in 1 .. 6 |-> M(2 * n)]

MCInputs == [Thr -> {Long, Boundary, Quiet, Marks, <<>>}]

MCCuts ==
    {[i \in Thr |-> NoWord],
     [i \in Thr |-> CASE i = 0 -> [page |-> 1, rw |-> "W"] [] i = 1 -> CutMark
                      [] OTHER -> NoWord]}

=============================================================================
