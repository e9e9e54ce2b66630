--------------------------- MODULE MCPoolMigration ---------------------------
(***************************************************************************)
(* Access patterns for TLC: three sockets and five pages.  A page is       *)
(* private to a socket (one sharer), shared by two (it may go to the pool, *)
(* and its new owner is the socket with most accesses) or by all three (its*)
(* new owner is random).                                                   *)
(***************************************************************************)
EXTENDS PhaseSimulator

MCPages == 0 .. 4

R(n) == [r |-> n, w |-> 0]
W(n) == [r |-> 0, w |-> n]

\* used by nobody, by one socket, by two of them in two ways, by all of them
Nobody == <<R(0), R(0), R(0)>>
First(n) == <<R(n), R(0), R(0)>>
Last(n) == <<R(0), R(0), R(n)>>
TwoOfThree == <<R(0), R(1), [r |-> 1, w |-> 1]>>
TwoOthers == <<R(2), R(1), R(0)>>
All == <<R(2), R(1), R(1)>>
AllHot == <<R(3), R(3), R(2)>>
Written == <<W(0), W(1), R(0)>>

\* the use of each page, from page 0
Pattern(uses) ==
    [s \in Sockets |-> [p \in MCPages |-> uses[p + 1][s + 1]]]

MCPhases ==
    {\* a shared page, private ones, a written one, and the same with other users
     Pattern(<<TwoOfThree, First(1), First(2), First(5), Written>>),
     Pattern(<<TwoOthers, Last(1), Last(2), Last(5), Nobody>>),
     \* as many pages for the pool as it holds, and more
     Pattern(<<Last(9), AllHot, Nobody, TwoOfThree, All>>),
     \* a small working set, whose coldest pages are for the pool
     Pattern(<<TwoOthers, TwoOfThree, Nobody, First(5), Nobody>>)}

=============================================================================
