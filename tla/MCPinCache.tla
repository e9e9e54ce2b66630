----------------------------- MODULE MCPinCache -----------------------------
(***************************************************************************)
(* Small caches for TLC: ul2 has one set of two ways, ul3 two sets of two  *)
(* ways, so that lines written back from ul2 compete with the lines read.  *)
(***************************************************************************)
EXTENDS PinCache

MCNumSets == [il1 |-> 1, ul2 |-> 1, ul3 |-> 2]
MCNumWays == [il1 |-> 1, ul2 |-> 2, ul3 |-> 2]
MCAllocation == [il1 |-> "store_no_allocate", ul2 |-> "store_allocate", ul3 |-> "store_allocate"]
MCInitialTs == {0, 1001}

\* only the order of the times in a set matters to Replace; a ts that is later
\* than every access, as an uninitialised one may be, stays so
Ranked(set) ==
    LET times == {set.tags[w].ts : w \in DOMAIN set.tags}
        rank(t) == IF t > MaxTime THEN t ELSE Cardinality({u \in times : u < t})
    IN <<set.next, [w \in DOMAIN set.tags |-> [set.tags[w] EXCEPT !.ts = rank(@)]]>>

\* of the one way of il1 only the line matters
ContentsView ==
    <<caches["il1"][0].tags[0].tag,
      [c \in {"ul2", "ul3"} |-> [h \in Sets(c) |-> Ranked(caches[c][h])]]>>

=============================================================================
