--------------------------- MODULE CoherentSockets ---------------------------
(***************************************************************************)
(* What the coherence replay promises, without caches, states or owners:   *)
(* which sockets hold a line, which lines are modified, and the traffic an *)
(* access causes as a function of these two alone.  A socket without the   *)
(* line gets it from the only holder if there is exactly one and from      *)
(* memory otherwise; making room may cost the socket one other line.       *)
(***************************************************************************)
EXTENDS Integers, FiniteSets

CONSTANTS
    Sockets,
    Lines

VARIABLES
    holders,     \* holders[l]: the sockets with a valid copy of l
    modified,    \* the lines whose only copy is newer than memory
    traffic      \* what the accesses so far have cost

vars == <<holders, modified, traffic>>

Traffic == [memReads : Nat, transfers : Nat, invalidations : Nat,
            writeBacks : Nat, sharingWriteBacks : Nat]

One(b) == IF b THEN 1 ELSE 0

\* a socket with the line makes no room for it; another one drops at most one
\* of the lines it holds
Victims(s, l) ==
    {{}} \cup IF s \in holders[l] THEN {}
              ELSE {{v} : v \in {m \in Lines \ {l} : s \in holders[m]}}

AccessLine(s, l, isW, victims) ==
    LET miss == s \notin holders[l]
        held == Cardinality(holders[l])
    IN /\ holders' = [m \in Lines |->
                        IF m = l THEN (IF isW THEN {} ELSE holders[l]) \cup {s}
                        ELSE IF m \in victims THEN holders[m] \ {s}
                        ELSE holders[m]]
       /\ modified' = IF isW THEN (modified \ victims) \cup {l}
                      ELSE IF miss THEN (modified \ victims) \ {l}
                      ELSE modified
       /\ traffic' =
            [memReads |-> traffic.memReads + One(miss /\ held # 1),
             transfers |-> traffic.transfers + One(miss /\ held = 1),
             invalidations |-> traffic.invalidations + One(isW /\ held > 1),
             writeBacks |-> traffic.writeBacks + Cardinality(victims \cap modified),
             sharingWriteBacks |-> traffic.sharingWriteBacks
                                     + One(~isW /\ miss /\ l \in modified)]

Init ==
    /\ holders = [l \in Lines |-> {}]
    /\ modified = {}
    /\ traffic = [memReads |-> 0, transfers |-> 0, invalidations |-> 0,
                  writeBacks |-> 0, sharingWriteBacks |-> 0]

Next ==
    \E s \in Sockets, l \in Lines, isW \in BOOLEAN :
        \E victims \in Victims(s, l) : AccessLine(s, l, isW, victims)

Spec == Init /\ [][Next]_vars

=============================================================================
