------------------------- MODULE CoherenceRefinement -------------------------
(***************************************************************************)
(* The replay of CoherenceReplay implements CoherentSockets: the holders   *)
(* of a line are the sockets with a valid copy, a line is modified when a  *)
(* copy is dirty, and the counters of sim_stats are the traffic.           *)
(***************************************************************************)
EXTENDS CoherenceReplay

HoldersOf(l) == {s \in Sockets : HitWay(caches[SetIndex(l)][s], l) # {}}

TrafficOf(st) ==
    [memReads |-> st.m_reads, transfers |-> st.c_block_trans,
     invalidations |-> st.c_invals, writeBacks |-> st.m_writes,
     sharingWriteBacks |-> st.m_writes_from_coh]

Promised == INSTANCE CoherentSockets
    WITH holders <- [l \in Lines |-> HoldersOf(l)],
         modified <- DirtyLines,
         traffic <- TrafficOf(simstats)

\* Every access costs what the holders of the line and the modified lines say
\* it costs: the directory's state, owner and sharers, the promotion of a last
\* sharer and the asserts are only a way of knowing these.
ImplementsCoherentSockets == Promised!Spec

=============================================================================
