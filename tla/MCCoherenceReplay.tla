------------------------- MODULE MCCoherenceReplay -------------------------
(***************************************************************************)
(* Instances of CoherenceReplay and of its refinement for TLC.             *)
(***************************************************************************)
EXTENDS CoherenceRefinement

\* Three lines of one set, so that a set of two ways overflows
MCThreeLines == {1, 2, 3}

\* The counters only grow and no guard reads one but the bound, so the
\* protocol's own state space is finite without them
ProtocolState == <<caches, CCD, ccdKeys, aborted>>

=============================================================================
