------------------------------ MODULE MCTracer ------------------------------
(***************************************************************************)
(* Two threads for TLC: thread 0 computes, refers to memory, leaves the ROI*)
(* and enters it again; thread 1, which has no ChampSim trace, starts the  *)
(* ROI of all threads and refers to memory once.                           *)
(***************************************************************************)
EXTENDS Tracer

MCThreads == {0, 1}

Instr(ip, mem, magic) == [ip |-> ip, mem |-> mem, magic |-> magic]

\* their addresses tell apart the instruction that starts a window
MCInstructions ==
    (0 :> {Instr(1, "none", "none"), Instr(1, "store", "none"),
           Instr(1, "none", "start"), Instr(2, "none", "end")})
    @@ (1 :> {Instr(1, "load", "start_master")})

MCMaxInsts == (0 :> 5) @@ (1 :> 1)
MCMaxAccesses == (0 :> 2) @@ (1 :> 0)
NoAccesses == [t \in MCThreads |-> 0]

=============================================================================
