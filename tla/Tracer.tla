------------------------------- MODULE Tracer -------------------------------
(***************************************************************************)
(* The Pin tool combined_tracer_40B.cpp, which writes the traces that the  *)
(* other programs read.  Pin calls an analysis routine before each part of *)
(* an instruction; the threads' calls interleave.  Each thread has a trace *)
(* of its last-level cache misses with marks of its instruction count, an  *)
(* unfiltered trace of its memory references and, some of them, a trace of *)
(* instructions for ChampSim; the last two are cut into windows, one file  *)
(* for each.  A thread's records are batched in buffers.                   *)
(*                                                                         *)
(* The caches are abstracted to what they can answer: a hit, or a miss     *)
(* that evicts a dirty line or none (CacheAnswers; PinCache models the     *)
(* caches).  Threads with an id of MAX_THREADS or more, which every        *)
(* routine ignores, are left out.  The master flag is the one variable     *)
(* that threads share.                                                     *)
(***************************************************************************)
EXTENDS TraceFormat, CacheAnswers, SequencesExt

CONSTANTS
    Threads,
    ChampSimThreads,  \* champsim_trace_tid_min .. champsim_trace_tid_max
    Instructions,     \* Instructions[t]: what thread t may execute
    TBUF_SIZE,        \* 1024
    MARK_INTERVAL,    \* 100000000
    PHASE_INTERVAL,   \* 1000000000
    champsim_traceins,
    KILL_AFTER,       \* 40000000000
    MaxInsts,         \* bounds of the model: MaxInsts[t] on the instructions
    MaxAccesses       \* of thread t, MaxAccesses[t] on its accesses to memory

\* An instruction has an address, may refer to memory and may be a magic one
Instruction == [ip : Nat,
                mem : {"none", "load", "store"},
                magic : {"none", "start", "start_master", "end"}]

ASSUME TracerAssumption ==
    /\ ChampSimThreads \subseteq Threads
    /\ Instructions \in [Threads -> SUBSET Instruction]
    /\ {TBUF_SIZE, MARK_INTERVAL, PHASE_INTERVAL} \subseteq Nat \ {0}
    /\ {champsim_traceins, KILL_AFTER} \subseteq Nat
    /\ {MaxInsts, MaxAccesses} \subseteq [Threads -> Nat]
    \* main exits otherwise
    /\ champsim_traceins <= PHASE_INTERVAL

VARIABLES
    startFF,                            \* the command line's -startFF
    status,                             \* of a thread's life
    instr, step,                        \* what it executes, what is called next
    executed,                           \* instructions it has executed
    inROI, inROI_master,
    ins_count, num_maccess,
    t_buf, trace,
    t_buf_nf, mtrace_nf, mt_nf_phase, mt_nf_open,
    curr_instr, champsim, cst_phase, cst_open,
    ended                               \* how the process has ended

life == <<startFF, status, instr, step, executed>>
roi == <<inROI, inROI_master>>
filtered == <<ins_count, num_maccess, t_buf, trace>>
unfiltered == <<t_buf_nf, mtrace_nf, mt_nf_phase, mt_nf_open>>
windowed == <<curr_instr, champsim, cst_phase, cst_open>>
vars == <<life, roi, filtered, unfiltered, windowed, ended>>

Record == [line : Lines, rw : {"load", "store"}, ts : Nat]

Mark == [mark : Nat]

Windows == UNION {0 .. MaxInsts[t] : t \in Threads}

InROI(t) == inROI[t] \/ inROI_master

InWindow(n) == n % PHASE_INTERVAL <= champsim_traceins

Running(t, s) == status[t] = "running" /\ step[t] = s /\ ended = "no"

-----------------------------------------------------------------------------
(* What the caches let through to memory (CacheAnswers) goes to the buffer. *)

\* fault: the buffer is written out one record late
FullOneLate(buf) == (TBUF_SIZE + 1) * (Len(buf) \div (TBUF_SIZE + 1))

\* recordAccess after recordAccess: the buffer is written out when it is full
Full(buf) == TBUF_SIZE * (Len(buf) \div TBUF_SIZE)

WrittenOut(buf) == SubSeq(buf, 1, Full(buf))

Buffered(buf) == SubSeq(buf, Full(buf) + 1, Len(buf))

RecordAccesses(t, buf, file, recs) ==
    /\ num_maccess[t] + Len(recs) <= MaxAccesses[t]
    /\ num_maccess' = [num_maccess EXCEPT ![t] = @ + Len(recs)]
    /\ t_buf' = [t_buf EXCEPT ![t] = Buffered(buf \o recs)]
    /\ trace' = [trace EXCEPT ![t] = file \o WrittenOut(buf \o recs)]

-----------------------------------------------------------------------------
(* The analysis routines, in the order in which they are inserted.         *)

ThreadStart(t) ==
    /\ status[t] = "unborn" /\ ended = "no"
    /\ status' = [status EXCEPT ![t] = "running"]
    /\ inROI' = [inROI EXCEPT ![t] = ~startFF]
    /\ mt_nf_open' = [mt_nf_open EXCEPT ![t] = TRUE]
    /\ cst_open' = [cst_open EXCEPT ![t] = t \in ChampSimThreads]
    /\ UNCHANGED <<startFF, instr, step, executed, inROI_master, filtered, t_buf_nf,
                   mtrace_nf, mt_nf_phase, curr_instr, champsim, cst_phase, ended>>

\* fault: the mark is written before the buffer
MarkBeforeBuffer(t, n) ==
    IF n % MARK_INTERVAL = 0 THEN trace[t] \o <<[mark |-> n]>> \o t_buf[t] ELSE trace[t]

\* the trace once the n-th instruction is counted: after every MARK_INTERVAL the
\* buffer is written out, and a mark
TraceAtCount(t, n) ==
    IF n % MARK_INTERVAL = 0 THEN trace[t] \o t_buf[t] \o <<[mark |-> n]>> ELSE trace[t]

BufferAtCount(t, n) == IF n % MARK_INTERVAL = 0 THEN <<>> ELSE t_buf[t]

\* the next instruction, and what InsRef does before it
Fetch(t, i) ==
    /\ Running(t, "fetch")
    /\ executed[t] < MaxInsts[t]
    /\ instr' = [instr EXCEPT ![t] = i]
    /\ executed' = [executed EXCEPT ![t] = @ + 1]
    /\ step' = [step EXCEPT ![t] = IF i.magic = "none" THEN "champsim" ELSE "magic"]
    /\ UNCHANGED <<startFF, status>>

FetchOutsideROI(t) ==
    /\ ~InROI(t)
    /\ \E i \in Instructions[t] : Fetch(t, i)
    /\ UNCHANGED <<roi, filtered, unfiltered, windowed, ended>>

\* exit(0): what is in any thread's buffers is not written
KillProcess(t) ==
    /\ Running(t, "fetch")
    /\ InROI(t)
    /\ ins_count[t] > KILL_AFTER
    /\ ended' = "killed"
    /\ UNCHANGED <<life, roi, filtered, unfiltered, windowed>>

InsRef(t) ==
    /\ InROI(t)
    /\ ins_count[t] <= KILL_AFTER
    /\ \E i \in Instructions[t] : Fetch(t, i)
    /\ LET n == ins_count[t] + 1
       IN /\ ins_count' = [ins_count EXCEPT ![t] = n]
          /\ \E line \in Lines : \E recs \in Ul2Answers(line, n) :
               RecordAccesses(t, BufferAtCount(t, n), TraceAtCount(t, n), recs)
    /\ UNCHANGED <<roi, unfiltered, windowed, ended>>

MagicInst(t) ==
    /\ Running(t, "magic")
    /\ step' = [step EXCEPT ![t] = "champsim"]
    /\ inROI' = [inROI EXCEPT ![t] =
                   CASE instr[t].magic = "start" -> TRUE
                     [] instr[t].magic = "end" -> FALSE
                     [] OTHER -> @]
    /\ inROI_master' = (inROI_master \/ instr[t].magic = "start_master")
    /\ UNCHANGED <<startFF, status, instr, executed, filtered, unfiltered, windowed, ended>>

\* ResetCurrentInstruction
Current(t) ==
    IF t \in ChampSimThreads /\ cst_open[t] THEN instr[t].ip ELSE curr_instr[t]

\* what WriteCurrentInstruction writes; what is executed and when, for the properties
Written(t) == [ip |-> Current(t), executing |-> instr[t].ip, at |-> ins_count[t]]

\* fault: close_champsim_trace leaves cst_open as it is
CstStaysOpen(t) ==
    cst_open[t] \/ (t \in ChampSimThreads /\ InROI(t) /\ InWindow(ins_count[t]))

\* what ShouldWrite makes of cst_open
CstOpen(t) ==
    IF t \in ChampSimThreads /\ InROI(t) THEN InWindow(ins_count[t]) ELSE cst_open[t]

\* ResetCurrentInstruction and the calls that add to it, then ShouldWrite, which
\* opens the next file or closes this one, and WriteCurrentInstruction
ChampSim(t) ==
    /\ Running(t, "champsim")
    /\ step' = [step EXCEPT ![t] = "memory"]
    /\ curr_instr' = [curr_instr EXCEPT ![t] = Current(t)]
    /\ cst_open' = [cst_open EXCEPT ![t] = CstOpen(t)]
    /\ LET write == t \in ChampSimThreads /\ InROI(t) /\ InWindow(ins_count[t])
           opens == write /\ ~cst_open[t]
           k     == IF opens THEN cst_phase[t] + 1 ELSE cst_phase[t]
       IN /\ cst_phase' = [cst_phase EXCEPT ![t] = k]
          /\ champsim' = IF write
                         THEN [champsim EXCEPT ![t][k] =
                                 IF opens THEN <<Written(t)>> ELSE Append(@, Written(t))]
                         ELSE champsim
    /\ UNCHANGED <<startFF, status, instr, executed, roi, filtered, unfiltered, ended>>

\* fault: open_mtrace_nf opens the file of the window before, which empties it
MtNfPhaseAgain(t) == mt_nf_phase[t]

\* open_mtrace_nf
MtNfPhase(t) == mt_nf_phase[t] + 1

\* ShouldWrite_mt_nf and recordAccess_nf.  A window that closes does not write out
\* the buffer: its records go to the file of the next window.
RecordUnfiltered(t, line) ==
    LET write == InWindow(ins_count[t])
        opens == write /\ ~mt_nf_open[t]
        k     == IF opens THEN MtNfPhase(t) ELSE mt_nf_phase[t]
        buf   == Append(t_buf_nf[t],
                        [line |-> line, rw |-> instr[t].mem, ts |-> ins_count[t]])
    IN /\ mt_nf_phase' = [mt_nf_phase EXCEPT ![t] = k]
       /\ mt_nf_open' = [mt_nf_open EXCEPT ![t] = write]
       /\ t_buf_nf' = IF write THEN [t_buf_nf EXCEPT ![t] = Buffered(buf)] ELSE t_buf_nf
       /\ mtrace_nf' = IF write
                       THEN [mtrace_nf EXCEPT ![t][k] =
                               (IF opens THEN <<>> ELSE @) \o WrittenOut(buf)]
                       ELSE mtrace_nf

\* MemRefSingle and MemRefMulti.  An instruction has one call at most, for the
\* first operand that refers to memory.
MemRef(t) ==
    /\ Running(t, "memory")
    /\ instr[t].mem # "none" /\ InROI(t)
    /\ step' = [step EXCEPT ![t] = "fetch"]
    /\ \E line \in Lines :
         /\ \E recs \in Ul2Answers(line, ins_count[t]) :
              RecordAccesses(t, t_buf[t], trace[t], recs)
         /\ RecordUnfiltered(t, line)
    /\ UNCHANGED <<startFF, status, instr, executed, roi, ins_count, windowed, ended>>

NoMemRef(t) ==
    /\ Running(t, "memory")
    /\ instr[t].mem = "none" \/ ~InROI(t)
    /\ step' = [step EXCEPT ![t] = "fetch"]
    /\ UNCHANGED <<startFF, status, instr, executed, roi, filtered, unfiltered, windowed, ended>>

\* both buffers are written out, the second one to a file that may be closed
ThreadFini(t) ==
    /\ Running(t, "fetch")
    /\ trace' = [trace EXCEPT ![t] = @ \o t_buf[t]]
    /\ t_buf' = [t_buf EXCEPT ![t] = <<>>]
    /\ IF mt_nf_open[t] \/ t_buf_nf[t] = <<>>
       THEN /\ status' = [status EXCEPT ![t] = "done"]
            /\ mtrace_nf' = [mtrace_nf EXCEPT ![t][mt_nf_phase[t]] = @ \o t_buf_nf[t]]
            /\ t_buf_nf' = [t_buf_nf EXCEPT ![t] = <<>>]
            /\ UNCHANGED ended
       ELSE /\ ended' = "null stream"
            /\ UNCHANGED <<status, mtrace_nf, t_buf_nf>>
    /\ UNCHANGED <<startFF, instr, step, executed, roi, ins_count, num_maccess,
                   mt_nf_phase, mt_nf_open, windowed>>

Init ==
    /\ startFF \in BOOLEAN
    /\ status = [t \in Threads |-> "unborn"]
    /\ instr = [t \in Threads |-> [ip |-> 0, mem |-> "none", magic |-> "none"]]
    /\ step = [t \in Threads |-> "fetch"]
    /\ executed = [t \in Threads |-> 0]
    /\ inROI = [t \in Threads |-> FALSE]
    /\ inROI_master = ~startFF
    /\ ins_count = [t \in Threads |-> 0]
    /\ num_maccess = [t \in Threads |-> 0]
    /\ t_buf = [t \in Threads |-> <<>>]
    /\ trace = [t \in Threads |-> <<>>]
    /\ t_buf_nf = [t \in Threads |-> <<>>]
    /\ mtrace_nf = [t \in Threads |-> [k \in Windows |-> <<>>]]
    /\ mt_nf_phase = [t \in Threads |-> 0]
    /\ mt_nf_open = [t \in Threads |-> FALSE]
    /\ curr_instr = [t \in Threads |-> 0]
    /\ champsim = [t \in Threads |-> [k \in Windows |-> <<>>]]
    /\ cst_phase = [t \in Threads |-> 0]
    /\ cst_open = [t \in Threads |-> FALSE]
    /\ ended = "no"

Next ==
    \E t \in Threads :
        \/ ThreadStart(t) \/ FetchOutsideROI(t) \/ KillProcess(t) \/ InsRef(t)
        \/ MagicInst(t) \/ ChampSim(t) \/ MemRef(t) \/ NoMemRef(t) \/ ThreadFini(t)

Spec == Init /\ [][Next]_vars

-----------------------------------------------------------------------------
(* What is checked.                                                        *)

\* the trace of thread t and the files of its memory references, with what
\* the buffers still hold
Recorded(t) == trace[t] \o t_buf[t]

\* where the accesses are in a trace
Accesses(s) == {n \in DOMAIN s : ~IsMark(s[n])}

Unfiltered(t) ==
    FlattenSeq([n \in 1 .. mt_nf_phase[t] + 1 |-> mtrace_nf[t][n - 1]]) \o t_buf_nf[t]

TypeOK ==
    /\ startFF \in BOOLEAN /\ inROI_master \in BOOLEAN
    /\ inROI \in [Threads -> BOOLEAN]
    /\ mt_nf_open \in [Threads -> BOOLEAN] /\ cst_open \in [Threads -> BOOLEAN]
    /\ status \in [Threads -> {"unborn", "running", "done"}]
    /\ instr \in [Threads -> Instruction]
    /\ step \in [Threads -> {"fetch", "magic", "champsim", "memory"}]
    /\ executed \in [Threads -> Nat] /\ ins_count \in [Threads -> Nat]
    /\ num_maccess \in [Threads -> Nat] /\ curr_instr \in [Threads -> Nat]
    /\ mt_nf_phase \in [Threads -> Nat] /\ cst_phase \in [Threads -> Nat]
    /\ t_buf \in [Threads -> Seq(Record)] /\ t_buf_nf \in [Threads -> Seq(Record)]
    /\ trace \in [Threads -> Seq(Record \cup Mark)]
    /\ mtrace_nf \in [Threads -> [Windows -> Seq(Record)]]
    /\ champsim \in [Threads -> [Windows -> Seq([ip : Nat, executing : Nat, at : Nat])]]
    /\ ended \in {"no", "killed", "null stream"}

\* The arrays t_buf[tid] and t_buf_nf[tid] always have room for one more record,
\* and the trace has as many accesses as num_maccess[tid], which a thread prints
\* when it ends: all of them are in the file by then, also when the last ones
\* were in a buffer that was not full (recordAccess, dump_tbuf, ThreadFini)
EveryAccessTraced ==
    \A t \in Threads :
        /\ Len(t_buf[t]) < TBUF_SIZE /\ Len(t_buf_nf[t]) < TBUF_SIZE
        /\ Cardinality(Accesses(Recorded(t))) = num_maccess[t]
        /\ status[t] = "done" => t_buf[t] = <<>> /\ t_buf_nf[t] = <<>>

\* A trace is in the order of the thread's instructions and has exactly one mark
\* for each MARK_INTERVAL of them.  An access before a mark is of an earlier
\* instruction, one after it is not: the buffer is written out before a mark is
\* (InsRef).  The readers of the traces cut them into phases at the marks.
MarksDivideTrace ==
    \A t \in Threads : DividedByMarks(Recorded(t), ins_count[t], MARK_INTERVAL)

\* No step takes back, loses or reorders a memory reference of a thread that was
\* recorded unfiltered, and a step records at most one, of its own instruction
\* and of its own thread: not when a window closes with records in the buffer
\* and the next one opens, not when another thread starts the master ROI
\* (ShouldWrite_mt_nf, recordAccess_nf, dump_tbuf_nf)
UnfilteredOnlyGrows ==
    [][\A t \in Threads :
        LET new == Unfiltered(t)'
        IN \/ new = Unfiltered(t)
           \/ /\ Running(t, "memory") /\ instr[t].mem # "none"
              /\ Front(new) = Unfiltered(t)
              /\ Last(new).rw = instr[t].mem /\ Last(new).ts = ins_count[t]]_vars

\* The ChampSim file number k of a thread has instructions of its k-th phase only,
\* where open_champsim_trace would print "cst_phase does not match
\* ins_count/PHASE_INTERVAL".  A thread may leave the ROI, and another one start
\* the master ROI, between the count of an instruction and the test of the
\* window, which no longer sees that count; a window is missed when it happens
\* at the only count inside or outside it.
ChampSimFilesMatchPhases ==
    \A t \in Threads : \A k \in Windows :
        \A n \in DOMAIN champsim[t][k] : champsim[t][k][n].at \div PHASE_INTERVAL = k

\* "intermediate data structure to batch write to file" (line 67): the buffers are
\* written to a file.  Stated of the end of a thread.
BuffersGoToFile == ended # "null stream"

\* "finalize each instruction with this function" (line 783): what
\* WriteCurrentInstruction writes is the instruction that is executed
WritesExecutingInstruction ==
    \A t \in Threads : \A k \in Windows :
        \A n \in DOMAIN champsim[t][k] : champsim[t][k][n].ip = champsim[t][k][n].executing

=============================================================================
