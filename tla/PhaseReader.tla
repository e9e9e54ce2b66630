---------------------------- MODULE PhaseReader ----------------------------
(***************************************************************************)
(* The parallel part of process_phase in page_map_generator.cpp, phase     *)
(* after phase.  An OpenMP loop reads one trace per iteration up to the    *)
(* mark that ends the phase, counts the accesses to each page, and merges  *)
(* its counts into those of all traces, page by page under a lock.  At the *)
(* barrier the owners are reassigned (PoolMigration), and main starts the  *)
(* next phase unless some trace has ended.                                 *)
(*                                                                         *)
(* All iterations may run at once.  With fewer OpenMP threads than traces  *)
(* some run one after the other, which is one of the orders of the model.  *)
(* The program reads words, the model items of two words.  A trace may end *)
(* in the middle of an item: what the second read returns is ignored, and  *)
(* the count is what the variable held, 0 for an access and 0xc0ffee for a *)
(* mark, which ends no phase.                                              *)
(***************************************************************************)
EXTENDS TraceFormat, FiniteSets, Functions

CONSTANTS
    N_THR,            \* 64 traces
    Pages,
    PHASE_CYCLES,     \* 1000000000
    MARK_INTERVAL,    \* 100000000, of the tracer
    Inputs,           \* the sequences of traces that main may open
    Cuts,             \* first words of items behind them, of which the second is cut
    MaxPhases         \* 10001: main's bound of 10000 and the phase for warmup

Thr == 0 .. N_THR - 1

Kinds == {"R", "W"}

Access == [page : Pages, rw : Kinds, ts : Nat]

Mark == [mark : Nat]

Items == Access \cup Mark

CutMark == [rw |-> "mark"]

NoWord == [rw |-> "none"]

FirstWords == [page : Pages, rw : Kinds] \cup {CutMark, NoWord}

LastCount(s) == IF s = <<>> THEN 0 ELSE TimeOf(s[Len(s)])

ASSUME PhaseReaderAssumption ==
    /\ {N_THR, PHASE_CYCLES, MARK_INTERVAL, MaxPhases} \subseteq Nat \ {0}
    /\ Pages # {} /\ IsFiniteSet(Pages)
    /\ Inputs \subseteq [Thr -> Seq(Items)]
    /\ Cuts \subseteq [Thr -> FirstWords]
    \* the traces are written by the tracer
    /\ \A input \in Inputs : \A i \in Thr :
         DividedByMarks(input[i], LastCount(input[i]), MARK_INTERVAL)
    \* and a mark ends each phase
    /\ PHASE_CYCLES % MARK_INTERVAL = 0

VARIABLES
    traces, cut,        \* the files: items, and the first word of a cut one
    rest,               \* the items that have not been read
    cut_read,           \* the threads that have read the cut one
    pc,                 \* of each iteration of the loop
    pa_count,           \* its counts of the phase, pa_count_R and _W
    tmp_numacc,
    unmerged,           \* the pages it has to merge yet
    loaded,             \* what it has read of the total, under the lock
    total,              \* page_Rs and page_Ws
    lock,               \* who holds page_R_lock and page_W_lock
    total_num_accs,
    any_trace_done,
    curphase, phase_end_cycle,
    main

files == <<traces, cut, rest, cut_read>>
locals == <<pc, pa_count, tmp_numacc, unmerged, loaded>>
shared == <<total, lock, total_num_accs, any_trace_done>>
phase == <<curphase, phase_end_cycle, main>>
vars == <<files, locals, shared, phase>>

NoCounts == [k \in Kinds |-> [p \in Pages |-> 0]]

Free == -1      \* who holds a lock that nobody holds

Nothing == [kind |-> "R", page |-> CHOOSE p \in Pages : TRUE, was |-> 0]

-----------------------------------------------------------------------------
(* One iteration: read the phase, hand over the counts, merge them.        *)

\* fault: the mark of the phase's end does not end it
EndsPhaseAfter(n) == n > phase_end_cycle

EndsPhase(n) == n >= phase_end_cycle

\* fault: a failed read is tried again
ReadsOn(i) == UNCHANGED pc

\* the reading ends; the end of the file is noticed only when it is read
StopReading(i) == pc' = [pc EXCEPT ![i] = "coalesce"]

ReadEnd(i) ==
    /\ pc[i] = "read"
    /\ rest[i] = <<>>
    /\ cut[i] = NoWord \/ i \in cut_read
    /\ any_trace_done' = TRUE
    /\ StopReading(i)
    /\ UNCHANGED <<files, pa_count, tmp_numacc, unmerged, loaded, total, lock,
                   total_num_accs, phase>>

ReadMark(i) ==
    /\ pc[i] = "read"
    /\ rest[i] # <<>> /\ IsMark(Head(rest[i]))
    /\ IF EndsPhase(Head(rest[i]).mark) THEN StopReading(i) ELSE UNCHANGED pc
    /\ rest' = [rest EXCEPT ![i] = Tail(@)]
    /\ UNCHANGED <<traces, cut, cut_read, pa_count, tmp_numacc, unmerged, loaded, shared,
                   phase>>

CountAccess(i, a) ==
    pa_count' = [pa_count EXCEPT ![i][a.rw][a.page] = pa_count[i][a.rw][a.page] + 1]

\* an access past the end of the phase is read, and lost
ReadAccess(i) ==
    /\ pc[i] = "read"
    /\ rest[i] # <<>> /\ ~IsMark(Head(rest[i]))
    /\ LET a == Head(rest[i])
       IN IF EndsPhase(a.ts)
          THEN StopReading(i) /\ UNCHANGED pa_count
          ELSE CountAccess(i, a) /\ UNCHANGED pc
    /\ tmp_numacc' = [tmp_numacc EXCEPT ![i] = @ + 1]
    /\ rest' = [rest EXCEPT ![i] = Tail(@)]
    /\ UNCHANGED <<traces, cut, cut_read, unmerged, loaded, shared, phase>>

\* an access whose count is cut is counted, a mark whose count is cut is none
ReadCut(i) ==
    /\ pc[i] = "read"
    /\ rest[i] = <<>>
    /\ cut[i] # NoWord /\ i \notin cut_read
    /\ cut_read' = cut_read \cup {i}
    /\ IF cut[i] = CutMark
       THEN UNCHANGED <<pa_count, tmp_numacc>>
       ELSE /\ CountAccess(i, cut[i])
            /\ tmp_numacc' = [tmp_numacc EXCEPT ![i] = @ + 1]
    /\ UNCHANGED <<traces, cut, rest, pc, unmerged, loaded, shared, phase>>

\* the critical section
Coalesce(i) ==
    /\ pc[i] = "coalesce"
    /\ total_num_accs' = [total_num_accs EXCEPT ![i] = @ + tmp_numacc[i]]
    /\ unmerged' = [unmerged EXCEPT ![i] =
                      {e \in Kinds \X Pages : pa_count[i][e[1]][e[2]] > 0}]
    /\ pc' = [pc EXCEPT ![i] = "merge"]
    /\ UNCHANGED <<files, pa_count, tmp_numacc, loaded, total, lock, any_trace_done, phase>>

\* page_Ws_tmp is merged before page_Rs_tmp, each in the order of its map
NextToMerge(i) ==
    LET writes == {e \in unmerged[i] : e[1] = "W"}
    IN IF writes # {} THEN writes ELSE unmerged[i]

\* fault: the lock is not waited for
EntersAnyway(k) == k \in Kinds

MayEnter(k) == lock[k] = Free

\* omp_set_lock, and the total of one page read
SetLock(i) ==
    /\ pc[i] = "merge"
    /\ \E e \in NextToMerge(i) :
         /\ MayEnter(e[1])
         /\ lock' = [lock EXCEPT ![e[1]] = i]
         /\ loaded' = [loaded EXCEPT ![i] = [kind |-> e[1], page |-> e[2],
                                             was |-> total[e[1]][e[2]]]]
    /\ pc' = [pc EXCEPT ![i] = "add"]
    /\ UNCHANGED <<files, pa_count, tmp_numacc, unmerged, total, total_num_accs,
                   any_trace_done, phase>>

\* the sum written, and omp_unset_lock
UnsetLock(i) ==
    /\ pc[i] = "add"
    /\ LET k == loaded[i].kind
           p == loaded[i].page
       IN /\ total' = [total EXCEPT ![k][p] = loaded[i].was + pa_count[i][k][p]]
          /\ unmerged' = [unmerged EXCEPT ![i] = @ \ {<<k, p>>}]
          /\ lock' = [lock EXCEPT ![k] = Free]
    /\ loaded' = [loaded EXCEPT ![i] = Nothing]
    /\ pc' = [pc EXCEPT ![i] = "merge"]
    /\ UNCHANGED <<files, pa_count, tmp_numacc, total_num_accs, any_trace_done, phase>>

Merged(i) ==
    /\ pc[i] = "merge" /\ unmerged[i] = {}
    /\ pc' = [pc EXCEPT ![i] = "done"]
    /\ UNCHANGED <<files, pa_count, tmp_numacc, unmerged, loaded, shared, phase>>

Iteration(i) ==
    \/ ReadEnd(i) \/ ReadMark(i) \/ ReadAccess(i) \/ ReadCut(i)
    \/ Coalesce(i) \/ SetLock(i) \/ UnsetLock(i) \/ Merged(i)

-----------------------------------------------------------------------------
(* The phases.                                                             *)

AllDone == main = "parallel" /\ \A i \in Thr : pc[i] = "done"

\* fault: main goes on while some trace has not ended
EndsWithLongest == (\A i \in Thr : rest[i] = <<>>) \/ curphase + 1 = MaxPhases

\* fault: only the end of a trace ends the loop
EndsWithTrace == any_trace_done

LoopEnds == any_trace_done \/ curphase + 1 = MaxPhases

\* the barrier, the rest of process_phase, and the loop of main.  What is local to
\* process_phase starts again; the locks and the flag stay.
EndPhase ==
    /\ AllDone
    /\ curphase' = curphase + 1
    /\ IF LoopEnds
       THEN /\ main' = "ended"
            /\ UNCHANGED <<locals, total, total_num_accs, phase_end_cycle>>
       ELSE /\ pc' = [i \in Thr |-> "read"]
            /\ pa_count' = [i \in Thr |-> NoCounts]
            /\ tmp_numacc' = [i \in Thr |-> 0]
            /\ total' = NoCounts
            /\ total_num_accs' = [i \in Thr |-> 0]
            /\ phase_end_cycle' = phase_end_cycle + PHASE_CYCLES
            /\ UNCHANGED <<unmerged, loaded, main>>
    /\ UNCHANGED <<files, lock, any_trace_done>>

Init ==
    /\ traces \in Inputs /\ cut \in Cuts
    /\ rest = traces /\ cut_read = {}
    /\ pc = [i \in Thr |-> "read"]
    /\ pa_count = [i \in Thr |-> NoCounts]
    /\ tmp_numacc = [i \in Thr |-> 0]
    /\ unmerged = [i \in Thr |-> {}]
    /\ loaded = [i \in Thr |-> Nothing]
    /\ total = NoCounts
    /\ total_num_accs = [i \in Thr |-> 0]
    /\ lock = [k \in Kinds |-> Free]
    /\ any_trace_done = FALSE
    /\ curphase = 0
    /\ phase_end_cycle = PHASE_CYCLES
    /\ main = "parallel"

Terminated == main = "ended" /\ UNCHANGED vars

Next == (\E i \in Thr : Iteration(i)) \/ EndPhase \/ Terminated

\* a thread that can go on does, and so does one that waits for a lock that is
\* free time and again: a thread takes a lock a bounded number of times
Spec ==
    /\ Init /\ [][Next]_vars
    /\ \A i \in Thr : WF_vars(Iteration(i))
    /\ WF_vars(EndPhase)

-----------------------------------------------------------------------------
(* What is checked.                                                        *)

TypeOK ==
    /\ traces \in Inputs /\ rest \in [Thr -> Seq(Items)]
    /\ cut \in Cuts /\ cut_read \subseteq Thr
    /\ pc \in [Thr -> {"read", "coalesce", "merge", "add", "done"}]
    /\ pa_count \in [Thr -> [Kinds -> [Pages -> Nat]]]
    /\ tmp_numacc \in [Thr -> Nat] /\ total_num_accs \in [Thr -> Nat]
    /\ unmerged \in [Thr -> SUBSET (Kinds \X Pages)]
    /\ loaded \in [Thr -> [kind : Kinds, page : Pages, was : Nat]]
    /\ total \in [Kinds -> [Pages -> Nat]]
    /\ lock \in [Kinds -> Thr \cup {Free}]
    /\ any_trace_done \in BOOLEAN
    /\ curphase \in 0 .. MaxPhases
    /\ phase_end_cycle \in Nat
    /\ main \in {"parallel", "ended"}

CurrentPhase == phase_end_cycle - PHASE_CYCLES .. phase_end_cycle - 1

\* the accesses to page p of the current phase that are in the trace of thread i
InPhase(i, k, p) ==
    {n \in DOMAIN traces[i] :
        LET e == traces[i][n]
        IN ~IsMark(e) /\ e.rw = k /\ e.page = p /\ e.ts \in CurrentPhase}

\* their number, with the one that is cut: no mark is behind the last item of the
\* trace, so it is of the same phase
AccessesInPhase(i, k, p) ==
    IF cut[i] = [page |-> p, rw |-> k] /\ LastCount(traces[i]) \in CurrentPhase
    THEN Cardinality(InPhase(i, k, p)) + 1
    ELSE Cardinality(InPhase(i, k, p))

\* What a thread has counted when it has read a phase is all of the accesses of
\* that phase in its trace and no other: none is dropped at the boundary, though
\* the code would put up with missing one (line 159), and none is left to the next
\* phase, not even the one whose count is cut and read as 0.  It rests on where the
\* tracer puts the marks.
PhaseCountsExact ==
    \A i \in Thr : pc[i] \notin {"read", "coalesce"} /\ main = "parallel" =>
        \A k \in Kinds : \A p \in Pages :
            pa_count[i][k][p] = AccessesInPhase(i, k, p)

\* At the barrier page_Rs and page_Ws have the accesses of all traces, whatever
\* the order in which the threads merged theirs (the two locks), and
\* total_num_accs those of each trace, of which none was read and not counted
PhaseTotalsExact ==
    AllDone =>
        /\ \A k \in Kinds : \A p \in Pages :
              total[k][p] = SumFunction([i \in Thr |-> AccessesInPhase(i, k, p)])
        /\ \A i \in Thr :
              total_num_accs[i] =
                  SumFunction([e \in Kinds \X Pages |-> AccessesInPhase(i, e[1], e[2])])

\* Main ends with the first phase in which the end of a trace is met, and every
\* phase before it was in full in every trace (any_trace_done)
EndsWithShortest ==
    curphase > 0 /\ main = "parallel" =>
        \A i \in Thr : LastCount(traces[i]) >= phase_end_cycle - PHASE_CYCLES

\* The locks and the barrier let every phase end, and main ends
ReadingEnds == <>(main = "ended")

=============================================================================
