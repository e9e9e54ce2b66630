------------------------ MODULE CoherenceReplayMain ------------------------
(***************************************************************************)
(* The main loop of coherence_replay.cpp: it reads one item of each        *)
(* thread's memory trace in turn, an access or a mark of the thread's      *)
(* instruction count, and replays the accesses through access_cache, until *)
(* a round in which some thread's 6 billion mark was read.                 *)
(*                                                                         *)
(* A trace is a sequence of 8-byte words: the first word of an item is an  *)
(* address with its write bit or the mark 0xc0ffee, the second one an      *)
(* instruction count.  A trace may end after any word; reads past its end  *)
(* fail, are reported and go on with the value 0.                          *)
(***************************************************************************)
EXTENDS CoherenceReplay, Sequences

CONSTANTS
    N_THR,               \* traces (64 in the code)
    THREADS_PER_SOCKET,  \* 4 in the code, where socket_index is i>>2
    StartMark,           \* TRACESTARTINST, 5000000000
    EndMark,             \* 6000000000
    Traces               \* the possible contents of the trace files

Threads == 0 .. N_THR - 1

SocketOf(i) == i \div THREADS_PER_SOCKET

Address(l, isW) == [kind |-> "address", line |-> l, isW |-> isW]
Number(n) == [kind |-> "number", n |-> n]
MarkWord == [kind |-> "mark"]

Words == [kind : {"address"}, line : Lines, isW : BOOLEAN]
         \cup [kind : {"number"}, n : Nat] \cup {MarkWord}

\* the items of a trace follow each other, and the last one may be cut
WellFormed(trace) ==
    \A k \in 1 .. Len(trace) :
        IF k % 2 = 0
        THEN /\ trace[k].kind = "number"
             /\ trace[k - 1].kind = "address" => trace[k].n \in Timestamps
        ELSE trace[k].kind \in {"address", "mark"}

ASSUME MainAssumption ==
    /\ N_THR \in Nat \ {0}
    /\ THREADS_PER_SOCKET \in Nat \ {0}
    /\ N_THR <= N_SOCKETS * THREADS_PER_SOCKET
    /\ {StartMark, EndMark} \subseteq Nat \ {0}
    /\ 0 \in Lines
    /\ Traces \subseteq [Threads -> Seq(Words)]
    /\ \A t \in Traces, i \in Threads : WellFormed(t[i])

VARIABLES
    rest,        \* what is left to read of each trace
    turn,        \* i of the inner loop
    ts_6Bhit,
    log,         \* what log_cur_stats has printed
    finished,    \* the loop has ended
    touched,     \* the lines counted by the loop that prints Touched Mem
    lastUse      \* history: each socket's last access to each line

loopVars == <<rest, turn, ts_6Bhit, log, finished, touched, lastUse>>
mainVars == <<vars, loopVars>>

-----------------------------------------------------------------------------

Reads(i) == turn = i /\ ~finished /\ ~aborted

\* the number after the first word.  When its read fails it stays what it was: 0
\* after an address, and after a mark the mark itself, which is neither number
\* the code looks for, like 0
Second(trace) == IF Len(trace) > 1 THEN trace[2].n ELSE 0

Drop(trace) == SubSeq(trace, 3, Len(trace))

\* CCD[jj].size() summed over jj < N_SOCKETS
TouchedLines == Cardinality({l \in ccdKeys' : SetIndex(l) < N_SOCKETS})

\* fault: the flag does not outlive the pass in which it is set
AdvanceForgetful(hit) ==
    LET ends == turn = N_THR - 1 /\ hit
    IN /\ ts_6Bhit' = FALSE
       /\ turn' = (turn + 1) % N_THR
       /\ finished' = ends
       /\ touched' = IF ends THEN TouchedLines ELSE touched

\* the end of a pass of the inner loop, hit being the new ts_6Bhit
Advance(hit) ==
    LET ends == turn = N_THR - 1 /\ hit
    IN /\ ts_6Bhit' = hit
       /\ turn' = (turn + 1) % N_THR
       /\ finished' = ends
       /\ touched' = IF ends THEN TouchedLines ELSE touched

\* thread i's socket has now accessed l, at the count n that its trace has
Used(i, l, n, traced) ==
    lastUse' = [lastUse EXCEPT ![SocketOf(i)][l] =
                  [at |-> simstats'.total_m_insts, by |-> i, count |-> n, traced |-> traced]]

ReadMark(i) ==
    /\ Reads(i)
    /\ rest[i] # <<>>
    /\ rest[i][1].kind = "mark"
    /\ UNCHANGED <<vars, lastUse>>
    /\ LET n == Second(rest[i])
       IN /\ log' = IF n >= StartMark /\ i = 2
                    THEN Append(log, [inst |-> n, stats |-> simstats]) ELSE log
          /\ Advance(ts_6Bhit \/ n = EndMark)
    /\ rest' = [rest EXCEPT ![i] = Drop(@)]

ReadAccess(i) ==
    /\ Reads(i)
    /\ rest[i] # <<>>
    /\ LET word == rest[i][1]
       IN /\ word.kind = "address"
          /\ Access(SocketOf(i), word.line, word.isW, Second(rest[i]))
          /\ Used(i, word.line, Second(rest[i]), Len(rest[i]) > 1)
    /\ rest' = [rest EXCEPT ![i] = Drop(@)]
    /\ Advance(ts_6Bhit)
    /\ UNCHANGED log

\* "Trace Readline Failed!", and then a read of address 0 at instruction 0
ReadPastEnd(i) ==
    /\ Reads(i)
    /\ rest[i] = <<>>
    /\ Access(SocketOf(i), 0, FALSE, 0)
    /\ Used(i, 0, 0, FALSE)
    /\ Advance(ts_6Bhit)
    /\ UNCHANGED <<rest, log>>

MainInit ==
    /\ Init
    /\ rest \in Traces
    /\ turn = 0
    /\ ts_6Bhit = FALSE
    /\ log = <<>>
    /\ finished = FALSE
    /\ touched = 0
    /\ lastUse = [s \in Sockets |-> [l \in Lines |->
                    [at |-> 0, by |-> 0, count |-> 0, traced |-> FALSE]]]

MainNext == \E i \in Threads : ReadMark(i) \/ ReadAccess(i) \/ ReadPastEnd(i)

MainSpec == MainInit /\ [][MainNext]_mainVars

\* the loop is a sequential program: it takes its next step
FairMainSpec == MainSpec /\ WF_mainVars(MainNext)

-----------------------------------------------------------------------------
(* Properties.                                                             *)

EndMarkAhead ==
    \E i \in Threads : \E k \in 1 .. Len(rest[i]) - 1 :
        rest[i][k] = MarkWord /\ rest[i][k + 1] = Number(EndMark)

\* The replay ends whenever one of the traces still has its 6 billion mark
\* ahead, however early the other traces end: reads past an end fail without
\* stopping the loop, and the flag outlives the round in which it is set.
ReplayEnds == EndMarkAhead ~> finished

\* The lines socket s holds before the step and not after
DroppedBy(s) ==
    {l \in Lines : /\ HitWay(caches[SetIndex(l)][s], l) # {}
                   /\ HitWay(caches'[SetIndex(l)][s], l) = {}}

HeldWith(s, l) ==
    {m \in Lines : SetIndex(m) = SetIndex(l) /\ HitWay(caches[SetIndex(m)][s], m) # {}}

SameThread(s, l, m) ==
    /\ lastUse[s][l].traced /\ lastUse[s][m].traced
    /\ lastUse[s][l].by = lastUse[s][m].by

\* Among the lines of a set that one thread was the last of its socket to use,
\* the one it used longest ago is evicted first, or one that it used at the same
\* instruction: a thread's instruction count never decreases, and both a hit and
\* an installation store it ("find lru", access_cache).
EvictsThreadsOldest ==
    [][LET uses == lastUse[SocketOf(turn)]
       IN \A l \in DroppedBy(SocketOf(turn)) : \A m \in HeldWith(SocketOf(turn), l) :
             SameThread(SocketOf(turn), l, m) =>
                uses[l].at <= uses[m].at \/ uses[l].count = uses[m].count]_mainVars

=============================================================================
