---------------------- MODULE CoherenceReplayMainProofs ----------------------
(***************************************************************************)
(* The main loop of coherence_replay.cpp is a way of driving access_cache: *)
(* each of its steps is a step of CoherenceReplay or leaves the caches,    *)
(* the directory and the counters alone, for every number of traces and    *)
(* whatever the traces contain.  What is proved of CoherenceReplay holds   *)
(* of the program.                                                         *)
(***************************************************************************)
EXTENDS CoherenceReplayMain, CoherenceReplayProofs, SequenceTheorems

\* What is left of the traces is well formed
RestOK ==
    /\ rest \in [Threads -> Seq(Words)]
    /\ \A i \in Threads : WellFormed(rest[i])

\* Every thread runs on a socket that has a cache (socket_index = i>>2).
LEMMA SocketOfType ==
    ASSUME NEW i \in Threads
    PROVE  SocketOf(i) \in Sockets
<1>1. /\ i \in Nat /\ i < N_THR
      /\ N_THR \in Nat /\ N_SOCKETS \in Nat
      /\ THREADS_PER_SOCKET \in Nat /\ THREADS_PER_SOCKET > 0
      /\ N_THR <= N_SOCKETS * THREADS_PER_SOCKET
  BY MainAssumption, ConstantsAssumption DEF Threads
<1>2. PICK q \in Int : q = i \div THREADS_PER_SOCKET
  BY <1>1
<1>3. q >= 0 /\ q * THREADS_PER_SOCKET <= i
  BY <1>1, <1>2, Z3
<1>4. q < N_SOCKETS
  <2>1. CASE q >= N_SOCKETS
    <3>1. q * THREADS_PER_SOCKET >= N_SOCKETS * THREADS_PER_SOCKET
      BY <1>1, <2>1
    <3>. QED
      BY <1>1, <1>3, <3>1
  <2>. QED
    BY <1>1, <2>1
<1>. QED
  BY <1>1, <1>2, <1>3, <1>4 DEF SocketOf, Sockets

\* Reading an item takes its two words, or the only one that there is.
LEMMA DropEffect ==
    ASSUME NEW trace \in Seq(Words)
    PROVE  /\ Drop(trace) \in Seq(Words)
           /\ Len(Drop(trace)) = IF 3 <= Len(trace) THEN Len(trace) - 2 ELSE 0
           /\ \A k \in 1 .. Len(Drop(trace)) : Drop(trace)[k] = trace[k + 2]
<1>1. Len(trace) \in Nat /\ \A k \in 3 .. Len(trace) : trace[k] \in Words
  OBVIOUS
<1>2. PICK rem : rem = SubSeq(trace, 3, Len(trace))
  OBVIOUS
<1>3. /\ rem \in Seq(Words)
      /\ Len(rem) = IF 3 <= Len(trace) THEN Len(trace) - 3 + 1 ELSE 0
      /\ \A k \in 1 .. Len(trace) - 3 + 1 : rem[k] = trace[3 + k - 1]
  BY <1>1, <1>2, SubSeqProperties
<1>4. \A k \in 1 .. Len(rem) : rem[k] = trace[k + 2]
  <2>. SUFFICES ASSUME NEW k \in 1 .. Len(rem)
                PROVE  rem[k] = trace[k + 2]
    OBVIOUS
  <2>1. 3 <= Len(trace) /\ k \in 1 .. Len(trace) - 3 + 1 /\ 3 + k - 1 = k + 2
    BY <1>1, <1>3
  <2>. QED
    BY <1>3, <2>1
<1>5. Len(rem) = IF 3 <= Len(trace) THEN Len(trace) - 2 ELSE 0
  BY <1>1, <1>3
<1>6. rem = Drop(trace)
  BY <1>2 DEF Drop
<1>. QED
  BY <1>3, <1>4, <1>5, <1>6

\* Reading an item leaves a well-formed trace.
LEMMA DropKeepsForm ==
    ASSUME NEW trace \in Seq(Words), WellFormed(trace)
    PROVE  Drop(trace) \in Seq(Words) /\ WellFormed(Drop(trace))
<1>1. PICK rem \in Seq(Words) :
        /\ rem = Drop(trace)
        /\ Len(rem) = IF 3 <= Len(trace) THEN Len(trace) - 2 ELSE 0
        /\ \A k \in 1 .. Len(rem) : rem[k] = trace[k + 2]
  BY DropEffect
<1>2. ASSUME NEW k \in 1 .. Len(rem)
      PROVE  IF k % 2 = 0
             THEN /\ rem[k].kind = "number"
                  /\ rem[k - 1].kind = "address" => rem[k].n \in Timestamps
             ELSE rem[k].kind \in {"address", "mark"}
  <2>1. k + 2 \in 1 .. Len(trace) /\ rem[k] = trace[k + 2]
    BY <1>1
  <2>2. (k + 2) % 2 = k % 2
    OBVIOUS
  <2>3. CASE k % 2 = 0
    <3>1. k - 1 \in 1 .. Len(rem)
      BY <2>3
    <3>2. rem[k - 1] = trace[(k + 2) - 1]
      BY <1>1, <3>1
    <3>. QED
      BY <2>1, <2>2, <2>3, <3>2 DEF WellFormed
  <2>4. CASE k % 2 # 0
    BY <2>1, <2>2, <2>4 DEF WellFormed
  <2>. QED
    BY <2>3, <2>4
<1>. QED
  BY <1>1, <1>2 DEF WellFormed

\* What is read of an access is what CoherenceReplay's inputs range over; a cut
\* access has timestamp 0.
LEMMA AccessWordType ==
    ASSUME NEW trace \in Seq(Words), WellFormed(trace),
           trace # <<>>, trace[1].kind = "address"
    PROVE  /\ trace[1].line \in Lines
           /\ trace[1].isW \in BOOLEAN
           /\ Second(trace) \in Timestamps
<1>1. Len(trace) \in Nat /\ Len(trace) > 0 /\ 1 \in 1 .. Len(trace)
  OBVIOUS
<1>2. trace[1] \in Words
  BY <1>1
<1>3. trace[1].line \in Lines /\ trace[1].isW \in BOOLEAN
  BY <1>2 DEF Words, MarkWord
<1>4. Len(trace) > 1 => trace[2].n \in Timestamps
  <2>1. Len(trace) > 1 => 2 \in 1 .. Len(trace)
    BY <1>1
  <2>. QED
    BY <2>1 DEF WellFormed
<1>5. 0 \in Timestamps
  BY ConstantsAssumption
<1>. QED
  BY <1>1, <1>3, <1>4, <1>5 DEF Second

\* One pass of the inner loop keeps the rest of the traces well formed and does
\* one access or none.
LEMMA PassIsAccess ==
    ASSUME RestOK, MainNext
    PROVE  RestOK' /\ [Next]_vars
<1>1. ASSUME NEW i \in Threads, ReadMark(i)
      PROVE  RestOK' /\ [Next]_vars
  <2>1. rest' = [rest EXCEPT ![i] = Drop(@)] /\ UNCHANGED vars
    BY <1>1 DEF ReadMark
  <2>2. Drop(rest[i]) \in Seq(Words) /\ WellFormed(Drop(rest[i]))
    BY DropKeepsForm DEF RestOK
  <2>. QED
    BY <2>1, <2>2 DEF RestOK
<1>2. ASSUME NEW i \in Threads, ReadAccess(i)
      PROVE  RestOK' /\ [Next]_vars
  <2>1. /\ rest' = [rest EXCEPT ![i] = Drop(@)]
        /\ rest[i] # <<>> /\ rest[i][1].kind = "address"
        /\ Access(SocketOf(i), rest[i][1].line, rest[i][1].isW, Second(rest[i]))
    BY <1>2 DEF ReadAccess
  <2>2. rest[i] \in Seq(Words) /\ WellFormed(rest[i])
    BY DEF RestOK
  <2>3. Drop(rest[i]) \in Seq(Words) /\ WellFormed(Drop(rest[i]))
    BY <2>2, DropKeepsForm
  <2>4. /\ rest[i][1].line \in Lines
        /\ rest[i][1].isW \in BOOLEAN
        /\ Second(rest[i]) \in Timestamps
    BY <2>1, <2>2, AccessWordType
  <2>5. SocketOf(i) \in Sockets
    BY SocketOfType
  <2>6. Next
    BY <2>1, <2>4, <2>5 DEF Next
  <2>. QED
    BY <2>1, <2>3, <2>6 DEF RestOK
<1>3. ASSUME NEW i \in Threads, ReadPastEnd(i)
      PROVE  RestOK' /\ [Next]_vars
  <2>1. rest' = rest /\ Access(SocketOf(i), 0, FALSE, 0)
    BY <1>3 DEF ReadPastEnd
  <2>2. 0 \in Lines /\ 0 \in Timestamps /\ FALSE \in BOOLEAN
    BY MainAssumption, ConstantsAssumption
  <2>3. SocketOf(i) \in Sockets
    BY SocketOfType
  <2>4. Next
    BY <2>1, <2>2, <2>3 DEF Next
  <2>. QED
    BY <2>1, <2>4 DEF RestOK
<1>. QED
  BY <1>1, <1>2, <1>3 DEF MainNext

\* The replay program, from init_caches to the end of its loop, does nothing to
\* the caches, the directory and the counters but accesses of its traces'
\* lines: every behaviour of main is one of CoherenceReplay.
THEOREM ProgramOnlyAccesses == MainSpec => Spec
<1>1. MainInit => Init /\ RestOK
  <2>. SUFFICES ASSUME MainInit
                PROVE  Init /\ RestOK
    OBVIOUS
  <2>1. Init /\ rest \in Traces
    BY DEF MainInit
  <2>. QED
    BY <2>1, MainAssumption DEF RestOK
<1>2. RestOK /\ [MainNext]_mainVars => RestOK' /\ [Next]_vars
  <2>1. CASE UNCHANGED mainVars
    BY <2>1 DEF mainVars, loopVars, vars, RestOK
  <2>. QED
    BY <2>1, PassIsAccess
<1>. QED
  BY <1>1, <1>2, PTL DEF MainSpec, Spec

\* No assert of access_cache ends the replay program, whatever the traces hold.
THEOREM ProgramNeverAborts == MainSpec => []NoAssertFails
BY ProgramOnlyAccesses, AssertsHold, PTL

\* What the program has counted when it logs or ends adds up: every miss was
\* served once, by memory or by another socket.
THEOREM ProgramCountsAddUp == MainSpec => []MissAccounting
BY ProgramOnlyAccesses, MissesServedOnce, PTL

\* Every access of the program costs what the holders of the line and the
\* modified lines say it costs: the program keeps the promise of CoherentSockets.
THEOREM ProgramKeepsPromise == MainSpec => ImplementsCoherentSockets
BY ProgramOnlyAccesses, ReplayImplementsPromise, PTL

\* The program drops no modified data and writes none back twice.
THEOREM ProgramWritesBack == MainSpec => WriteBackAccounting
BY ProgramOnlyAccesses, WriteBacksExact, PTL

-----------------------------------------------------------------------------
(* Timestamps.  An access stamps the entry of its line and moves no other  *)
(* line of its socket, except for the one that it evicts; the other        *)
(* sockets' copies keep their timestamps or are invalidated.               *)

\* Entry e1 is for the same line as e, used last at the same count
SameStamp(e1, e) == e1.valid = e.valid /\ e1.tag = e.tag /\ e1.ts = e.ts

\* What is valid of column1 is so in column, with the same line and timestamp
KeepsStamps(column1, column) ==
    \A t \in Sockets, v \in Ways :
        column1[t][v].valid => SameStamp(column1[t][v], column[t][v])

\* The directory leaves the accessing socket alone, and stamps no copy.
LEMMA SnoopKeeps ==
    ASSUME NEW column \in Column, NEW de \in DirectoryEntry, NEW s \in Sockets, NEW l, NEW isW
    PROVE  /\ KeepsStamps(Snooped(column, de, s, l, isW), column)
           /\ Snooped(column, de, s, l, isW)[s] = column[s]
<1>1. \A t \in Sockets, v \in Ways : column[t][v] \in Entry
  BY DEF Column
<1>2. s \notin Losers(de, s)
  BY DEF Losers, DirectoryEntry, CohStates
<1>3. ASSUME NEW t \in Sockets, NEW v \in Ways
      PROVE  /\ Invalidate(column[t], l)[v].valid => SameStamp(Invalidate(column[t], l)[v], column[t][v])
             /\ SameStamp(Downgrade(column[t], l)[v], column[t][v])
             /\ SameStamp(column[t][v], column[t][v])
  BY <1>1 DEF Invalidate, Downgrade, SameStamp, Entry
<1>4. ASSUME NEW t \in Sockets
      PROVE  \/ Snooped(column, de, s, l, isW)[t] = Invalidate(column[t], l)
             \/ Snooped(column, de, s, l, isW)[t] = Downgrade(column[t], l)
             \/ Snooped(column, de, s, l, isW)[t] = column[t]
  BY DEF Snooped
<1>5. KeepsStamps(Snooped(column, de, s, l, isW), column)
  <2>. SUFFICES ASSUME NEW t \in Sockets, NEW v \in Ways,
                       Snooped(column, de, s, l, isW)[t][v].valid
                PROVE  SameStamp(Snooped(column, de, s, l, isW)[t][v], column[t][v])
    BY DEF KeepsStamps
  <2>. QED
    BY <1>3, <1>4
<1>6. Snooped(column, de, s, l, isW)[s] = column[s]
  BY <1>2 DEF Snooped, OwnedElsewhere
<1>. QED
  BY <1>5, <1>6

\* Promoting the last sharer of an evicted line stamps nothing.
LEMMA EvictionStamps ==
    ASSUME NEW column \in Column, NEW e, NEW de, NEW s, NEW o
    PROVE  /\ EvictedColumn(column, e, de, s, o) \in Column
           /\ \A t \in Sockets, v \in Ways :
                 SameStamp(EvictedColumn(column, e, de, s, o)[t][v], column[t][v])
<1>1. \A t \in Sockets, v \in Ways : column[t][v] \in Entry
  BY DEF Column
<1>2. CASE ~LeavesOneSharer(e, de, s, o) \/ o \notin Sockets
  BY <1>2 DEF EvictedColumn, SameStamp, Column
<1>3. CASE LeavesOneSharer(e, de, s, o) /\ o \in Sockets
  <2>1. PICK ways : ways = Promote(column[o], e.tag)
    OBVIOUS
  <2>2. ways \in [Ways -> Entry] /\ \A v \in Ways : SameStamp(ways[v], column[o][v])
    BY <1>1, <1>3, <2>1 DEF Promote, SameStamp, Entry, CohStates
  <2>3. EvictedColumn(column, e, de, s, o) = [column EXCEPT ![o] = ways]
    BY <1>3, <2>1 DEF EvictedColumn
  <2>4. EvictedColumn(column, e, de, s, o) \in Column
    BY <2>2, <2>3 DEF Column
  <2>5. ASSUME NEW t \in Sockets, NEW v \in Ways
        PROVE  SameStamp(EvictedColumn(column, e, de, s, o)[t][v], column[t][v])
    <3>1. CASE t = o
      BY <1>3, <2>2, <2>3, <3>1 DEF Column
    <3>2. CASE t # o
      BY <2>3, <3>2 DEF SameStamp, Column
    <3>. QED
      BY <3>1, <3>2
  <2>. QED
    BY <2>4, <2>5
<1>. QED
  BY <1>2, <1>3

\* Socket s has line l in way w of set h since this step, used at count ts
Stamps(s, l, ts, h, w) ==
    /\ h = SetIndex(l)
    /\ \A g \in Sets : g # h => caches'[g] = caches[g]
    /\ KeepsStamps([caches'[h] EXCEPT ![s] = caches[h][s]], caches[h])
    /\ \A v \in Ways : v # w => /\ SameStamp(caches'[h][s][v], caches[h][s][v])
                                /\ ~Holds(caches[h][s], l, v)
    /\ Holds(caches'[h][s], l, w) /\ caches'[h][s][w].ts = ts
    /\ \/ Holds(caches[h][s], l, w)
       \/ ~caches[h][s][w].valid
       \/ w \in LruWay(caches[h][s])
    /\ simstats'.total_m_insts = simstats.total_m_insts + 1

LEMMA HitStamps ==
    ASSUME IInv, NEW s \in Sockets, NEW l \in Lines, NEW isW \in BOOLEAN,
           NEW ts \in Timestamps, Hit(s, l, isW, ts)
    PROVE  \E h \in Sets, w \in Ways : Stamps(s, l, ts, h, w)
<1>1. PICK h \in Sets : h = SetIndex(l)
  BY SetIndexType
<1>2. caches \in [Sets -> Column]
  BY DEF IInv, TypeOK, Column
<1>3. PICK column \in Column : column = caches[h]
  BY <1>2
<1>4. PICK de \in DirectoryEntry : de = CCD[l]
  BY DEF IInv, TypeOK
<1>5. PICK w \in HitWay(column[s], l) :
        LET moved == [column EXCEPT ![s] =
                          [@ EXCEPT ![w] = TouchedEntry(column[s][w], isW, ts)]]
        IN caches' = [caches EXCEPT ![h] = Snooped(moved, de, s, l, isW)]
  BY <1>1, <1>3, <1>4 DEF Hit
<1>6. w \in Ways /\ Holds(column[s], l, w) /\ column[s] \in [Ways -> Entry]
  BY <1>5 DEF HitWay, Column
<1>7. PICK e \in Entry : /\ e = TouchedEntry(column[s][w], isW, ts)
                         /\ e.valid /\ e.tag = l /\ e.ts = ts
  <2>1. column[s][w] \in Entry
    BY <1>6
  <2>2. TouchedEntry(column[s][w], isW, ts) \in Entry
    BY <2>1 DEF TouchedEntry, Entry, CohStates
  <2>. QED
    BY <1>6, <2>1, <2>2 DEF TouchedEntry, Entry, Holds
<1>8. PICK moved : moved = [column EXCEPT ![s] = [column[s] EXCEPT ![w] = e]]
  OBVIOUS
<1>9. /\ moved \in Column /\ moved[s][w] = e
      /\ \A v \in Ways : v # w => moved[s][v] = column[s][v]
      /\ \A t \in Sockets : t # s => moved[t] = column[t]
  BY <1>6, <1>8 DEF Column
<1>10. PICK final : final = Snooped(moved, de, s, l, isW)
  OBVIOUS
<1>11. caches' = [caches EXCEPT ![h] = final]
  BY <1>5, <1>7, <1>8, <1>10
<1>12. KeepsStamps(final, moved) /\ final[s] = moved[s] /\ DOMAIN final = Sockets
  BY <1>9, <1>10, SnoopKeeps DEF Snooped
<1>13. KeepsStamps([final EXCEPT ![s] = column[s]], column)
  BY <1>9, <1>12 DEF KeepsStamps, SameStamp
<1>14. \A v \in Ways : v # w => SameStamp(final[s][v], column[s][v]) /\ ~Holds(column[s], l, v)
  <2>1. \A v \in Ways : v # w => ~Holds(column[s], l, v)
    BY <1>1, <1>3, <1>6 DEF IInv, SetAgrees, UniqueIn
  <2>. QED
    BY <1>9, <1>12, <2>1 DEF SameStamp
<1>15. simstats'.total_m_insts = simstats.total_m_insts + 1
  BY DEF Hit, Counted
<1>16. /\ caches'[h] = final /\ \A g \in Sets : g # h => caches'[g] = caches[g]
       /\ final[s][w] = e
  BY <1>2, <1>9, <1>11, <1>12
<1>17. Stamps(s, l, ts, h, w)
  BY <1>1, <1>3, <1>6, <1>7, <1>13, <1>14, <1>15, <1>16 DEF Stamps, Holds
<1>. QED
  BY <1>6, <1>17

\* The same of an installation, before which the column may have been changed by
\* an eviction
LEMMA InstallStamps ==
    ASSUME IInv, NEW s \in Sockets, NEW l \in Lines, NEW isW \in BOOLEAN,
           NEW ts \in Timestamps, NEW w \in Ways, NEW h \in Sets, h = SetIndex(l),
           NEW column \in Column,
           \A t \in Sockets, v \in Ways : SameStamp(column[t][v], caches[h][t][v]),
           NEW dir \in [Lines -> DirectoryEntry], NEW wroteBack, NEW ok,
           Install(s, l, isW, ts, w, column, dir, wroteBack, ok),
           \A v \in Ways : ~Holds(caches[h][s], l, v),
           ~caches[h][s][w].valid \/ w \in LruWay(caches[h][s])
    PROVE  Stamps(s, l, ts, h, w)
<1>1. caches \in [Sets -> Column]
  BY DEF IInv, TypeOK, Column
<1>2. PICK de \in DirectoryEntry : de = dir[l]
  OBVIOUS
<1>3. PICK e : /\ e = Settled(NewEntry(l, isW, ts), DirectoryAfter(de, s, isW))
               /\ e.valid /\ e.tag = l /\ e.ts = ts
  <2>1. PICK n : /\ n = NewEntry(l, isW, ts)
                 /\ n.valid /\ n.tag = l /\ n.ts = ts
                 /\ n \in Entry
    <3>1. NewEntry(l, isW, ts) \in Entry
      BY DEF NewEntry, Entry, CohStates
    <3>2. /\ NewEntry(l, isW, ts).valid /\ NewEntry(l, isW, ts).tag = l
          /\ NewEntry(l, isW, ts).ts = ts
      BY DEF NewEntry
    <3>. QED
      BY <3>1, <3>2
  <2>2. CASE DirectoryAfter(de, s, isW).state = "S"
    <3>1. PICK e : e = [n EXCEPT !.cstate = "S"]
      OBVIOUS
    <3>2. e = Settled(n, DirectoryAfter(de, s, isW))
      BY <2>2, <3>1 DEF Settled
    <3>3. e.valid /\ e.tag = l /\ e.ts = ts
      BY <2>1, <3>1 DEF Entry
    <3>. QED
      BY <2>1, <3>2, <3>3
  <2>3. CASE DirectoryAfter(de, s, isW).state # "S"
    BY <2>1, <2>3 DEF Settled
  <2>. QED
    BY <2>2, <2>3
<1>4. PICK snooped : snooped = Snooped(column, de, s, l, isW)
  OBVIOUS
<1>5. PICK final : final = [snooped EXCEPT ![s] = [column[s] EXCEPT ![w] = e]]
  OBVIOUS
<1>6. KeepsStamps(snooped, column) /\ snooped[s] = column[s] /\ DOMAIN snooped = Sockets
  BY <1>4, SnoopKeeps DEF Snooped
<1>7. caches' = [caches EXCEPT ![h] = final]
  BY <1>2, <1>3, <1>4, <1>5, <1>6 DEF Install
<1>8. column[s] \in [Ways -> Entry]
  BY DEF Column
<1>9. /\ final[s][w] = e /\ \A v \in Ways : v # w => final[s][v] = column[s][v]
      /\ \A t \in Sockets : t # s => final[t] = snooped[t]
      /\ DOMAIN final = Sockets
  BY <1>5, <1>6, <1>8
<1>10. KeepsStamps([final EXCEPT ![s] = caches[h][s]], caches[h])
  <2>. SUFFICES ASSUME NEW t \in Sockets, NEW v \in Ways,
                       [final EXCEPT ![s] = caches[h][s]][t][v].valid
                PROVE  SameStamp([final EXCEPT ![s] = caches[h][s]][t][v], caches[h][t][v])
    BY DEF KeepsStamps
  <2>1. CASE t = s
    BY <1>9, <2>1 DEF SameStamp
  <2>2. CASE t # s
    <3>1. [final EXCEPT ![s] = caches[h][s]][t] = snooped[t]
      BY <1>9, <2>2
    <3>2. SameStamp(snooped[t][v], column[t][v]) /\ SameStamp(column[t][v], caches[h][t][v])
      BY <1>6, <3>1 DEF KeepsStamps
    <3>. QED
      BY <3>1, <3>2 DEF SameStamp
  <2>. QED
    BY <2>1, <2>2
<1>11. /\ caches'[h] = final /\ \A g \in Sets : g # h => caches'[g] = caches[g]
  BY <1>1, <1>7
<1>12. simstats'.total_m_insts = simstats.total_m_insts + 1
  BY DEF Install, Counted
<1>13. \A v \in Ways : v # w => SameStamp(final[s][v], caches[h][s][v])
  BY <1>9
<1>. QED
  BY <1>3, <1>9, <1>10, <1>11, <1>12, <1>13 DEF Stamps, Holds

LEMMA AccessStamps ==
    ASSUME IInv, NEW s \in Sockets, NEW l \in Lines, NEW isW \in BOOLEAN,
           NEW ts \in Timestamps, Access(s, l, isW, ts)
    PROVE  \E h \in Sets, w \in Ways : Stamps(s, l, ts, h, w)
<1>1. PICK h \in Sets : h = SetIndex(l)
  BY SetIndexType
<1>2. PICK column \in Column : column = caches[h]
  BY DEF IInv, TypeOK, Column
<1>3. SetAgrees(column, CCD, h) /\ CCD \in [Lines -> DirectoryEntry]
  BY <1>2 DEF IInv, TypeOK
<1>4. CASE Hit(s, l, isW, ts)
  BY <1>4, HitStamps
<1>5. CASE FillInvalid(s, l, isW, ts)
  <2>1. PICK w \in InvalidWay(column[s]) :
          Install(s, l, isW, ts, w, column, CCD, FALSE, TRUE)
    BY <1>1, <1>2, <1>5 DEF FillInvalid
  <2>2. w \in Ways /\ ~column[s][w].valid
    BY <2>1 DEF InvalidWay
  <2>3. \A v \in Ways : ~Holds(column[s], l, v)
    BY <1>1, <1>2, <1>3, <1>5, HitWayIsHolder DEF FillInvalid, SetAgrees
  <2>4. \A t \in Sockets, v \in Ways : SameStamp(column[t][v], caches[h][t][v])
    BY <1>2 DEF SameStamp
  <2>5. Stamps(s, l, ts, h, w)
    BY <1>1, <1>2, <1>3, <2>1, <2>2, <2>3, <2>4, InstallStamps
  <2>. QED
    BY <2>2, <2>5
<1>6. CASE EvictAndFill(s, l, isW, ts)
  <2>1. PICK w \in LruWay(column[s]) :
          \E o \in OwnerAfterEviction(CCD[column[s][w].tag], s) :
            Install(s, l, isW, ts, w,
                    EvictedColumn(column, column[s][w], CCD[column[s][w].tag], s, o),
                    [CCD EXCEPT ![column[s][w].tag] =
                       EvictedDirectory(column[s][w], CCD[column[s][w].tag], s, o)],
                    column[s][w].dirty,
                    EvictionAsserts(column[s][w], CCD[column[s][w].tag], s, o))
    BY <1>1, <1>2, <1>6 DEF EvictAndFill
  <2>2. w \in Ways /\ column[s][w].valid
    BY <1>1, <1>2, <1>6, <2>1 DEF EvictAndFill, LruWay
  <2>3. PICK e \in Entry : e = column[s][w]
    BY <2>2 DEF Column
  <2>4. PICK de : de = CCD[e.tag]
    OBVIOUS
  <2>5. PICK o \in OwnerAfterEviction(de, s) :
          Install(s, l, isW, ts, w, EvictedColumn(column, e, de, s, o),
                  [CCD EXCEPT ![e.tag] = EvictedDirectory(e, de, s, o)],
                  e.dirty, EvictionAsserts(e, de, s, o))
    BY <2>1, <2>3, <2>4
  <2>6. PICK col1, dir1 : /\ col1 = EvictedColumn(column, e, de, s, o)
                          /\ dir1 = [CCD EXCEPT ![e.tag] = EvictedDirectory(e, de, s, o)]
    OBVIOUS
  <2>7. col1 \in Column /\ \A t \in Sockets, v \in Ways : SameStamp(col1[t][v], caches[h][t][v])
    BY <1>2, <2>6, EvictionStamps
  <2>8. dir1 \in [Lines -> DirectoryEntry]
    <3>1. EvictedDirectory(e, de, s, o) \in DirectoryEntry
      BY <1>3, <2>2, <2>3, <2>4, <2>5, EvictionAgrees
    <3>. QED
      BY <1>3, <2>6, <3>1
  <2>9. \A v \in Ways : ~Holds(column[s], l, v)
    BY <1>1, <1>2, <1>3, <1>6, HitWayIsHolder DEF EvictAndFill, SetAgrees
  <2>10. Install(s, l, isW, ts, w, col1, dir1, e.dirty, EvictionAsserts(e, de, s, o))
    BY <2>5, <2>6
  <2>11. Stamps(s, l, ts, h, w)
    BY <1>1, <1>2, <2>1, <2>2, <2>7, <2>8, <2>9, <2>10, InstallStamps
  <2>. QED
    BY <2>2, <2>11
<1>. QED
  BY <1>4, <1>5, <1>6 DEF Access

-----------------------------------------------------------------------------
(* Eviction order.  Of two lines that a thread was the last of its socket  *)
(* to use, the one used later has the greater or the same count: the       *)
(* counts of a trace never decrease, so what is left of it has counts no   *)
(* smaller than those used.                                                *)

\* The k-th word of the trace is the count of an access
AccessAt(trace, k) ==
    /\ k \in 1 .. Len(trace)
    /\ k % 2 = 0
    /\ trace[k - 1].kind = "address"

\* A thread's instruction count never decreases along its trace
CountsGrow(trace) ==
    \A j, k \in Nat :
        AccessAt(trace, j) /\ AccessAt(trace, k) /\ j <= k => trace[j].n <= trace[k].n

Use == [at : Nat, by : Threads, count : Timestamps, traced : BOOLEAN]

\* The timestamp of an entry is the count of its line's last use
Stamped ==
    \A s \in Sockets, l \in Lines, w \in Ways :
        Holds(caches[SetIndex(l)][s], l, w)
        => caches[SetIndex(l)][s][w].ts = lastUse[s][l].count

UsesInOrder ==
    \A s \in Sockets, l, m \in Lines :
        /\ lastUse[s][l].at <= simstats.total_m_insts
        /\ SameThread(s, l, m) /\ lastUse[s][m].at < lastUse[s][l].at
           => lastUse[s][m].count <= lastUse[s][l].count

\* i has used no line at a count greater than n
UsedUpTo(i, n) ==
    \A s \in Sockets, l \in Lines :
        lastUse[s][l].traced /\ lastUse[s][l].by = i => lastUse[s][l].count <= n

CountsAhead ==
    \A i \in Threads :
        /\ CountsGrow(rest[i])
        /\ \A k \in Nat : AccessAt(rest[i], k) => UsedUpTo(i, rest[i][k].n)

UInv ==
    /\ IInv
    /\ RestOK
    /\ lastUse \in [Sockets -> [Lines -> Use]]
    /\ Stamped
    /\ UsesInOrder
    /\ CountsAhead

\* Reading an item leaves counts that do not decrease, each of which was ahead.
LEMMA DropKeepsCounts ==
    ASSUME NEW trace \in Seq(Words), CountsGrow(trace)
    PROVE  /\ CountsGrow(Drop(trace))
           /\ \A k \in Nat : AccessAt(Drop(trace), k) =>
                 AccessAt(trace, k + 2) /\ Drop(trace)[k].n = trace[k + 2].n
<1>1. PICK rem \in Seq(Words) :
        /\ rem = Drop(trace)
        /\ Len(rem) = IF 3 <= Len(trace) THEN Len(trace) - 2 ELSE 0
        /\ \A k \in 1 .. Len(rem) : rem[k] = trace[k + 2]
  BY DropEffect
<1>2. ASSUME NEW k \in Nat, AccessAt(rem, k)
      PROVE  AccessAt(trace, k + 2) /\ rem[k].n = trace[k + 2].n
  <2>1. k \in 1 .. Len(rem) /\ k % 2 = 0 /\ rem[k - 1].kind = "address"
    BY <1>2 DEF AccessAt
  <2>2. k - 1 \in 1 .. Len(rem)
    BY <2>1
  <2>3. rem[k] = trace[k + 2] /\ rem[k - 1] = trace[(k - 1) + 2]
    BY <1>1, <2>1, <2>2
  <2>4. /\ k + 2 \in 1 .. Len(trace) /\ (k + 2) % 2 = 0
        /\ (k - 1) + 2 = (k + 2) - 1
    BY <1>1, <2>1
  <2>. QED
    BY <2>1, <2>3, <2>4 DEF AccessAt
<1>3. CountsGrow(rem)
  <2>. SUFFICES ASSUME NEW j \in Nat, NEW k \in Nat,
                       AccessAt(rem, j), AccessAt(rem, k), j <= k
                PROVE  rem[j].n <= rem[k].n
    BY DEF CountsGrow
  <2>1. j + 2 \in Nat /\ k + 2 \in Nat /\ j + 2 <= k + 2
    OBVIOUS
  <2>. QED
    BY <1>2, <2>1 DEF CountsGrow
<1>. QED
  BY <1>1, <1>2, <1>3

\* The history variable after a use
LEMMA UsedEffect ==
    ASSUME lastUse \in [Sockets -> [Lines -> Use]], TypeOK',
           NEW i \in Threads, NEW l \in Lines, NEW n \in Timestamps,
           NEW traced \in BOOLEAN, Used(i, l, n, traced)
    PROVE  /\ lastUse' \in [Sockets -> [Lines -> Use]]
           /\ lastUse'[SocketOf(i)][l] =
                [at |-> simstats'.total_m_insts, by |-> i, count |-> n, traced |-> traced]
           /\ \A s \in Sockets, m \in Lines :
                 s # SocketOf(i) \/ m # l => lastUse'[s][m] = lastUse[s][m]
<1>1. PICK s0 \in Sockets : s0 = SocketOf(i)
  BY SocketOfType
<1>2. PICK u \in Use :
        u = [at |-> simstats'.total_m_insts, by |-> i, count |-> n, traced |-> traced]
  <2>1. simstats'.total_m_insts \in Nat
    BY DEF TypeOK, Stats
  <2>. QED
    BY <2>1 DEF Use
<1>3. PICK row : row = [lastUse[s0] EXCEPT ![l] = u]
  OBVIOUS
<1>4. row \in [Lines -> Use] /\ row[l] = u /\ \A m \in Lines : m # l => row[m] = lastUse[s0][m]
  BY <1>3
<1>5. lastUse' = [lastUse EXCEPT ![s0] = row]
  BY <1>1, <1>2, <1>3 DEF Used
<1>. QED
  BY <1>1, <1>2, <1>4, <1>5

\* The stamped entry carries the count of the use, and the others are stamped
\* as before.
LEMMA StampsKeep ==
    ASSUME Stamped, TypeOK', lastUse \in [Sockets -> [Lines -> Use]],
           NEW i \in Threads, NEW l \in Lines, NEW n \in Timestamps,
           NEW traced \in BOOLEAN, Used(i, l, n, traced),
           NEW h \in Sets, NEW w \in Ways, Stamps(SocketOf(i), l, n, h, w)
    PROVE  Stamped'
<1>1. PICK s0 \in Sockets : s0 = SocketOf(i)
  BY SocketOfType
<1>2. /\ h = SetIndex(l)
      /\ \A g \in Sets : g # h => caches'[g] = caches[g]
      /\ KeepsStamps([caches'[h] EXCEPT ![s0] = caches[h][s0]], caches[h])
      /\ \A v \in Ways : v # w => /\ SameStamp(caches'[h][s0][v], caches[h][s0][v])
                                  /\ ~Holds(caches[h][s0], l, v)
      /\ Holds(caches'[h][s0], l, w) /\ caches'[h][s0][w].ts = n
  BY <1>1 DEF Stamps
<1>3. /\ lastUse'[s0][l].count = n
      /\ \A s \in Sockets, m \in Lines :
            s # s0 \/ m # l => lastUse'[s][m] = lastUse[s][m]
  <2>1. /\ lastUse'[SocketOf(i)][l] =
             [at |-> simstats'.total_m_insts, by |-> i, count |-> n, traced |-> traced]
        /\ \A s \in Sockets, m \in Lines :
              s # SocketOf(i) \/ m # l => lastUse'[s][m] = lastUse[s][m]
    BY UsedEffect
  <2>. QED
    BY <1>1, <2>1
<1>. SUFFICES ASSUME NEW s \in Sockets, NEW m \in Lines, NEW v \in Ways,
                     Holds(caches'[SetIndex(m)][s], m, v)
              PROVE  caches'[SetIndex(m)][s][v].ts = lastUse'[s][m].count
  BY DEF Stamped
<1>4. PICK g \in Sets : g = SetIndex(m)
  BY SetIndexType
<1>5. Holds(caches[g][s], m, v) => caches[g][s][v].ts = lastUse[s][m].count
  BY <1>4 DEF Stamped
<1>6. DOMAIN caches'[h] = Sockets
  BY DEF TypeOK
<1>7. CASE g # h
  BY <1>2, <1>3, <1>4, <1>5, <1>7
<1>8. CASE g = h /\ s = s0 /\ v = w
  <2>1. m = l
    BY <1>2, <1>4, <1>8 DEF Holds
  <2>. QED
    BY <1>2, <1>3, <1>4, <1>8, <2>1
<1>9. CASE g = h /\ s = s0 /\ v # w
  <2>1. /\ SameStamp(caches'[h][s0][v], caches[h][s0][v])
        /\ ~Holds(caches[h][s0], l, v)
    BY <1>2, <1>9
  <2>2. Holds(caches[g][s], m, v)
    BY <1>4, <1>9, <2>1 DEF SameStamp, Holds
  <2>3. m # l
    BY <1>9, <2>1, <2>2
  <2>. QED
    BY <1>3, <1>4, <1>5, <1>9, <2>1, <2>2, <2>3 DEF SameStamp
<1>10. CASE g = h /\ s # s0
  <2>1. PICK col : col = [caches'[h] EXCEPT ![s0] = caches[h][s0]]
    OBVIOUS
  <2>2. col[s] = caches'[h][s]
    BY <1>10, <1>6, <2>1
  <2>3. col[s][v].valid => SameStamp(col[s][v], caches[h][s][v])
    BY <1>2, <2>1 DEF KeepsStamps
  <2>. QED
    BY <1>3, <1>4, <1>5, <1>10, <2>2, <2>3 DEF SameStamp, Holds
<1>. QED
  BY <1>7, <1>8, <1>9, <1>10

\* A use at a count that no earlier use of the thread exceeds is in order.
LEMMA OrderKept ==
    ASSUME UsesInOrder, TypeOK, TypeOK', lastUse \in [Sockets -> [Lines -> Use]],
           simstats'.total_m_insts = simstats.total_m_insts + 1,
           NEW i \in Threads, NEW l \in Lines, NEW n \in Timestamps,
           NEW traced \in BOOLEAN, Used(i, l, n, traced),
           traced => UsedUpTo(i, n)
    PROVE  UsesInOrder'
<1>1. PICK s0 \in Sockets : s0 = SocketOf(i)
  BY SocketOfType
<1>2. PICK total \in Nat : total = simstats.total_m_insts
  BY DEF TypeOK, Stats
<1>3. PICK u : u = [at |-> total + 1, by |-> i, count |-> n, traced |-> traced]
  OBVIOUS
<1>4. /\ lastUse' \in [Sockets -> [Lines -> Use]]
      /\ lastUse'[s0][l] = u
      /\ \A s \in Sockets, m \in Lines :
            s # s0 \/ m # l => lastUse'[s][m] = lastUse[s][m]
  <2>1. /\ lastUse' \in [Sockets -> [Lines -> Use]]
        /\ lastUse'[SocketOf(i)][l] =
             [at |-> simstats'.total_m_insts, by |-> i, count |-> n, traced |-> traced]
        /\ \A s \in Sockets, m \in Lines :
              s # SocketOf(i) \/ m # l => lastUse'[s][m] = lastUse[s][m]
    BY UsedEffect
  <2>. QED
    BY <1>1, <1>2, <1>3, <2>1
<1>5. /\ u.at = total + 1 /\ u.by = i /\ u.count = n /\ u.traced = traced
      /\ n \in Nat
  BY <1>3, ConstantsAssumption
<1>6. ASSUME NEW s \in Sockets, NEW m \in Lines
      PROVE  /\ lastUse[s][m].at \in Nat /\ lastUse[s][m].count \in Nat
             /\ lastUse[s][m].at <= total
  BY <1>2, ConstantsAssumption DEF UsesInOrder, Use
<1>. SUFFICES ASSUME NEW s \in Sockets, NEW a \in Lines, NEW b \in Lines
              PROVE  /\ lastUse'[s][a].at <= simstats'.total_m_insts
                     /\ /\ SameThread(s, a, b)'
                        /\ lastUse'[s][b].at < lastUse'[s][a].at
                        => lastUse'[s][b].count <= lastUse'[s][a].count
  BY DEF UsesInOrder
<1>7. simstats'.total_m_insts = total + 1
  BY <1>2
<1>8. CASE s # s0 \/ (a # l /\ b # l)
  <2>1. lastUse'[s][a] = lastUse[s][a] /\ lastUse'[s][b] = lastUse[s][b]
    BY <1>4, <1>8
  <2>2. SameThread(s, a, b)' => SameThread(s, a, b)
    BY <2>1 DEF SameThread
  <2>3. SameThread(s, a, b) /\ lastUse[s][b].at < lastUse[s][a].at
        => lastUse[s][b].count <= lastUse[s][a].count
    BY DEF UsesInOrder
  <2>4. lastUse[s][a].at \in Nat /\ lastUse[s][a].at <= total
    BY <1>6
  <2>. QED
    BY <1>7, <2>1, <2>2, <2>3, <2>4
<1>9. CASE s = s0 /\ a = l /\ b # l
  <2>1. lastUse'[s][a] = u /\ lastUse'[s][b] = lastUse[s][b]
    BY <1>4, <1>9
  <2>2. SameThread(s, a, b)' => traced /\ lastUse[s][b].traced /\ lastUse[s][b].by = i
    BY <1>5, <2>1 DEF SameThread
  <2>3. SameThread(s, a, b)' => lastUse[s][b].count <= n
    BY <2>2 DEF UsedUpTo
  <2>. QED
    BY <1>5, <1>7, <2>1, <2>3
<1>10. CASE s = s0 /\ a # l /\ b = l
  <2>1. lastUse'[s][a] = lastUse[s][a] /\ lastUse'[s][b] = u
    BY <1>4, <1>10
  <2>2. lastUse[s][a].at \in Nat /\ lastUse[s][a].at <= total
    BY <1>6
  <2>. QED
    BY <1>5, <1>7, <2>1, <2>2
<1>11. CASE s = s0 /\ a = l /\ b = l
  <2>1. lastUse'[s][a] = u /\ lastUse'[s][b] = u
    BY <1>4, <1>11
  <2>. QED
    BY <1>5, <1>7, <2>1
<1>. QED
  BY <1>8, <1>9, <1>10, <1>11

\* What thread j has ahead in rest' are counts that it has not passed
AheadOf(j) ==
    /\ CountsGrow(rest'[j])
    /\ \A k \in Nat : AccessAt(rest'[j], k) => UsedUpTo(j, rest'[j][k].n)

\* Reading an item leaves ahead of each thread only counts that it had not
\* passed, and that do not precede the item's.
LEMMA DropKeepsAhead ==
    ASSUME CountsAhead, RestOK, NEW i \in Threads,
           rest' = [rest EXCEPT ![i] = Drop(@)]
    PROVE  /\ \A j \in Threads : AheadOf(j)
           /\ \A k \in Nat : AccessAt(rest[i], 2) /\ AccessAt(rest'[i], k)
                 => rest[i][2].n <= rest'[i][k].n
<1>1. rest \in [Threads -> Seq(Words)] /\ rest[i] \in Seq(Words) /\ CountsGrow(rest[i])
  BY DEF RestOK, CountsAhead
<1>2. rest'[i] = Drop(rest[i])
  BY <1>1
<1>3. /\ CountsGrow(rest'[i])
      /\ \A k \in Nat : AccessAt(rest'[i], k) =>
            AccessAt(rest[i], k + 2) /\ rest'[i][k].n = rest[i][k + 2].n
  BY <1>1, <1>2, DropKeepsCounts
<1>4. ASSUME NEW k \in Nat, AccessAt(rest'[i], k)
      PROVE  /\ UsedUpTo(i, rest'[i][k].n)
             /\ AccessAt(rest[i], 2) => rest[i][2].n <= rest'[i][k].n
  <2>1. k + 2 \in Nat /\ 2 \in Nat /\ 2 <= k + 2
    OBVIOUS
  <2>2. AccessAt(rest[i], k + 2) /\ rest'[i][k].n = rest[i][k + 2].n
    BY <1>3, <1>4
  <2>3. UsedUpTo(i, rest[i][k + 2].n)
    BY <2>1, <2>2 DEF CountsAhead
  <2>4. AccessAt(rest[i], 2) => rest[i][2].n <= rest[i][k + 2].n
    BY <1>1, <2>1, <2>2 DEF CountsGrow
  <2>. QED
    BY <2>2, <2>3, <2>4
<1>5. ASSUME NEW j \in Threads
      PROVE  AheadOf(j)
  <2>1. CASE j # i
    <3>1. rest'[j] = rest[j]
      BY <1>1, <2>1
    <3>. QED
      BY <3>1 DEF CountsAhead, AheadOf
  <2>2. CASE j = i
    BY <1>3, <1>4, <2>2 DEF AheadOf
  <2>. QED
    BY <2>1, <2>2
<1>. QED
  BY <1>4, <1>5

\* The counts that are ahead of a thread after it used a line at count n
LEMMA UseKeepsAhead ==
    ASSUME lastUse \in [Sockets -> [Lines -> Use]], TypeOK',
           NEW i \in Threads, NEW l \in Lines, NEW n \in Timestamps,
           NEW traced \in BOOLEAN, Used(i, l, n, traced),
           \A j \in Threads : AheadOf(j),
           \A k \in Nat : traced /\ AccessAt(rest'[i], k) => n <= rest'[i][k].n
    PROVE  CountsAhead'
<1>1. PICK s0 \in Sockets : s0 = SocketOf(i)
  BY SocketOfType
<1>2. PICK u : /\ u = lastUse'[s0][l]
               /\ u.by = i /\ u.count = n /\ u.traced = traced
               /\ \A s \in Sockets, m \in Lines :
                     s # s0 \/ m # l => lastUse'[s][m] = lastUse[s][m]
  <2>1. /\ lastUse'[SocketOf(i)][l] =
             [at |-> simstats'.total_m_insts, by |-> i, count |-> n, traced |-> traced]
        /\ \A s \in Sockets, m \in Lines :
              s # SocketOf(i) \/ m # l => lastUse'[s][m] = lastUse[s][m]
    BY UsedEffect
  <2>. QED
    BY <1>1, <2>1
<1>. SUFFICES ASSUME NEW j \in Threads
              PROVE  /\ CountsGrow(rest'[j])
                     /\ \A k \in Nat : AccessAt(rest'[j], k) =>
                          \A s \in Sockets, m \in Lines :
                             lastUse'[s][m].traced /\ lastUse'[s][m].by = j
                             => lastUse'[s][m].count <= rest'[j][k].n
  BY DEF CountsAhead, UsedUpTo
<1>3. CountsGrow(rest'[j])
  BY DEF AheadOf
<1>4. ASSUME NEW k \in Nat, AccessAt(rest'[j], k), NEW s \in Sockets, NEW m \in Lines,
             lastUse'[s][m].traced, lastUse'[s][m].by = j
      PROVE  lastUse'[s][m].count <= rest'[j][k].n
  <2>1. CASE s = s0 /\ m = l
    BY <1>2, <1>4, <2>1
  <2>2. CASE s # s0 \/ m # l
    <3>1. lastUse'[s][m] = lastUse[s][m]
      BY <1>2, <2>2
    <3>. QED
      BY <1>4, <3>1 DEF AheadOf, UsedUpTo
  <2>. QED
    BY <2>1, <2>2
<1>. QED
  BY <1>3, <1>4

\* One access of thread i keeps everything but what is left of the traces.
LEMMA UseKeepsUses ==
    ASSUME IInv, IInv', lastUse \in [Sockets -> [Lines -> Use]], Stamped, UsesInOrder,
           NEW i \in Threads, NEW l \in Lines, NEW isW \in BOOLEAN,
           NEW n \in Timestamps, NEW traced \in BOOLEAN,
           Access(SocketOf(i), l, isW, n), Used(i, l, n, traced),
           traced => UsedUpTo(i, n)
    PROVE  lastUse' \in [Sockets -> [Lines -> Use]] /\ Stamped' /\ UsesInOrder'
<1>1. TypeOK /\ TypeOK' /\ simstats' \in Stats
  BY DEF IInv, TypeOK
<1>2. SocketOf(i) \in Sockets
  BY SocketOfType
<1>3. PICK h \in Sets, w \in Ways : Stamps(SocketOf(i), l, n, h, w)
  BY <1>2, AccessStamps
<1>4. simstats'.total_m_insts = simstats.total_m_insts + 1
  BY <1>3 DEF Stamps
<1>5. Stamped'
  BY <1>1, <1>3, StampsKeep
<1>6. UsesInOrder'
  BY <1>1, <1>4, OrderKept
<1>7. lastUse' \in [Sockets -> [Lines -> Use]]
  BY <1>1, UsedEffect
<1>. QED
  BY <1>5, <1>6, <1>7

LEMMA NextKeepsUInv == UInv /\ [MainNext]_mainVars => UInv'
<1>. SUFFICES ASSUME UInv, [MainNext]_mainVars
              PROVE  UInv'
  OBVIOUS
<1>1. CASE UNCHANGED mainVars
  <2>1. UNCHANGED <<caches, CCD, ccdKeys, simstats, aborted, rest, lastUse>>
    BY <1>1 DEF mainVars, vars, loopVars
  <2>2. IInv'
    BY <2>1, NextKeepsIInv DEF UInv, vars
  <2>3. RestOK' /\ lastUse' \in [Sockets -> [Lines -> Use]]
    BY <2>1 DEF UInv, RestOK
  <2>4. Stamped' /\ UsesInOrder' /\ CountsAhead'
    BY <2>1 DEF UInv, Stamped, UsesInOrder, CountsAhead, UsedUpTo, SameThread
  <2>. QED
    BY <2>2, <2>3, <2>4 DEF UInv
<1>2. CASE MainNext
  <2>1. RestOK' /\ IInv'
    BY <1>2, PassIsAccess, NextKeepsIInv DEF UInv
  <2>2. /\ IInv /\ RestOK /\ lastUse \in [Sockets -> [Lines -> Use]]
        /\ Stamped /\ UsesInOrder /\ CountsAhead
        /\ TypeOK'
    BY <2>1 DEF UInv, IInv
  <2>3. ASSUME NEW i \in Threads, ReadMark(i)
        PROVE  UInv'
    <3>1. /\ rest' = [rest EXCEPT ![i] = Drop(@)]
          /\ UNCHANGED <<caches, simstats, lastUse>>
      BY <2>3 DEF ReadMark, vars
    <3>2. \A j \in Threads : AheadOf(j)
      BY <2>2, <3>1, DropKeepsAhead
    <3>3. CountsAhead'
      BY <3>1, <3>2 DEF CountsAhead, AheadOf, UsedUpTo
    <3>4. lastUse' \in [Sockets -> [Lines -> Use]] /\ Stamped' /\ UsesInOrder'
      BY <2>2, <3>1 DEF Stamped, UsesInOrder, SameThread
    <3>. QED
      BY <2>1, <3>3, <3>4 DEF UInv
  <2>4. ASSUME NEW i \in Threads, ReadAccess(i)
        PROVE  UInv'
    <3>1. /\ rest[i] \in Seq(Words) /\ WellFormed(rest[i])
          /\ rest[i] # <<>> /\ rest[i][1].kind = "address"
      BY <2>2, <2>4 DEF ReadAccess, RestOK
    <3>2. PICK l \in Lines, n \in Timestamps :
            l = rest[i][1].line /\ n = Second(rest[i])
      BY <3>1, AccessWordType
    <3>3. PICK isW \in BOOLEAN : isW = rest[i][1].isW
      BY <3>1, AccessWordType
    <3>4. PICK traced \in BOOLEAN : traced = (Len(rest[i]) > 1)
      <4>1. (Len(rest[i]) > 1) \in BOOLEAN
        OBVIOUS
      <4>. QED
        BY <4>1, Zenon
    <3>5. /\ Access(SocketOf(i), l, isW, n)
          /\ Used(i, l, n, traced)
          /\ rest' = [rest EXCEPT ![i] = Drop(@)]
      BY <2>4, <3>2, <3>3, <3>4 DEF ReadAccess
    <3>6. traced => AccessAt(rest[i], 2) /\ n = rest[i][2].n
      <4>1. CASE Len(rest[i]) > 1
        <5>1. 2 \in 1 .. Len(rest[i]) /\ 2 % 2 = 0 /\ 2 - 1 = 1
          BY <3>1, <4>1
        <5>. QED
          BY <3>1, <3>2, <4>1, <5>1 DEF AccessAt, Second
      <4>2. CASE ~(Len(rest[i]) > 1)
        BY <3>4, <4>2
      <4>. QED
        BY <4>1, <4>2
    <3>7. traced => UsedUpTo(i, n)
      BY <2>2, <3>6 DEF CountsAhead
    <3>8. lastUse' \in [Sockets -> [Lines -> Use]] /\ Stamped' /\ UsesInOrder'
      BY <2>1, <2>2, <3>5, <3>7, UseKeepsUses
    <3>9. /\ \A j \in Threads : AheadOf(j)
          /\ \A k \in Nat : traced /\ AccessAt(rest'[i], k) => n <= rest'[i][k].n
      BY <2>2, <3>5, <3>6, DropKeepsAhead
    <3>10. CountsAhead'
      BY <2>2, <3>5, <3>9, UseKeepsAhead
    <3>. QED
      BY <2>1, <3>8, <3>10 DEF UInv
  <2>5. ASSUME NEW i \in Threads, ReadPastEnd(i)
        PROVE  UInv'
    <3>1. /\ rest' = rest /\ Access(SocketOf(i), 0, FALSE, 0)
          /\ Used(i, 0, 0, FALSE)
      BY <2>5 DEF ReadPastEnd
    <3>2. 0 \in Lines /\ 0 \in Timestamps /\ FALSE \in BOOLEAN
      BY MainAssumption, ConstantsAssumption
    <3>3. lastUse' \in [Sockets -> [Lines -> Use]] /\ Stamped' /\ UsesInOrder'
      BY <2>1, <2>2, <3>1, <3>2, UseKeepsUses
    <3>4. \A j \in Threads : AheadOf(j)
      BY <2>2, <3>1 DEF CountsAhead, AheadOf
    <3>5. CountsAhead'
      BY <2>2, <3>1, <3>2, <3>4, UseKeepsAhead
    <3>. QED
      BY <2>1, <3>3, <3>5 DEF UInv
  <2>. QED
    BY <1>2, <2>3, <2>4, <2>5 DEF MainNext
<1>. QED
  BY <1>1, <1>2

\* The line that an access drops had the least count of those in its set.
LEMMA DroppedIsOldest ==
    ASSUME IInv, IInv', Stamped, NEW s \in Sockets, NEW l0, NEW n,
           NEW h \in Sets, NEW w \in Ways, Stamps(s, l0, n, h, w),
           NEW l \in DroppedBy(s), NEW m \in HeldWith(s, l)
    PROVE  lastUse[s][l].count <= lastUse[s][m].count
<1>1. PICK g \in Sets : g = SetIndex(l)
  <2>1. l \in Lines
    BY DEF DroppedBy
  <2>. QED
    BY <2>1, SetIndexType
<1>2. /\ l \in Lines /\ m \in Lines /\ SetIndex(m) = g
      /\ HitWay(caches[g][s], l) # {} /\ HitWay(caches'[g][s], l) = {}
      /\ HitWay(caches[g][s], m) # {}
  BY <1>1 DEF DroppedBy, HeldWith
<1>3. PICK x \in Ways, y \in Ways : Holds(caches[g][s], l, x) /\ Holds(caches[g][s], m, y)
  BY <1>2 DEF HitWay
<1>4. \A v \in Ways : ~Holds(caches'[g][s], l, v)
  <2>1. UniqueIn(caches'[g][s], l)
    BY <1>1, <1>2 DEF IInv, SetAgrees
  <2>. QED
    BY <1>2, <2>1, HitWayIsHolder
<1>5. /\ caches[g][s][x].ts = lastUse[s][l].count
      /\ caches[g][s][y].ts = lastUse[s][m].count
  BY <1>1, <1>2, <1>3 DEF Stamped
<1>6. g = h
  BY <1>1, <1>3, <1>4 DEF Stamps
<1>7. x = w
  BY <1>3, <1>4, <1>6 DEF Stamps, SameStamp, Holds
<1>8. ~Holds(caches[h][s], l0, w)
  <2>1. l0 # l
    BY <1>4, <1>6, <1>7 DEF Stamps
  <2>. QED
    BY <1>3, <1>6, <1>7, <2>1 DEF Holds
<1>9. w \in LruWay(caches[h][s])
  BY <1>3, <1>6, <1>7, <1>8 DEF Stamps, Holds
<1>10. caches[g][s][x].ts <= caches[g][s][y].ts
  BY <1>3, <1>6, <1>7, <1>9 DEF LruWay
<1>. QED
  BY <1>5, <1>10

\* What EvictsThreadsOldest says of a line l dropped while m is held
OldestOf(s, l, m) ==
    SameThread(s, l, m) =>
        \/ lastUse[s][l].at <= lastUse[s][m].at
        \/ lastUse[s][l].count = lastUse[s][m].count

\* No step drops a line that its thread used at a later count than another one.
LEMMA PassEvictsOldest ==
    ASSUME UInv, IInv', [MainNext]_mainVars,
           NEW s, s = SocketOf(turn), NEW l \in DroppedBy(s), NEW m \in HeldWith(s, l)
    PROVE  OldestOf(s, l, m)
<1>1. l \in Lines /\ m \in Lines /\ caches' # caches
  BY DEF DroppedBy, HeldWith
<1>2. PICK i \in Threads : i = turn /\ (ReadAccess(i) \/ ReadPastEnd(i))
  <2>1. MainNext
    BY <1>1 DEF mainVars, vars
  <2>2. PICK i \in Threads : ReadMark(i) \/ ReadAccess(i) \/ ReadPastEnd(i)
    BY <2>1 DEF MainNext
  <2>3. ~ReadMark(i)
    BY <1>1 DEF ReadMark, vars
  <2>4. i = turn
    BY <2>2, <2>3 DEF ReadAccess, ReadPastEnd, Reads
  <2>. QED
    BY <2>2, <2>3, <2>4
<1>3. s \in Sockets /\ s = SocketOf(i)
  BY <1>2, SocketOfType
<1>4. PICK l0 \in Lines, isW \in BOOLEAN, n \in Timestamps : Access(s, l0, isW, n)
  <2>1. CASE ReadAccess(i)
    <3>1. /\ rest[i] \in Seq(Words) /\ WellFormed(rest[i])
          /\ rest[i] # <<>> /\ rest[i][1].kind = "address"
      BY <2>1 DEF ReadAccess, UInv, RestOK
    <3>2. /\ rest[i][1].line \in Lines /\ rest[i][1].isW \in BOOLEAN
          /\ Second(rest[i]) \in Timestamps
      BY <3>1, AccessWordType
    <3>. QED
      BY <1>3, <2>1, <3>2 DEF ReadAccess
  <2>2. CASE ReadPastEnd(i)
    BY <1>3, <2>2, MainAssumption, ConstantsAssumption DEF ReadPastEnd
  <2>. QED
    BY <1>2, <2>1, <2>2
<1>5. IInv /\ Stamped /\ UsesInOrder /\ lastUse \in [Sockets -> [Lines -> Use]]
  BY DEF UInv
<1>6. PICK h \in Sets, w \in Ways : Stamps(s, l0, n, h, w)
  BY <1>3, <1>4, <1>5, AccessStamps
<1>7. lastUse[s][l].count <= lastUse[s][m].count
  BY <1>3, <1>5, <1>6, DroppedIsOldest
<1>8. /\ lastUse[s][l].at \in Nat /\ lastUse[s][m].at \in Nat
      /\ lastUse[s][l].count \in Nat /\ lastUse[s][m].count \in Nat
  BY <1>1, <1>3, <1>5, ConstantsAssumption DEF Use
<1>9. SameThread(s, l, m) /\ lastUse[s][m].at < lastUse[s][l].at
      => lastUse[s][m].count <= lastUse[s][l].count
  BY <1>1, <1>3, <1>5 DEF UsesInOrder
<1>. QED
  BY <1>7, <1>8, <1>9 DEF OldestOf

\* The thread's counts never decrease in any of the traces
CountsNeverDecrease == \A t \in Traces, i \in Threads : CountsGrow(t[i])

LEMMA InitUInv == CountsNeverDecrease /\ MainInit => UInv
<1>. SUFFICES ASSUME CountsNeverDecrease, MainInit
              PROVE  UInv
  OBVIOUS
<1>1. Init /\ rest \in Traces
  BY DEF MainInit
<1>2. IInv
  BY <1>1, InitIInv
<1>3. RestOK
  BY <1>1, MainAssumption DEF RestOK
<1>4. [at |-> 0, by |-> 0, count |-> 0, traced |-> FALSE] \in Use
  BY MainAssumption, ConstantsAssumption DEF Use, Threads
<1>5. PICK u \in Use : u = [at |-> 0, by |-> 0, count |-> 0, traced |-> FALSE]
  BY <1>4
<1>6. lastUse = [s \in Sockets |-> [l \in Lines |-> u]]
  BY <1>5 DEF MainInit
<1>7. lastUse \in [Sockets -> [Lines -> Use]]
  BY <1>6
<1>8. \A s \in Sockets, l \in Lines : lastUse[s][l].at = 0 /\ lastUse[s][l].traced = FALSE
  BY <1>5, <1>6
<1>9. Stamped
  <2>. SUFFICES ASSUME NEW s \in Sockets, NEW l \in Lines, NEW w \in Ways
                PROVE  ~Holds(caches[SetIndex(l)][s], l, w)
    BY DEF Stamped
  <2>1. PICK h \in Sets : h = SetIndex(l)
    BY SetIndexType
  <2>2. ~caches[h][s][w].valid
    BY <1>1 DEF Init
  <2>. QED
    BY <2>1, <2>2 DEF Holds
<1>10. UsesInOrder
  <2>1. simstats.total_m_insts = 0
    BY <1>1 DEF Init
  <2>. QED
    BY <1>8, <2>1 DEF UsesInOrder, SameThread
<1>11. CountsAhead
  BY <1>1, <1>8 DEF CountsAhead, UsedUpTo, CountsNeverDecrease
<1>. QED
  BY <1>2, <1>3, <1>7, <1>9, <1>10, <1>11 DEF UInv

\* If no thread's instruction count decreases along its trace, which the tracer
\* sees to, access_cache evicts the lines of a thread in the order in which the
\* thread used them, up to those it used at the same instruction, however the
\* accesses of the threads that share the socket are interleaved with its own
\* and whatever another socket invalidates.
THEOREM ThreadsOldestEvicted ==
    ASSUME CountsNeverDecrease
    PROVE  MainSpec => EvictsThreadsOldest
<1>1. MainInit => UInv
  BY InitUInv
<1>2. UInv /\ [MainNext]_mainVars => UInv'
  BY NextKeepsUInv
<1>3. ASSUME UInv, UInv', [MainNext]_mainVars
      PROVE  LET uses == lastUse[SocketOf(turn)]
             IN \A l \in DroppedBy(SocketOf(turn)) : \A m \in HeldWith(SocketOf(turn), l) :
                   SameThread(SocketOf(turn), l, m) =>
                      uses[l].at <= uses[m].at \/ uses[l].count = uses[m].count
  <2>. SUFFICES ASSUME NEW l \in DroppedBy(SocketOf(turn)),
                       NEW m \in HeldWith(SocketOf(turn), l)
                PROVE  OldestOf(SocketOf(turn), l, m)
    BY DEF OldestOf
  <2>1. IInv'
    BY <1>3 DEF UInv
  <2>. QED
    BY <1>3, <2>1, PassEvictsOldest
<1>. QED
  BY <1>1, <1>2, <1>3, PTL DEF MainSpec, EvictsThreadsOldest

=============================================================================
