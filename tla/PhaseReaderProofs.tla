-------------------------- MODULE PhaseReaderProofs --------------------------
(***************************************************************************)
(* What the parallel reading of traces guarantees, for any number of       *)
(* traces of any length, phases and pages.  The threads never wait for     *)
(* each other inside a phase and end it at the first item at or past its   *)
(* end; that this item is the tracer's mark, in every trace, is what makes *)
(* the counts exact (FirstToEnd).                                          *)
(***************************************************************************)
EXTENDS PhaseReader, SumTheorems, FiniteSetTheorems, SequenceTheorems,
        WellFoundedInduction, TLAPS

-----------------------------------------------------------------------------
(* Traces that are divided by marks.                                       *)

LEMMA ItemFacts ==
    ASSUME NEW e \in Items
    PROVE  /\ TimeOf(e) \in Nat
           /\ IsMark(e) => e \in Mark /\ TimeOf(e) = e.mark
           /\ ~IsMark(e) => e \in Access /\ TimeOf(e) = e.ts
<1>1. CASE e \in Access
  <2>1. DOMAIN e = {"page", "rw", "ts"} /\ e.ts \in Nat
    BY <1>1 DEF Access
  <2>. QED
    BY <1>1, <2>1 DEF IsMark, TimeOf
<1>2. CASE e \in Mark
  <2>1. DOMAIN e = {"mark"} /\ e.mark \in Nat
    BY <1>2 DEF Mark
  <2>. QED
    BY <1>2, <2>1 DEF IsMark, TimeOf
<1>. QED
  BY <1>1, <1>2 DEF Items

\* A nonempty set of positions has a last one.
LEMMA LastPosition ==
    ASSUME NEW n \in Nat, NEW S \in SUBSET (1 .. n), S # {}
    PROVE  \E k \in S : \A m \in S : m <= k
<1>. DEFINE T == {n - k : k \in S}
            R == {ss \in Nat \X Nat : ss[1] < ss[2]}
<1>1. T \subseteq Nat /\ T # {}
  <2>1. \A k \in S : k \in Int /\ k <= n
    OBVIOUS
  <2>2. PICK e \in S : n - e \in T
    OBVIOUS
  <2>. QED
    BY <2>1, <2>2
<1>2. IsWellFoundedOn(R, Nat)
  BY NatLessThanWellFounded DEF OpToRel
<1>3. PICK y \in T : \A x \in T : ~ (<<x, y>> \in R)
  <2>. HIDE DEF T, R
  <2>. QED
    BY <1>1, <1>2, WFMin
<1>4. PICK k \in S : y = n - k
  BY <1>3
<1>5. \A m \in S : m <= k
  <2>. SUFFICES ASSUME NEW m \in S PROVE m <= k
    OBVIOUS
  <2>1. n - m \in T /\ n - m \in Nat /\ n - k \in Nat /\ m \in Int /\ k \in Int
    <3>1. m \in 1 .. n /\ k \in 1 .. n
      OBVIOUS
    <3>. QED
      BY <3>1
  <2>2. ~ (n - m < n - k)
    BY <1>3, <1>4, <2>1
  <2>. QED
    BY <2>1, <2>2
<1>. QED
  BY <1>5

\* The counts of a trace never fall.
LEMMA TimesGrow ==
    ASSUME NEW s \in Seq(Items), NEW c, NEW d, DividedByMarks(s, c, d),
           NEW n \in 1 .. Len(s), NEW m \in 1 .. n
    PROVE  TimeOf(s[m]) <= TimeOf(s[n])
<1>. DEFINE V == {k \in 1 .. n : ~ (TimeOf(s[k]) <= TimeOf(s[n]))}
<1>1. Len(s) \in Nat /\ n \in Nat /\ n <= Len(s)
  BY LenProperties
<1>2. \A k \in 1 .. Len(s) : s[k] \in Items /\ TimeOf(s[k]) \in Nat
  BY ElementOfSeq, ItemFacts
<1>3. SUFFICES V = {}
  OBVIOUS
<1>4. SUFFICES ASSUME V # {} PROVE FALSE
  OBVIOUS
<1>5. PICK k \in V : \A j \in V : j <= k
  <2>. HIDE DEF V
  <2>1. V \in SUBSET (1 .. n)
    BY DEF V
  <2>. QED
    BY <1>1, <1>4, <2>1, LastPosition
<1>6. k \in 1 .. n /\ ~ (TimeOf(s[k]) <= TimeOf(s[n]))
  BY <1>5
<1>7. k # n
  BY <1>1, <1>2, <1>6
<1>8. k + 1 \in 1 .. n /\ k + 1 \notin V /\ k \in 1 .. Len(s) - 1 /\ k + 1 \in 1 .. Len(s)
      /\ k \in 1 .. Len(s)
  BY <1>1, <1>5, <1>6, <1>7
<1>9. TimeOf(s[k + 1]) <= TimeOf(s[n])
  BY <1>8
<1>10. TimeOf(s[k]) <= TimeOf(s[k + 1])
  <2>1. IF IsMark(s[k + 1]) THEN TimeOf(s[k]) < s[k + 1].mark
                            ELSE TimeOf(s[k]) <= s[k + 1].ts
    BY <1>8 DEF DividedByMarks
  <2>. QED
    BY <1>2, <1>8, <2>1, ItemFacts
<1>. QED
  BY <1>1, <1>2, <1>6, <1>8, <1>9, <1>10

\* Before a mark the counts are smaller.
LEMMA LessBeforeMark ==
    ASSUME NEW s \in Seq(Items), NEW c, NEW d, DividedByMarks(s, c, d),
           NEW n \in 1 .. Len(s), IsMark(s[n]), NEW m \in 1 .. n - 1
    PROVE  TimeOf(s[m]) < s[n].mark
<1>1. Len(s) \in Nat
  BY LenProperties
<1>2. n - 1 \in 1 .. Len(s) - 1 /\ n - 1 \in 1 .. Len(s) /\ m \in 1 .. Len(s)
  BY <1>1
<1>3. TimeOf(s[n - 1]) < s[n].mark
  <2>1. (n - 1) + 1 = n
    OBVIOUS
  <2>. QED
    BY <1>2, <2>1 DEF DividedByMarks
<1>4. TimeOf(s[m]) <= TimeOf(s[n - 1])
  BY <1>2, TimesGrow
<1>5. TimeOf(s[m]) \in Nat /\ TimeOf(s[n - 1]) \in Nat /\ s[n].mark \in Nat
  <2>1. s[m] \in Items /\ s[n - 1] \in Items /\ s[n] \in Items
    BY <1>2, ElementOfSeq
  <2>. QED
    BY <2>1, ItemFacts DEF Mark
<1>. QED
  BY <1>3, <1>4, <1>5

\* In a trace with a mark at every multiple of d the first item at or past such a
\* multiple is its mark.
LEMMA FirstToEnd ==
    ASSUME NEW s \in Seq(Items), NEW d \in Nat \ {0},
           DividedByMarks(s, LastCount(s), d),
           NEW c \in Nat \ {0}, c % d = 0,
           NEW n \in 1 .. Len(s), TimeOf(s[n]) >= c,
           \A k \in 1 .. n - 1 : TimeOf(s[k]) < c
    PROVE  IsMark(s[n]) /\ s[n].mark = c
<1>1. Len(s) \in Nat /\ n \in Nat /\ n <= Len(s) /\ Len(s) \in 1 .. Len(s) /\ n \in 1 .. Len(s)
  BY LenProperties
<1>2. \A k \in 1 .. Len(s) : s[k] \in Items /\ TimeOf(s[k]) \in Nat
  BY ElementOfSeq, ItemFacts
<1>3. LastCount(s) = TimeOf(s[Len(s)]) /\ LastCount(s) >= c /\ LastCount(s) \in Nat
  <2>1. s # <<>>
    BY <1>1, EmptySeq
  <2>2. TimeOf(s[n]) <= TimeOf(s[Len(s)])
    BY <1>1, TimesGrow
  <2>3. LastCount(s) = TimeOf(s[Len(s)])
    BY <2>1 DEF LastCount
  <2>. QED
    BY <1>1, <1>2, <2>2, <2>3
<1>4. c \in {k \in 1 .. LastCount(s) : k % d = 0}
  BY <1>3
<1>5. c \in {s[k].mark : k \in {k \in DOMAIN s : IsMark(s[k])}}
  BY <1>4 DEF DividedByMarks
<1>6. PICK m \in 1 .. Len(s) : IsMark(s[m]) /\ s[m].mark = c
  <2>1. DOMAIN s = 1 .. Len(s)
    BY LenProperties
  <2>. QED
    BY <1>5, <2>1
<1>7. TimeOf(s[m]) = c
  BY <1>2, <1>6, ItemFacts
<1>8. ~ (m < n)
  <2>. SUFFICES ASSUME m < n PROVE FALSE
    OBVIOUS
  <2>1. m \in 1 .. n - 1
    BY <1>1
  <2>. QED
    BY <1>2, <1>7, <2>1
<1>9. ~ (n < m)
  <2>. SUFFICES ASSUME n < m PROVE FALSE
    OBVIOUS
  <2>1. n \in 1 .. m - 1
    BY <1>1
  <2>2. TimeOf(s[n]) < c
    BY <1>6, <2>1, LessBeforeMark
  <2>. QED
    BY <1>1, <1>2, <2>2
<1>10. m = n
  BY <1>1, <1>8, <1>9
<1>. QED
  BY <1>6, <1>10

-----------------------------------------------------------------------------
(* The inductive invariant.                                                *)

\* How many items of its trace a thread has read
At(i) == Len(traces[i]) - Len(rest[i])

RestOfTrace(i) ==
    /\ Len(rest[i]) <= Len(traces[i])
    /\ \A m \in 1 .. Len(rest[i]) : rest[i][m] = traces[i][At(i) + m]
    /\ i \in cut_read => rest[i] = <<>>

\* The accesses of the phase among the first n items
PhaseUpTo(i, n, k, p) == {m \in InPhase(i, k, p) : m <= n}

\* An access of kind k to page p is cut at the end of the file
CutIs(i, k, p) == cut[i] = [page |-> p, rw |-> k]

\* Their number among what a thread has read, the one that is cut included
ReadOf(i, k, p) ==
    IF i \in cut_read /\ CutIs(i, k, p)
    THEN Cardinality(PhaseUpTo(i, At(i), k, p)) + 1
    ELSE Cardinality(PhaseUpTo(i, At(i), k, p))

\* A thread has counted what it has read of the phase, and what it has read is
\* short of the phase's end until it meets the mark of it, or the end of the trace
Reading(i) ==
    /\ pc[i] = "read" => \A m \in 1 .. At(i) : TimeOf(traces[i][m]) < phase_end_cycle
    /\ pc[i] # "read" =>
          \/ /\ At(i) = Len(traces[i]) /\ any_trace_done
             /\ cut[i] = NoWord \/ i \in cut_read
             /\ \A m \in 1 .. At(i) : TimeOf(traces[i][m]) < phase_end_cycle
          \/ /\ At(i) \in 1 .. Len(traces[i]) /\ i \notin cut_read
             /\ IsMark(traces[i][At(i)])
             /\ traces[i][At(i)].mark = phase_end_cycle
    /\ \A m \in At(i) + 1 .. Len(traces[i]) :
          TimeOf(traces[i][m]) >= phase_end_cycle - PHASE_CYCLES
    /\ \A k \in Kinds, p \in Pages : pa_count[i][k][p] = ReadOf(i, k, p)
    /\ LastCount(traces[i]) >= phase_end_cycle - PHASE_CYCLES

Phases ==
    /\ phase_end_cycle # 0 /\ phase_end_cycle >= PHASE_CYCLES
    /\ phase_end_cycle % MARK_INTERVAL = 0
    /\ main = "parallel" => curphase < MaxPhases /\ \A i \in Thr : Reading(i)

IInv == TypeOK /\ (\A i \in Thr : RestOfTrace(i)) /\ Phases

LEMMA Constants ==
    /\ N_THR \in Nat \ {0} /\ PHASE_CYCLES \in Nat \ {0} /\ MARK_INTERVAL \in Nat \ {0}
    /\ MaxPhases \in Nat \ {0}
    /\ Nothing \in [kind : Kinds, page : Pages, was : Nat]
    /\ NoCounts \in [Kinds -> [Pages -> Nat]]
    /\ PHASE_CYCLES % MARK_INTERVAL = 0
BY PhaseReaderAssumption DEF Nothing, NoCounts, Kinds

\* What is known of the trace of a thread.
LEMMA TraceFacts ==
    ASSUME TypeOK, NEW i \in Thr
    PROVE  /\ traces[i] \in Seq(Items) /\ rest[i] \in Seq(Items)
           /\ Len(traces[i]) \in Nat /\ Len(rest[i]) \in Nat
           /\ DividedByMarks(traces[i], LastCount(traces[i]), MARK_INTERVAL)
           /\ \A m \in 1 .. Len(traces[i]) :
                 traces[i][m] \in Items /\ TimeOf(traces[i][m]) \in Nat
           /\ DOMAIN traces[i] = 1 .. Len(traces[i])
           /\ LastCount(traces[i]) \in Nat
<1>1. traces \in Inputs /\ rest \in [Thr -> Seq(Items)]
  BY DEF TypeOK, Items
<1>2. /\ traces[i] \in Seq(Items)
      /\ DividedByMarks(traces[i], LastCount(traces[i]), MARK_INTERVAL)
  BY <1>1, PhaseReaderAssumption DEF Items
<1>3. rest[i] \in Seq(Items)
  BY <1>1
<1>4. \A m \in 1 .. Len(traces[i]) : traces[i][m] \in Items /\ TimeOf(traces[i][m]) \in Nat
  BY <1>2, ElementOfSeq, ItemFacts
<1>5. LastCount(traces[i]) \in Nat
  <2>1. CASE traces[i] = <<>>
    BY <2>1 DEF LastCount
  <2>2. CASE traces[i] # <<>>
    <3>1. Len(traces[i]) \in 1 .. Len(traces[i])
      <4>1. Len(traces[i]) \in Nat /\ Len(traces[i]) # 0
        BY <1>2, <2>2, LenProperties, EmptySeq
      <4>. QED
        BY <4>1
    <3>. QED
      BY <1>4, <2>2, <3>1 DEF LastCount
  <2>. QED
    BY <2>1, <2>2
<1>. QED
  BY <1>2, <1>3, <1>4, <1>5, LenProperties

\* The first word of an access is no mark and no other access's.
LEMMA CutFacts ==
    ASSUME NEW i \in Thr, NEW k \in Kinds, NEW p \in Pages, CutIs(i, k, p)
    PROVE  /\ cut[i] # NoWord /\ cut[i] # CutMark
           /\ \A u \in Kinds, v \in Pages : CutIs(i, u, v) <=> u = k /\ v = p
<1>1. cut[i].rw = k /\ cut[i].page = p /\ k \in {"R", "W"}
  BY DEF Kinds, CutIs
<1>2. NoWord.rw = "none" /\ CutMark.rw = "mark"
  BY DEF NoWord, CutMark
<1>3. cut[i] # NoWord /\ cut[i] # CutMark
  BY <1>1, <1>2
<1>4. ASSUME NEW u \in Kinds, NEW v \in Pages, CutIs(i, u, v)
      PROVE  u = k /\ v = p
  <2>1. cut[i].rw = u /\ cut[i].page = v
    BY <1>4 DEF CutIs
  <2>. QED
    BY <1>1, <2>1
<1>. QED
  BY <1>3, <1>4

\* There is no other.
LEMMA CutKinds ==
    ASSUME TypeOK, NEW i \in Thr, cut[i] # NoWord, cut[i] # CutMark
    PROVE  \E k \in Kinds, p \in Pages : CutIs(i, k, p)
<1>1. cut \in Cuts
  BY DEF TypeOK
<1>2. cut \in [Thr -> FirstWords]
  BY <1>1, PhaseReaderAssumption
<1>3. cut[i] \in FirstWords
  BY <1>2
<1>4. cut[i] \in [page : Pages, rw : Kinds]
  BY <1>3 DEF FirstWords
<1>. QED
  BY <1>4 DEF CutIs

LEMMA PhaseUpToFinite ==
    ASSUME TypeOK, NEW i \in Thr, NEW n \in Int, NEW k \in Kinds, NEW p \in Pages
    PROVE  /\ IsFiniteSet(PhaseUpTo(i, n, k, p)) /\ Cardinality(PhaseUpTo(i, n, k, p)) \in Nat
           /\ PhaseUpTo(i, n, k, p) \subseteq 1 .. Len(traces[i])
<1>1. PICK b \in Int : b = Len(traces[i])
  BY TraceFacts
<1>2. IsFiniteSet(1 .. b)
  BY FS_Interval
<1>3. PhaseUpTo(i, n, k, p) \subseteq 1 .. b
  BY <1>1, TraceFacts DEF PhaseUpTo, InPhase, CurrentPhase
<1>. QED
  BY <1>1, <1>2, <1>3, FS_Subset, FS_CardinalityType

LEMMA InitIInv ==
    Init => IInv
<1>. SUFFICES ASSUME Init PROVE IInv
  OBVIOUS
<1>1. /\ traces \in Inputs /\ rest = traces
      /\ cut \in Cuts /\ cut_read = {}
      /\ pc = [i \in Thr |-> "read"]
      /\ pa_count = [i \in Thr |-> NoCounts]
      /\ tmp_numacc = [i \in Thr |-> 0]
      /\ unmerged = [i \in Thr |-> {}]
      /\ loaded = [i \in Thr |-> Nothing]
      /\ total = NoCounts
      /\ total_num_accs = [i \in Thr |-> 0]
      /\ lock = [k \in Kinds |-> Free]
      /\ any_trace_done = FALSE
      /\ curphase = 0
      /\ phase_end_cycle = PHASE_CYCLES
      /\ main = "parallel"
  BY DEF Init
<1>2. TypeOK
  <2>1. rest \in [Thr -> Seq(Items)]
    BY <1>1, PhaseReaderAssumption
  <2>2. tmp_numacc \in [Thr -> Nat] /\ total_num_accs \in [Thr -> Nat]
    BY <1>1
  <2>3. pa_count \in [Thr -> [Kinds -> [Pages -> Nat]]] /\ total \in [Kinds -> [Pages -> Nat]]
    BY <1>1, Constants
  <2>4. loaded \in [Thr -> [kind : Kinds, page : Pages, was : Nat]]
    BY <1>1, Constants
  <2>5. lock \in [Kinds -> Thr \cup {Free}]
    BY <1>1
  <2>6. pc \in [Thr -> {"read", "coalesce", "merge", "add", "done"}]
        /\ unmerged \in [Thr -> SUBSET (Kinds \X Pages)]
    BY <1>1
  <2>7. any_trace_done \in BOOLEAN /\ main \in {"parallel", "ended"}
    <3>1. any_trace_done = FALSE /\ main = "parallel"
      BY <1>1
    <3>. QED
      BY <3>1
  <2>8. curphase \in 0 .. MaxPhases /\ phase_end_cycle \in Nat
    <3>1. MaxPhases \in Nat /\ PHASE_CYCLES \in Nat
      BY Constants
    <3>2. curphase = 0 /\ phase_end_cycle = PHASE_CYCLES
      BY <1>1
    <3>. QED
      BY <3>1, <3>2
  <2>. QED
    BY <1>1, <2>1, <2>2, <2>3, <2>4, <2>5, <2>6, <2>7, <2>8 DEF TypeOK
<1>3. ASSUME NEW i \in Thr
      PROVE  RestOfTrace(i) /\ Reading(i)
  <2>1. Len(traces[i]) \in Nat /\ At(i) = 0
    BY <1>1, <1>2, TraceFacts DEF At
  <2>2. RestOfTrace(i)
    BY <1>1, <2>1 DEF RestOfTrace
  <2>3. \A k \in Kinds, p \in Pages : PhaseUpTo(i, 0, k, p) = {}
    BY <1>2, TraceFacts DEF PhaseUpTo, InPhase, CurrentPhase
  <2>4. \A k \in Kinds, p \in Pages : pa_count[i][k][p] = 0
    BY <1>1 DEF NoCounts
  <2>5. \A k \in Kinds, p \in Pages : pa_count[i][k][p] = ReadOf(i, k, p)
    BY <1>1, <2>1, <2>3, <2>4, FS_EmptySet DEF ReadOf
  <2>6. \A m \in At(i) + 1 .. Len(traces[i]) :
           TimeOf(traces[i][m]) >= phase_end_cycle - PHASE_CYCLES
    BY <1>1, <1>2, <2>1, TraceFacts, Constants
  <2>7. LastCount(traces[i]) >= phase_end_cycle - PHASE_CYCLES
    BY <1>1, <1>2, TraceFacts, Constants
  <2>. QED
    BY <1>1, <2>1, <2>2, <2>5, <2>6, <2>7 DEF Reading
<1>4. Phases
  BY <1>1, <1>3, Constants DEF Phases
<1>. QED
  BY <1>2, <1>3, <1>4 DEF IInv

-----------------------------------------------------------------------------
(* Steps of the threads.                                                   *)

\* An item read: the thread is one further.
LEMMA DropItem ==
    ASSUME TypeOK, NEW i \in Thr, RestOfTrace(i), rest[i] # <<>>,
           rest' = [rest EXCEPT ![i] = Tail(@)], UNCHANGED <<traces, cut_read>>
    PROVE  /\ RestOfTrace(i)' /\ i \notin cut_read
           /\ At(i)' = At(i) + 1 /\ At(i) \in Nat
           /\ At(i) + 1 \in 1 .. Len(traces[i])
           /\ Head(rest[i]) = traces[i][At(i) + 1]
           /\ rest' \in [Thr -> Seq(Items)]
<1>1. /\ rest \in [Thr -> Seq(Items)] /\ rest[i] \in Seq(Items)
      /\ Len(rest[i]) \in Nat /\ Len(traces[i]) \in Nat
  BY TraceFacts DEF TypeOK, Items
<1>2. PICK t : t = Tail(rest[i])
  OBVIOUS
<1>3. /\ t \in Seq(Items) /\ Len(t) = Len(rest[i]) - 1 /\ Len(rest[i]) >= 1
      /\ \A m \in 1 .. Len(t) : t[m] = rest[i][m + 1]
      /\ Head(rest[i]) = rest[i][1]
  <2>1. /\ Head(rest[i]) = rest[i][1] /\ t \in Seq(Items)
        /\ Len(t) = Len(rest[i]) - 1
        /\ \A m \in 1 .. Len(t) : t[m] = rest[i][m + 1]
    BY <1>1, <1>2, HeadTailProperties
  <2>2. Len(t) \in Nat
    BY <2>1, LenProperties
  <2>. QED
    BY <1>1, <2>1, <2>2
<1>4. rest'[i] = t /\ rest' \in [Thr -> Seq(Items)]
  BY <1>1, <1>2, <1>3
<1>5. At(i)' = At(i) + 1 /\ At(i) \in Nat /\ At(i) + 1 \in 1 .. Len(traces[i])
  BY <1>1, <1>3, <1>4 DEF At, RestOfTrace
<1>6. Head(rest[i]) = traces[i][At(i) + 1]
  BY <1>1, <1>3 DEF RestOfTrace
<1>7. i \notin cut_read
  BY DEF RestOfTrace
<1>8. RestOfTrace(i)'
  <2>1. ASSUME NEW m \in 1 .. Len(t)
        PROVE  t[m] = traces[i][At(i) + 1 + m]
    <3>1. m + 1 \in 1 .. Len(rest[i]) /\ At(i) + (m + 1) = At(i) + 1 + m
      BY <1>1, <1>3, <1>5
    <3>. QED
      BY <1>3, <3>1 DEF RestOfTrace
  <2>. QED
    BY <1>1, <1>3, <1>4, <1>5, <1>7, <2>1 DEF RestOfTrace
<1>. QED
  BY <1>4, <1>5, <1>6, <1>7, <1>8

\* What a step leaves of a thread that neither reads nor stops reading.
LEMMA KeepsReading ==
    ASSUME NEW j \in Thr, RestOfTrace(j), Reading(j),
           UNCHANGED <<traces, cut>>, j \in cut_read' <=> j \in cut_read,
           rest'[j] = rest[j], pa_count'[j] = pa_count[j],
           pc'[j] = "read" <=> pc[j] = "read",
           any_trace_done => any_trace_done', UNCHANGED <<curphase, phase_end_cycle>>
    PROVE  RestOfTrace(j)' /\ Reading(j)'
<1>1. At(j)' = At(j)
  BY DEF At
<1>2. RestOfTrace(j)'
  BY <1>1 DEF RestOfTrace
<1>3. \A k, p : PhaseUpTo(j, At(j), k, p)' = PhaseUpTo(j, At(j), k, p)
  BY <1>1 DEF PhaseUpTo, InPhase, CurrentPhase
<1>4. \A k, p : ReadOf(j, k, p)' = ReadOf(j, k, p)
  BY <1>3 DEF ReadOf, CutIs
<1>5. Reading(j)'
  BY <1>1, <1>4 DEF Reading
<1>. QED
  BY <1>2, <1>5

\* The counts when the item read is no access of the phase, or is one.
LEMMA PhaseUpToNext ==
    ASSUME TypeOK, NEW i \in Thr, NEW n \in Nat, n + 1 \in 1 .. Len(traces[i]),
           NEW k \in Kinds, NEW p \in Pages
    PROVE  Cardinality(PhaseUpTo(i, n + 1, k, p)) =
              IF n + 1 \in InPhase(i, k, p)
              THEN Cardinality(PhaseUpTo(i, n, k, p)) + 1
              ELSE Cardinality(PhaseUpTo(i, n, k, p))
<1>1. \A m \in InPhase(i, k, p) : m \in Nat
  BY TraceFacts DEF InPhase
<1>2. CASE n + 1 \in InPhase(i, k, p)
  <2>1. PhaseUpTo(i, n + 1, k, p) = PhaseUpTo(i, n, k, p) \cup {n + 1}
        /\ n + 1 \notin PhaseUpTo(i, n, k, p)
    BY <1>1, <1>2 DEF PhaseUpTo
  <2>2. IsFiniteSet(PhaseUpTo(i, n, k, p))
    BY PhaseUpToFinite
  <2>. QED
    BY <1>2, <2>1, <2>2, FS_AddElement
<1>3. CASE n + 1 \notin InPhase(i, k, p)
  <2>1. PhaseUpTo(i, n + 1, k, p) = PhaseUpTo(i, n, k, p)
    BY <1>1, <1>3 DEF PhaseUpTo
  <2>. QED
    BY <1>3, <2>1
<1>. QED
  BY <1>2, <1>3

\* The item that a thread reads next ends the phase only if it is the mark of its end.
LEMMA NextItem ==
    ASSUME IInv, main = "parallel", NEW i \in Thr, pc[i] = "read",
           At(i) + 1 \in 1 .. Len(traces[i]),
           TimeOf(traces[i][At(i) + 1]) >= phase_end_cycle
    PROVE  IsMark(traces[i][At(i) + 1]) /\ traces[i][At(i) + 1].mark = phase_end_cycle
<1>1. /\ traces[i] \in Seq(Items)
      /\ DividedByMarks(traces[i], LastCount(traces[i]), MARK_INTERVAL)
      /\ Len(traces[i]) \in Nat /\ Len(rest[i]) \in Nat
  BY TraceFacts DEF IInv
<1>2. phase_end_cycle \in Nat \ {0} /\ phase_end_cycle % MARK_INTERVAL = 0
  BY DEF IInv, TypeOK, Phases
<1>3. \A k \in 1 .. At(i) : TimeOf(traces[i][k]) < phase_end_cycle
  BY DEF IInv, Phases, Reading
<1>4. PICK n \in 1 .. Len(traces[i]) : n = At(i) + 1
  OBVIOUS
<1>5. \A k \in 1 .. n - 1 : TimeOf(traces[i][k]) < phase_end_cycle
  <2>1. At(i) \in Int
    BY <1>1 DEF At
  <2>2. n - 1 = At(i)
    BY <1>4, <2>1
  <2>. QED
    BY <1>3, <2>2
<1>6. MARK_INTERVAL \in Nat \ {0}
  BY Constants
<1>. QED
  BY <1>1, <1>2, <1>4, <1>5, <1>6, FirstToEnd

LEMMA ReadEndReading ==
    ASSUME IInv, main = "parallel", NEW i \in Thr, ReadEnd(i)
    PROVE  Reading(i)' /\ RestOfTrace(i)'
<1>1. /\ pc[i] = "read" /\ rest[i] = <<>> /\ any_trace_done'
      /\ cut[i] = NoWord \/ i \in cut_read
      /\ pc' = [pc EXCEPT ![i] = "coalesce"]
      /\ UNCHANGED <<files, pa_count, curphase, phase_end_cycle, main>>
  BY DEF ReadEnd, StopReading, phase
<1>2. pc'[i] = "coalesce"
  BY <1>1 DEF IInv, TypeOK
<1>3. At(i)' = At(i) /\ At(i) = Len(traces[i])
  <2>1. Len(rest[i]) = 0 /\ Len(traces[i]) \in Nat
    BY <1>1, TraceFacts, EmptySeq DEF IInv
  <2>2. At(i) = Len(traces[i])
    BY <2>1 DEF At
  <2>3. At(i)' = At(i)
    BY <1>1 DEF At, files
  <2>. QED
    BY <2>2, <2>3
<1>4. RestOfTrace(i)'
  BY <1>1, <1>3 DEF IInv, RestOfTrace, files
<1>5. \A k, p : ReadOf(i, k, p)' = ReadOf(i, k, p)
  <2>1. \A k, p : PhaseUpTo(i, At(i), k, p)' = PhaseUpTo(i, At(i), k, p)
    BY <1>1, <1>3 DEF PhaseUpTo, InPhase, CurrentPhase, files
  <2>. QED
    BY <1>1, <2>1 DEF ReadOf, CutIs, files
<1>6. Reading(i)
  BY DEF IInv, Phases
<1>7. Reading(i)'
  BY <1>1, <1>2, <1>3, <1>5, <1>6 DEF Reading, files
<1>. QED
  BY <1>4, <1>7

LEMMA ReadMarkReading ==
    ASSUME IInv, main = "parallel", NEW i \in Thr, ReadMark(i)
    PROVE  Reading(i)' /\ RestOfTrace(i)'
<1>1. /\ pc[i] = "read" /\ rest[i] # <<>> /\ IsMark(Head(rest[i]))
      /\ IF Head(rest[i]).mark >= phase_end_cycle
         THEN pc' = [pc EXCEPT ![i] = "coalesce"] ELSE pc' = pc
      /\ rest' = [rest EXCEPT ![i] = Tail(@)]
      /\ UNCHANGED <<traces, cut, cut_read, pa_count, any_trace_done, curphase,
                     phase_end_cycle, main>>
  BY DEF ReadMark, StopReading, EndsPhase, phase, shared
<1>2. TypeOK /\ RestOfTrace(i) /\ Reading(i)
  BY DEF IInv, Phases
<1>3. /\ RestOfTrace(i)' /\ At(i)' = At(i) + 1 /\ At(i) \in Nat
      /\ i \notin cut_read
      /\ At(i) + 1 \in 1 .. Len(traces[i])
      /\ Head(rest[i]) = traces[i][At(i) + 1]
  BY <1>1, <1>2, DropItem
<1>4. PICK e \in Items : e = traces[i][At(i) + 1]
  BY <1>2, <1>3, TraceFacts
<1>5. IsMark(e) /\ TimeOf(e) = e.mark /\ e.mark \in Nat
  BY <1>1, <1>3, <1>4, ItemFacts
<1>6. pc' = IF e.mark >= phase_end_cycle THEN [pc EXCEPT ![i] = "coalesce"] ELSE pc
  BY <1>1, <1>3, <1>4
<1>7. phase_end_cycle \in Nat /\ Len(traces[i]) \in Nat /\ PHASE_CYCLES \in Nat
      /\ pc \in [Thr -> {"read", "coalesce", "merge", "add", "done"}]
  BY <1>2, TraceFacts, Constants DEF TypeOK
<1>8. ASSUME NEW k \in Kinds, NEW p \in Pages
      PROVE  pa_count'[i][k][p] = ReadOf(i, k, p)'
  <2>1. At(i) + 1 \notin InPhase(i, k, p)
    BY <1>4, <1>5 DEF InPhase
  <2>2. PhaseUpTo(i, At(i), k, p)' = PhaseUpTo(i, At(i) + 1, k, p)
    BY <1>1, <1>3 DEF PhaseUpTo, InPhase, CurrentPhase
  <2>3. pa_count[i][k][p] = Cardinality(PhaseUpTo(i, At(i), k, p))
    BY <1>2, <1>3 DEF Reading, ReadOf
  <2>4. pa_count'[i][k][p] = Cardinality(PhaseUpTo(i, At(i), k, p)')
    BY <1>1, <1>2, <1>3, <2>1, <2>2, <2>3, PhaseUpToNext
  <2>. QED
    BY <1>1, <1>3, <2>4 DEF ReadOf
<1>9. \A m \in At(i)' + 1 .. Len(traces'[i]) :
         TimeOf(traces'[i][m]) >= phase_end_cycle' - PHASE_CYCLES
  BY <1>1, <1>2, <1>3, <1>7 DEF Reading
<1>10. LastCount(traces'[i]) >= phase_end_cycle' - PHASE_CYCLES
  BY <1>1, <1>2 DEF Reading
<1>11. CASE e.mark >= phase_end_cycle
  <2>1. e.mark = phase_end_cycle
    BY <1>1, <1>3, <1>4, <1>5, <1>11, NextItem
  <2>2. pc'[i] = "coalesce"
    BY <1>6, <1>7, <1>11
  <2>3. /\ At(i)' \in 1 .. Len(traces'[i]) /\ i \notin cut_read'
        /\ IsMark(traces'[i][At(i)'])
        /\ traces'[i][At(i)'].mark = phase_end_cycle'
    BY <1>1, <1>3, <1>4, <1>5, <2>1
  <2>4. Reading(i)'
    BY <1>8, <1>9, <1>10, <2>2, <2>3 DEF Reading
  <2>. QED
    BY <1>3, <2>4
<1>12. CASE ~ (e.mark >= phase_end_cycle)
  <2>1. pc'[i] = "read"
    BY <1>1, <1>6, <1>12
  <2>2. \A m \in 1 .. At(i)' : TimeOf(traces'[i][m]) < phase_end_cycle'
    <3>1. ASSUME NEW m \in 1 .. At(i) + 1
          PROVE  TimeOf(traces[i][m]) < phase_end_cycle
      <4>1. CASE m = At(i) + 1
        BY <1>4, <1>5, <1>7, <1>12, <4>1
      <4>2. CASE m # At(i) + 1
        <5>1. m \in 1 .. At(i)
          BY <1>3, <4>2
        <5>. QED
          BY <1>1, <1>2, <5>1 DEF Reading
      <4>. QED
        BY <4>1, <4>2
    <3>. QED
      BY <1>1, <1>3, <3>1
  <2>3. Reading(i)'
    BY <1>8, <1>9, <1>10, <2>1, <2>2 DEF Reading
  <2>. QED
    BY <1>3, <2>3
<1>. QED
  BY <1>11, <1>12

\* The counts of an access are those of its phase: it never is past the end of it.
LEMMA ReadAccessReading ==
    ASSUME IInv, main = "parallel", NEW i \in Thr, ReadAccess(i)
    PROVE  Reading(i)' /\ RestOfTrace(i)'
<1>1. PICK a : a = Head(rest[i])
  OBVIOUS
<1>2. /\ pc[i] = "read" /\ rest[i] # <<>> /\ ~IsMark(a)
      /\ IF a.ts >= phase_end_cycle
         THEN pc' = [pc EXCEPT ![i] = "coalesce"] /\ pa_count' = pa_count
         ELSE /\ pa_count' = [pa_count EXCEPT ![i][a.rw][a.page] =
                                                  pa_count[i][a.rw][a.page] + 1]
              /\ pc' = pc
      /\ rest' = [rest EXCEPT ![i] = Tail(@)]
      /\ UNCHANGED <<traces, cut, cut_read, any_trace_done, curphase, phase_end_cycle,
                     main>>
  BY <1>1 DEF ReadAccess, CountAccess, StopReading, EndsPhase, phase, shared
<1>3. TypeOK /\ RestOfTrace(i) /\ Reading(i)
  BY DEF IInv, Phases
<1>4. /\ RestOfTrace(i)' /\ At(i)' = At(i) + 1 /\ At(i) \in Nat
      /\ i \notin cut_read
      /\ At(i) + 1 \in 1 .. Len(traces[i])
      /\ a = traces[i][At(i) + 1]
  BY <1>1, <1>2, <1>3, DropItem
<1>5. a \in Access /\ TimeOf(a) = a.ts /\ a.ts \in Nat
  <2>1. a \in Items
    BY <1>3, <1>4, TraceFacts
  <2>. QED
    BY <1>2, <2>1, ItemFacts
<1>6. phase_end_cycle \in Nat /\ Len(traces[i]) \in Nat /\ PHASE_CYCLES \in Nat
  BY <1>3, TraceFacts, Constants DEF TypeOK
<1>7. ~ (a.ts >= phase_end_cycle)
  BY <1>2, <1>4, <1>5, NextItem
<1>8. pc' = pc /\ pa_count' = [pa_count EXCEPT ![i][a.rw][a.page] =
                                                 pa_count[i][a.rw][a.page] + 1]
  BY <1>2, <1>7
<1>9. a.ts >= phase_end_cycle - PHASE_CYCLES
  BY <1>3, <1>4, <1>5, <1>6 DEF Reading
<1>10. a.ts \in CurrentPhase
  BY <1>5, <1>6, <1>7, <1>9 DEF CurrentPhase
<1>11. ASSUME NEW k \in Kinds, NEW p \in Pages
       PROVE  pa_count'[i][k][p] = ReadOf(i, k, p)'
  <2>1. At(i) + 1 \in InPhase(i, k, p) <=> a.rw = k /\ a.page = p
    <3>1. At(i) + 1 \in DOMAIN traces[i]
      BY <1>3, <1>4, TraceFacts
    <3>. QED
      BY <1>2, <1>4, <1>10, <3>1 DEF InPhase
  <2>2. PhaseUpTo(i, At(i), k, p)' = PhaseUpTo(i, At(i) + 1, k, p)
    BY <1>2, <1>4 DEF PhaseUpTo, InPhase, CurrentPhase
  <2>3. pa_count[i][k][p] = Cardinality(PhaseUpTo(i, At(i), k, p))
    BY <1>3, <1>4 DEF Reading, ReadOf
  <2>4. pa_count'[i][k][p] = IF a.rw = k /\ a.page = p THEN pa_count[i][k][p] + 1
                                                       ELSE pa_count[i][k][p]
    <3>1. pa_count \in [Thr -> [Kinds -> [Pages -> Nat]]] /\ a.rw \in Kinds /\ a.page \in Pages
      BY <1>3, <1>5 DEF TypeOK, Access
    <3>. QED
      BY <1>8, <3>1
  <2>5. pa_count'[i][k][p] = Cardinality(PhaseUpTo(i, At(i), k, p)')
    BY <1>3, <1>4, <2>1, <2>2, <2>3, <2>4, PhaseUpToNext
  <2>. QED
    BY <1>2, <1>4, <2>5 DEF ReadOf
<1>12. \A m \in At(i)' + 1 .. Len(traces'[i]) :
          TimeOf(traces'[i][m]) >= phase_end_cycle' - PHASE_CYCLES
  BY <1>2, <1>3, <1>4, <1>6 DEF Reading
<1>13. LastCount(traces'[i]) >= phase_end_cycle' - PHASE_CYCLES
  BY <1>2, <1>3 DEF Reading
<1>14. \A m \in 1 .. At(i)' : TimeOf(traces'[i][m]) < phase_end_cycle'
  <2>1. ASSUME NEW m \in 1 .. At(i) + 1
        PROVE  TimeOf(traces[i][m]) < phase_end_cycle
    <3>1. CASE m = At(i) + 1
      BY <1>4, <1>5, <1>6, <1>7, <3>1
    <3>2. CASE m # At(i) + 1
      <4>1. m \in 1 .. At(i)
        BY <1>4, <3>2
      <4>. QED
        BY <1>2, <1>3, <4>1 DEF Reading
    <3>. QED
      BY <3>1, <3>2
  <2>. QED
    BY <1>2, <1>4, <2>1
<1>15. Reading(i)'
  BY <1>2, <1>8, <1>11, <1>12, <1>13, <1>14 DEF Reading
<1>. QED
  BY <1>4, <1>15

\* one more access of kind k to page p
CountsOne(i, k, p) ==
    pa_count' = [pa_count EXCEPT ![i][k][p] = pa_count[i][k][p] + 1]

\* The item that is cut is one more access, or a mark that does nothing.
CutIsRead(i) ==
    /\ pc[i] = "read" /\ rest[i] = <<>> /\ i \notin cut_read
    /\ cut_read' = cut_read \cup {i}
    /\ \/ cut[i] = CutMark /\ UNCHANGED <<pa_count, tmp_numacc>>
       \/ /\ \E k \in Kinds, p \in Pages : CutIs(i, k, p) /\ CountsOne(i, k, p)
          /\ tmp_numacc' = [tmp_numacc EXCEPT ![i] = @ + 1]
    /\ UNCHANGED <<traces, cut, rest, pc, unmerged, loaded, shared, phase>>

LEMMA CutIsAccess ==
    ASSUME TypeOK, NEW i \in Thr, ReadCut(i)
    PROVE  CutIsRead(i)
<1>1. CASE cut[i] = CutMark
  BY <1>1 DEF ReadCut, CutIsRead
<1>2. CASE cut[i] # CutMark
  <2>1. PICK k \in Kinds, p \in Pages : CutIs(i, k, p)
    BY <1>2, CutKinds DEF ReadCut
  <2>2. cut[i].rw = k /\ cut[i].page = p
    BY <2>1 DEF CutIs
  <2>3. CountsOne(i, k, p)
    BY <1>2, <2>2 DEF ReadCut, CountAccess, CountsOne
  <2>. QED
    BY <1>2, <2>1, <2>3 DEF ReadCut, CutIsRead
<1>. QED
  BY <1>1, <1>2

LEMMA ReadCutReading ==
    ASSUME IInv, main = "parallel", NEW i \in Thr, ReadCut(i)
    PROVE  Reading(i)' /\ RestOfTrace(i)'
<1>1. TypeOK /\ RestOfTrace(i) /\ Reading(i)
  BY DEF IInv, Phases
<1>2. /\ pc[i] = "read" /\ rest[i] = <<>> /\ i \notin cut_read /\ i \in cut_read'
      /\ UNCHANGED <<traces, cut, rest, pc, phase_end_cycle>>
  BY <1>1, CutIsAccess DEF CutIsRead, phase
<1>3. At(i)' = At(i)
  BY <1>2 DEF At
<1>4. RestOfTrace(i)'
  BY <1>1, <1>2, <1>3 DEF RestOfTrace
<1>5. ASSUME NEW k \in Kinds, NEW p \in Pages
      PROVE  pa_count'[i][k][p] = ReadOf(i, k, p)'
  <2>1. PhaseUpTo(i, At(i), k, p)' = PhaseUpTo(i, At(i), k, p)
    BY <1>2, <1>3 DEF PhaseUpTo, InPhase, CurrentPhase
  <2>2. pa_count[i][k][p] = Cardinality(PhaseUpTo(i, At(i), k, p))
    BY <1>1, <1>2 DEF Reading, ReadOf
  <2>3. CASE cut[i] = CutMark /\ UNCHANGED pa_count
    <3>1. ~CutIs(i, k, p)'
      <4>1. ~CutIs(i, k, p)
        BY <2>3, CutFacts
      <4>. QED
        BY <1>2, <4>1 DEF CutIs
    <3>. QED
      BY <1>2, <2>1, <2>2, <2>3, <3>1 DEF ReadOf
  <2>4. CASE \E u \in Kinds, v \in Pages :
                CutIs(i, u, v) /\ CountsOne(i, u, v)
    <3>1. PICK u \in Kinds, v \in Pages : CutIs(i, u, v) /\ CountsOne(i, u, v)
      BY <2>4
    <3>2. CutIs(i, k, p) <=> k = u /\ p = v
      BY <3>1, CutFacts
    <3>3. pa_count'[i][k][p] = IF k = u /\ p = v THEN pa_count[i][k][p] + 1
                                                  ELSE pa_count[i][k][p]
      <4>1. pa_count \in [Thr -> [Kinds -> [Pages -> Nat]]]
        BY <1>1 DEF TypeOK
      <4>. QED
        BY <3>1, <4>1 DEF CountsOne
    <3>4. CutIs(i, k, p)' <=> CutIs(i, k, p)
      BY <1>2 DEF CutIs
    <3>5. ReadOf(i, k, p)' = IF k = u /\ p = v
                             THEN Cardinality(PhaseUpTo(i, At(i), k, p)) + 1
                             ELSE Cardinality(PhaseUpTo(i, At(i), k, p))
      BY <1>2, <2>1, <3>2, <3>4 DEF ReadOf
    <3>. QED
      BY <2>2, <3>3, <3>5
  <2>. QED
    BY <1>1, <2>3, <2>4, CutIsAccess DEF CutIsRead
<1>6. Reading(i)'
  BY <1>1, <1>2, <1>3, <1>5 DEF Reading
<1>. QED
  BY <1>4, <1>6

-----------------------------------------------------------------------------
(* The end of a phase.                                                     *)

LEMMA MultiplesAdd ==
    ASSUME NEW a \in Nat, NEW b \in Nat, NEW d \in Nat \ {0}, a % d = 0, b % d = 0
    PROVE  (a + b) % d = 0
<1>1. PICK q \in Int : a = d * q
  <2>1. a = d * (a \div d) + (a % d) /\ a \div d \in Int
    OBVIOUS
  <2>. QED
    BY <2>1
<1>2. PICK r \in Int : b = d * r
  <2>1. b = d * (b \div d) + (b % d) /\ b \div d \in Int
    OBVIOUS
  <2>. QED
    BY <2>1
<1>3. PICK t \in Int : t = q + r
  OBVIOUS
<1>4. a + b = d * t
  <2>1. d * t = d * q + d * r
    BY <1>3
  <2>. QED
    BY <1>1, <1>2, <2>1
<1>5. PICK u \in Int, m \in 0 .. d - 1 : a + b = d * u + m /\ m = (a + b) % d
  <2>1. PICK c \in Nat : c = a + b
    OBVIOUS
  <2>2. c = d * (c \div d) + (c % d) /\ c \div d \in Int /\ c % d \in 0 .. d - 1
    OBVIOUS
  <2>. QED
    BY <2>1, <2>2
<1>6. PICK w \in Int : w = t - u
  OBVIOUS
<1>7. d * w = m
  <2>1. d * w = d * t - d * u
    BY <1>6
  <2>2. PICK x \in Int : x = d * t
    OBVIOUS
  <2>3. PICK y \in Int : y = d * u
    OBVIOUS
  <2>4. a + b = x /\ a + b = y + m /\ d * w = x - y
    BY <1>4, <1>5, <2>1, <2>2, <2>3
  <2>5. m \in Int
    OBVIOUS
  <2>. QED
    BY <2>4, <2>5
<1>8. CASE w = 0
  BY <1>5, <1>7, <1>8
<1>9. CASE w >= 1
  <2>1. d * w >= d
    BY <1>9
  <2>. QED
    BY <1>7, <2>1
<1>10. CASE w <= -1
  <2>1. d * w <= -d
    BY <1>10
  <2>. QED
    BY <1>7, <2>1
<1>. QED
  BY <1>8, <1>9, <1>10

\* Where a thread stands at the barrier, when no trace has ended.
LEMMA AtTheMark ==
    ASSUME IInv, EndPhase, ~LoopEnds, NEW i \in Thr
    PROVE  /\ At(i) \in 1 .. Len(traces[i]) /\ i \notin cut_read
           /\ IsMark(traces[i][At(i)])
           /\ traces[i][At(i)].mark = phase_end_cycle
           /\ TimeOf(traces[i][At(i)]) = phase_end_cycle
<1>1. main = "parallel" /\ pc[i] = "done" /\ ~any_trace_done
  BY DEF EndPhase, AllDone, LoopEnds
<1>2. Reading(i) /\ TypeOK
  BY <1>1 DEF IInv, Phases
<1>3. /\ At(i) \in 1 .. Len(traces[i]) /\ i \notin cut_read
      /\ IsMark(traces[i][At(i)])
      /\ traces[i][At(i)].mark = phase_end_cycle
  BY <1>1, <1>2 DEF Reading
<1>4. traces[i][At(i)] \in Items
  BY <1>2, <1>3, TraceFacts
<1>. QED
  BY <1>3, <1>4, ItemFacts

LEMMA NextPhaseReading ==
    ASSUME IInv, EndPhase, ~LoopEnds, NEW i \in Thr
    PROVE  Reading(i)'
<1>1. /\ pc' = [j \in Thr |-> "read"] /\ pa_count' = [j \in Thr |-> NoCounts]
      /\ phase_end_cycle' = phase_end_cycle + PHASE_CYCLES
      /\ UNCHANGED <<traces, cut, rest, cut_read>>
  BY DEF EndPhase, files
<1>2. PICK n \in 1 .. Len(traces[i]) :
         /\ n = At(i) /\ i \notin cut_read
         /\ IsMark(traces[i][n]) /\ traces[i][n].mark = phase_end_cycle
         /\ TimeOf(traces[i][n]) = phase_end_cycle
  BY AtTheMark
<1>3. TypeOK /\ phase_end_cycle \in Nat /\ PHASE_CYCLES \in Nat \ {0}
  BY Constants DEF IInv, TypeOK
<1>4. /\ traces[i] \in Seq(Items) /\ Len(traces[i]) \in Nat
      /\ DividedByMarks(traces[i], LastCount(traces[i]), MARK_INTERVAL)
      /\ \A m \in 1 .. Len(traces[i]) :
            traces[i][m] \in Items /\ TimeOf(traces[i][m]) \in Nat
      /\ DOMAIN traces[i] = 1 .. Len(traces[i])
  BY <1>3, TraceFacts
<1>5. At(i)' = n
  BY <1>1, <1>2 DEF At
<1>6. \A m \in 1 .. n : TimeOf(traces[i][m]) < phase_end_cycle'
  <2>1. \A m \in 1 .. n : TimeOf(traces[i][m]) <= TimeOf(traces[i][n])
    BY <1>4, TimesGrow
  <2>2. \A m \in 1 .. n : m \in 1 .. Len(traces[i])
    BY <1>4
  <2>. QED
    BY <1>1, <1>2, <1>3, <1>4, <2>1, <2>2
<1>7. \A m \in n .. Len(traces[i]) : TimeOf(traces[i][m]) >= phase_end_cycle
  <2>. SUFFICES ASSUME NEW m \in n .. Len(traces[i])
                PROVE  TimeOf(traces[i][m]) >= phase_end_cycle
    OBVIOUS
  <2>1. m \in 1 .. Len(traces[i]) /\ n \in 1 .. m
    BY <1>4
  <2>2. TimeOf(traces[i][n]) <= TimeOf(traces[i][m])
    BY <1>4, <2>1, TimesGrow
  <2>. QED
    BY <1>2, <1>3, <1>4, <2>1, <2>2
<1>8. phase_end_cycle' - PHASE_CYCLES = phase_end_cycle
  BY <1>1, <1>3
<1>9. ASSUME NEW k \in Kinds, NEW p \in Pages
      PROVE  PhaseUpTo(i, At(i), k, p)' = {}
  <2>. SUFFICES ASSUME NEW m \in PhaseUpTo(i, At(i), k, p)' PROVE FALSE
    OBVIOUS
  <2>1. /\ m \in 1 .. Len(traces[i]) /\ m <= n /\ ~IsMark(traces[i][m])
        /\ traces[i][m].ts \in phase_end_cycle' - PHASE_CYCLES .. phase_end_cycle' - 1
    BY <1>1, <1>4, <1>5 DEF PhaseUpTo, InPhase, CurrentPhase
  <2>2. m # n
    BY <1>2, <2>1
  <2>3. m \in 1 .. n - 1
    BY <1>4, <2>1, <2>2
  <2>4. TimeOf(traces[i][m]) < traces[i][n].mark
    BY <1>2, <1>4, <2>3, LessBeforeMark
  <2>5. TimeOf(traces[i][m]) = traces[i][m].ts
    BY <1>4, <2>1, ItemFacts
  <2>6. traces[i][m].ts >= phase_end_cycle
    BY <1>3, <1>8, <2>1
  <2>. QED
    BY <1>2, <1>3, <1>4, <2>1, <2>4, <2>5, <2>6
<1>10. \A k \in Kinds, p \in Pages : pa_count'[i][k][p] = ReadOf(i, k, p)'
  BY <1>1, <1>2, <1>9, FS_EmptySet DEF NoCounts, ReadOf
<1>11. LastCount(traces[i]) >= phase_end_cycle
  <2>1. traces[i] # <<>>
    BY <1>2, <1>4, EmptySeq
  <2>2. Len(traces[i]) \in n .. Len(traces[i])
    BY <1>4
  <2>. QED
    BY <1>7, <2>1, <2>2 DEF LastCount
<1>12. pc'[i] = "read"
  BY <1>1
<1>13. \A m \in At(i)' + 1 .. Len(traces'[i]) :
          TimeOf(traces'[i][m]) >= phase_end_cycle' - PHASE_CYCLES
  <2>1. \A m \in n + 1 .. Len(traces[i]) : m \in n .. Len(traces[i])
    BY <1>4
  <2>. QED
    BY <1>1, <1>5, <1>7, <1>8, <2>1
<1>14. \A m \in 1 .. At(i)' : TimeOf(traces'[i][m]) < phase_end_cycle'
  BY <1>1, <1>5, <1>6
<1>15. LastCount(traces'[i]) >= phase_end_cycle' - PHASE_CYCLES
  BY <1>1, <1>8, <1>11
<1>. QED
  BY <1>10, <1>12, <1>13, <1>14, <1>15 DEF Reading

LEMMA EndPhasePhases ==
    ASSUME IInv, EndPhase
    PROVE  Phases'
<1>1. TypeOK /\ Phases /\ main = "parallel" /\ curphase < MaxPhases
  BY DEF IInv, Phases, EndPhase, AllDone
<1>2. CASE LoopEnds
  <2>1. main' = "ended" /\ phase_end_cycle' = phase_end_cycle
    BY <1>2 DEF EndPhase
  <2>. QED
    BY <1>1, <2>1 DEF Phases
<1>3. CASE ~LoopEnds
  <2>1. /\ phase_end_cycle' = phase_end_cycle + PHASE_CYCLES /\ curphase' = curphase + 1
        /\ curphase + 1 # MaxPhases
    BY <1>3 DEF EndPhase, LoopEnds
  <2>2. /\ PHASE_CYCLES \in Nat \ {0} /\ MARK_INTERVAL \in Nat \ {0}
        /\ PHASE_CYCLES % MARK_INTERVAL = 0 /\ phase_end_cycle \in Nat
        /\ phase_end_cycle % MARK_INTERVAL = 0
        /\ curphase \in Int /\ MaxPhases \in Int
    BY <1>1, Constants DEF TypeOK, Phases
  <2>3. (phase_end_cycle + PHASE_CYCLES) % MARK_INTERVAL = 0
    BY <2>2, MultiplesAdd
  <2>4. phase_end_cycle' # 0 /\ phase_end_cycle' >= PHASE_CYCLES
    BY <2>1, <2>2
  <2>5. curphase' < MaxPhases
    BY <1>1, <2>1, <2>2
  <2>6. \A i \in Thr : Reading(i)'
    BY <1>3, NextPhaseReading
  <2>. QED
    BY <2>1, <2>3, <2>4, <2>5, <2>6 DEF Phases
<1>. QED
  BY <1>2, <1>3

-----------------------------------------------------------------------------
(* Types, and the invariant of every step.                                 *)

LEMMA OneMoreTypes ==
    ASSUME TypeOK, NEW i \in Thr, NEW k \in Kinds, NEW p \in Pages, CountsOne(i, k, p)
    PROVE  pa_count' \in [Thr -> [Kinds -> [Pages -> Nat]]]
<1>1. pa_count \in [Thr -> [Kinds -> [Pages -> Nat]]]
  BY DEF TypeOK
<1>2. pa_count' = [pa_count EXCEPT ![i][k][p] = pa_count[i][k][p] + 1]
  BY DEF CountsOne
<1>3. PICK c \in Nat : c = pa_count[i][k][p] + 1
  BY <1>1
<1>4. PICK g \in [Pages -> Nat] : g = [pa_count[i][k] EXCEPT ![p] = c]
  BY <1>1
<1>5. PICK h \in [Kinds -> [Pages -> Nat]] : h = [pa_count[i] EXCEPT ![k] = g]
  BY <1>1
<1>6. pa_count' = [pa_count EXCEPT ![i] = h]
  BY <1>2, <1>3, <1>4, <1>5
<1>. QED
  BY <1>1, <1>6

LEMMA ReadTypes ==
    ASSUME TypeOK, NEW i \in Thr, RestOfTrace(i),
           ReadEnd(i) \/ ReadMark(i) \/ ReadAccess(i) \/ ReadCut(i)
    PROVE  TypeOK'
<1>1. pc' \in [Thr -> {"read", "coalesce", "merge", "add", "done"}]
  <2>1. pc' = pc \/ pc' = [pc EXCEPT ![i] = "coalesce"]
    BY DEF ReadEnd, ReadMark, ReadAccess, ReadCut, StopReading
  <2>. QED
    BY <2>1 DEF TypeOK
<1>2. rest' \in [Thr -> Seq(Items)]
  <2>1. CASE rest' = rest
    BY <2>1 DEF TypeOK
  <2>2. CASE rest[i] # <<>> /\ rest' = [rest EXCEPT ![i] = Tail(@)]
    <3>1. UNCHANGED <<traces, cut_read>>
      BY <2>2 DEF ReadEnd, ReadMark, ReadAccess, ReadCut, files
    <3>. QED
      BY <2>2, <3>1, DropItem
  <2>. QED
    BY <2>1, <2>2 DEF ReadEnd, ReadMark, ReadAccess, ReadCut, files
<1>3. pa_count' \in [Thr -> [Kinds -> [Pages -> Nat]]] /\ tmp_numacc' \in [Thr -> Nat]
  <2>1. CASE pa_count' = pa_count /\ tmp_numacc' = tmp_numacc
    BY <2>1 DEF TypeOK
  <2>2. CASE ReadAccess(i)
    <3>1. PICK a : a = Head(rest[i])
      OBVIOUS
    <3>2. /\ rest[i] # <<>> /\ ~IsMark(a)
          /\ \/ pa_count' = pa_count
             \/ pa_count' = [pa_count EXCEPT ![i][a.rw][a.page] =
                                                 pa_count[i][a.rw][a.page] + 1]
          /\ tmp_numacc' = [tmp_numacc EXCEPT ![i] = @ + 1]
          /\ rest' = [rest EXCEPT ![i] = Tail(@)] /\ UNCHANGED <<traces, cut_read>>
      BY <2>2, <3>1 DEF ReadAccess, CountAccess
    <3>3. a \in Access
      <4>1. a = traces[i][At(i) + 1] /\ At(i) + 1 \in 1 .. Len(traces[i])
        BY <3>1, <3>2, DropItem
      <4>2. a \in Items
        BY <4>1, TraceFacts
      <4>. QED
        BY <3>2, <4>2, ItemFacts
    <3>4. a.rw \in Kinds /\ a.page \in Pages
      BY <3>3 DEF Access
    <3>5. tmp_numacc' \in [Thr -> Nat]
      <4>1. tmp_numacc \in [Thr -> Nat]
        BY DEF TypeOK
      <4>2. tmp_numacc' = [tmp_numacc EXCEPT ![i] = @ + 1]
        BY <3>2
      <4>. QED
        BY <4>1, <4>2
    <3>6. pa_count' \in [Thr -> [Kinds -> [Pages -> Nat]]]
      <4>1. pa_count' = pa_count \/ CountsOne(i, a.rw, a.page)
        BY <3>2 DEF CountsOne
      <4>. QED
        BY <3>4, <4>1, OneMoreTypes DEF TypeOK
    <3>. QED
      BY <3>5, <3>6
  <2>3. CASE ReadCut(i)
    <3>1. pa_count' = pa_count \/ \E k \in Kinds, p \in Pages : CountsOne(i, k, p)
      BY <2>3, CutIsAccess DEF CutIsRead
    <3>2. pa_count' \in [Thr -> [Kinds -> [Pages -> Nat]]]
      BY <3>1, OneMoreTypes DEF TypeOK
    <3>3. tmp_numacc' = tmp_numacc \/ tmp_numacc' = [tmp_numacc EXCEPT ![i] = @ + 1]
      BY <2>3 DEF ReadCut
    <3>4. tmp_numacc' \in [Thr -> Nat]
      <4>1. tmp_numacc \in [Thr -> Nat]
        BY DEF TypeOK
      <4>2. [tmp_numacc EXCEPT ![i] = @ + 1] \in [Thr -> Nat]
        BY <4>1
      <4>. QED
        BY <3>3, <4>1, <4>2
    <3>. QED
      BY <3>2, <3>4
  <2>. QED
    BY <2>1, <2>2, <2>3 DEF ReadEnd, ReadMark
<1>4. any_trace_done' \in BOOLEAN
  BY DEF ReadEnd, ReadMark, ReadAccess, ReadCut, shared, TypeOK
<1>5. UNCHANGED <<traces, cut, unmerged, loaded, total, lock, total_num_accs, phase>>
  BY DEF ReadEnd, ReadMark, ReadAccess, ReadCut, files, shared
<1>6. cut_read' \subseteq Thr
  BY DEF ReadEnd, ReadMark, ReadAccess, ReadCut, files, TypeOK
<1>. QED
  BY <1>1, <1>2, <1>3, <1>4, <1>5, <1>6 DEF phase, TypeOK

LEMMA MergeTypes ==
    ASSUME TypeOK, NEW i \in Thr,
           Coalesce(i) \/ SetLock(i) \/ UnsetLock(i) \/ Merged(i)
    PROVE  /\ TypeOK'
           /\ UNCHANGED <<files, pa_count, any_trace_done, phase>>
           /\ pc[i] # "read" /\ pc'[i] # "read"
           /\ \A j \in Thr \ {i} : pc'[j] = pc[j]
<1>0. UNCHANGED <<files, pa_count, tmp_numacc, any_trace_done, phase>>
  BY DEF Coalesce, SetLock, UnsetLock, Merged, shared
<1>1. PICK s \in {"merge", "add", "done"} : pc[i] # "read" /\ pc' = [pc EXCEPT ![i] = s]
  BY DEF Coalesce, SetLock, UnsetLock, Merged
<1>2. pc' \in [Thr -> {"read", "coalesce", "merge", "add", "done"}]
      /\ pc'[i] # "read" /\ \A j \in Thr \ {i} : pc'[j] = pc[j]
  BY <1>1 DEF TypeOK
<1>3. TypeOK'
  <2>1. CASE Coalesce(i)
    <3>1. total_num_accs' \in [Thr -> Nat]
      <4>1. total_num_accs' = [total_num_accs EXCEPT ![i] = @ + tmp_numacc[i]]
        BY <2>1 DEF Coalesce
      <4>. QED
        BY <4>1 DEF TypeOK
    <3>2. unmerged' \in [Thr -> SUBSET (Kinds \X Pages)]
      <4>1. PICK E : E = {e \in Kinds \X Pages : pa_count[i][e[1]][e[2]] > 0}
        OBVIOUS
      <4>2. unmerged' = [unmerged EXCEPT ![i] = E] /\ E \in SUBSET (Kinds \X Pages)
        BY <2>1, <4>1 DEF Coalesce
      <4>. QED
        BY <4>2 DEF TypeOK
    <3>3. UNCHANGED <<loaded, total, lock>>
      BY <2>1 DEF Coalesce
    <3>. QED
      BY <1>0, <1>2, <3>1, <3>2, <3>3 DEF files, phase, TypeOK
  <2>2. CASE SetLock(i)
    <3>1. PICK e \in NextToMerge(i) :
             /\ lock' = [lock EXCEPT ![e[1]] = i]
             /\ loaded' = [loaded EXCEPT ![i] = [kind |-> e[1], page |-> e[2],
                                                 was |-> total[e[1]][e[2]]]]
      BY <2>2 DEF SetLock
    <3>2. e[1] \in Kinds /\ e[2] \in Pages
      <4>1. e \in unmerged[i]
        BY DEF NextToMerge
      <4>2. e \in Kinds \X Pages
        BY <4>1 DEF TypeOK
      <4>. QED
        BY <4>2
    <3>3. lock' \in [Kinds -> Thr \cup {Free}]
      BY <3>1, <3>2 DEF TypeOK
    <3>4. loaded' \in [Thr -> [kind : Kinds, page : Pages, was : Nat]]
      <4>1. total[e[1]][e[2]] \in Nat
        BY <3>2 DEF TypeOK
      <4>. QED
        BY <3>1, <3>2, <4>1 DEF TypeOK
    <3>5. UNCHANGED <<unmerged, total, total_num_accs>>
      BY <2>2 DEF SetLock
    <3>. QED
      BY <1>0, <1>2, <3>3, <3>4, <3>5 DEF files, phase, TypeOK
  <2>3. CASE UnsetLock(i)
    <3>1. PICK k \in Kinds, p \in Pages, w \in Nat :
             k = loaded[i].kind /\ p = loaded[i].page /\ w = loaded[i].was
      BY DEF TypeOK
    <3>2. /\ total' = [total EXCEPT ![k][p] = w + pa_count[i][k][p]]
          /\ unmerged' = [unmerged EXCEPT ![i] = @ \ {<<k, p>>}]
          /\ lock' = [lock EXCEPT ![k] = Free]
          /\ loaded' = [loaded EXCEPT ![i] = Nothing]
          /\ UNCHANGED total_num_accs
      BY <2>3, <3>1 DEF UnsetLock
    <3>3. total' \in [Kinds -> [Pages -> Nat]]
      <4>1. w + pa_count[i][k][p] \in Nat
        BY DEF TypeOK
      <4>. QED
        BY <3>2, <4>1 DEF TypeOK
    <3>4. unmerged' \in [Thr -> SUBSET (Kinds \X Pages)]
      BY <3>2 DEF TypeOK
    <3>5. lock' \in [Kinds -> Thr \cup {Free}]
      BY <3>2 DEF TypeOK
    <3>6. loaded' \in [Thr -> [kind : Kinds, page : Pages, was : Nat]]
      BY <3>2, Constants DEF TypeOK
    <3>. QED
      BY <1>0, <1>2, <3>2, <3>3, <3>4, <3>5, <3>6 DEF files, phase, TypeOK
  <2>4. CASE Merged(i)
    <3>1. UNCHANGED <<unmerged, loaded, total, lock, total_num_accs>>
      BY <2>4 DEF Merged, shared
    <3>. QED
      BY <1>0, <1>2, <3>1 DEF files, phase, TypeOK
  <2>. QED
    BY <2>1, <2>2, <2>3, <2>4
<1>. QED
  BY <1>0, <1>1, <1>2, <1>3

LEMMA EndPhaseTypes ==
    ASSUME IInv, EndPhase
    PROVE  TypeOK'
<1>1. TypeOK /\ curphase < MaxPhases /\ main = "parallel"
  BY DEF IInv, Phases, EndPhase, AllDone
<1>2. /\ curphase' = curphase + 1 /\ curphase \in 0 .. MaxPhases
      /\ UNCHANGED <<traces, cut, rest, cut_read, lock, any_trace_done>>
  BY <1>1 DEF EndPhase, files, TypeOK
<1>3. curphase' \in 0 .. MaxPhases
  BY <1>1, <1>2, Constants
<1>4. CASE LoopEnds
  <2>1. main' = "ended"
        /\ UNCHANGED <<pc, pa_count, tmp_numacc, unmerged, loaded, total, total_num_accs,
                       phase_end_cycle>>
    BY <1>4 DEF EndPhase, locals
  <2>. QED
    BY <1>1, <1>2, <1>3, <2>1 DEF TypeOK
<1>5. CASE ~LoopEnds
  <2>1. /\ pc' = [i \in Thr |-> "read"]
        /\ pa_count' = [i \in Thr |-> NoCounts]
        /\ tmp_numacc' = [i \in Thr |-> 0]
        /\ total' = NoCounts
        /\ total_num_accs' = [i \in Thr |-> 0]
        /\ phase_end_cycle' = phase_end_cycle + PHASE_CYCLES
        /\ UNCHANGED <<unmerged, loaded, main>>
    BY <1>5 DEF EndPhase
  <2>2. phase_end_cycle' \in Nat
    BY <1>1, <2>1, Constants DEF TypeOK
  <2>3. tmp_numacc' \in [Thr -> Nat] /\ total_num_accs' \in [Thr -> Nat]
    BY <2>1
  <2>4. pa_count' \in [Thr -> [Kinds -> [Pages -> Nat]]] /\ total' \in [Kinds -> [Pages -> Nat]]
    BY <2>1, Constants
  <2>5. pc' \in [Thr -> {"read", "coalesce", "merge", "add", "done"}]
    BY <2>1
  <2>. QED
    BY <1>1, <1>2, <1>3, <2>1, <2>2, <2>3, <2>4, <2>5 DEF TypeOK
<1>. QED
  BY <1>4, <1>5

LEMMA StepIInv ==
    IInv /\ [Next]_vars => IInv'
<1>. SUFFICES ASSUME IInv, [Next]_vars PROVE IInv'
  OBVIOUS
<1>1. TypeOK /\ Phases /\ \A i \in Thr : RestOfTrace(i)
  BY DEF IInv
<1>2. ASSUME NEW i \in Thr, Iteration(i), main = "parallel"
      PROVE  IInv'
  <2>1. \A j \in Thr : Reading(j)
    BY <1>1, <1>2 DEF Phases
  <2>2. UNCHANGED <<traces, cut, curphase, phase_end_cycle, main>>
        /\ (any_trace_done => any_trace_done')
        /\ (cut_read' = cut_read \/ cut_read' = cut_read \cup {i})
    BY <1>2 DEF Iteration, ReadEnd, ReadMark, ReadAccess, ReadCut, Coalesce, SetLock, UnsetLock,
                Merged, files, shared, phase
  <2>3. ASSUME NEW j \in Thr \ {i}
        PROVE  /\ rest'[j] = rest[j] /\ pa_count'[j] = pa_count[j] /\ pc'[j] = pc[j]
               /\ j \in cut_read' <=> j \in cut_read
    <3>1. CASE ReadEnd(i) \/ ReadMark(i)
      <4>1. pa_count' = pa_count
        BY <3>1 DEF ReadEnd, ReadMark
      <4>2. pc' = pc \/ pc' = [pc EXCEPT ![i] = "coalesce"]
        BY <3>1 DEF ReadEnd, ReadMark, StopReading
      <4>3. rest' = rest \/ rest' = [rest EXCEPT ![i] = Tail(@)]
        BY <3>1 DEF ReadEnd, ReadMark, files
      <4>. QED
        BY <1>1, <2>2, <4>1, <4>2, <4>3 DEF TypeOK
    <3>2. CASE ReadAccess(i)
      <4>1. PICK a : a = Head(rest[i])
        OBVIOUS
      <4>2. \/ pa_count' = pa_count
            \/ pa_count' = [pa_count EXCEPT ![i][a.rw][a.page] =
                                                pa_count[i][a.rw][a.page] + 1]
        BY <3>2, <4>1 DEF ReadAccess, CountAccess
      <4>3. pc' = pc \/ pc' = [pc EXCEPT ![i] = "coalesce"]
        BY <3>2 DEF ReadAccess, StopReading
      <4>4. rest' = [rest EXCEPT ![i] = Tail(@)]
        BY <3>2 DEF ReadAccess
      <4>. QED
        BY <1>1, <2>2, <4>2, <4>3, <4>4 DEF TypeOK
    <3>3. CASE Coalesce(i) \/ SetLock(i) \/ UnsetLock(i) \/ Merged(i)
      BY <1>1, <3>3, MergeTypes DEF files
    <3>4. CASE ReadCut(i)
      <4>1. /\ UNCHANGED <<rest, pc>>
            /\ pa_count' = pa_count \/ \E k \in Kinds, p \in Pages : CountsOne(i, k, p)
        BY <1>1, <3>4, CutIsAccess DEF CutIsRead
      <4>2. pa_count'[j] = pa_count[j]
        BY <1>1, <4>1 DEF CountsOne, TypeOK
      <4>. QED
        BY <2>2, <4>1, <4>2
    <3>. QED
      BY <1>2, <3>1, <3>2, <3>3, <3>4 DEF Iteration
  <2>4. \A j \in Thr \ {i} : RestOfTrace(j)' /\ Reading(j)'
    BY <1>1, <2>1, <2>2, <2>3, KeepsReading
  <2>5. TypeOK' /\ RestOfTrace(i)' /\ Reading(i)'
    <3>1. CASE ReadEnd(i) \/ ReadMark(i) \/ ReadAccess(i) \/ ReadCut(i)
      BY <1>1, <1>2, <3>1, ReadTypes, ReadEndReading, ReadMarkReading, ReadAccessReading,
         ReadCutReading
    <3>2. CASE Coalesce(i) \/ SetLock(i) \/ UnsetLock(i) \/ Merged(i)
      <4>1. /\ TypeOK' /\ UNCHANGED <<traces, cut, rest, cut_read, pa_count>>
            /\ pc[i] # "read" /\ pc'[i] # "read"
        BY <1>1, <3>2, MergeTypes DEF files
      <4>. QED
        BY <1>1, <2>1, <2>2, <4>1, KeepsReading
    <3>. QED
      BY <1>2, <3>1, <3>2 DEF Iteration
  <2>6. Phases'
    BY <1>1, <2>2, <2>4, <2>5 DEF Phases
  <2>. QED
    BY <2>4, <2>5, <2>6 DEF IInv
<1>3. ASSUME NEW i \in Thr, Iteration(i), main # "parallel"
      PROVE  IInv'
  <2>1. UNCHANGED <<traces, curphase, phase_end_cycle, main>>
    BY <1>3 DEF Iteration, ReadEnd, ReadMark, ReadAccess, ReadCut, Coalesce, SetLock, UnsetLock,
                Merged, files, shared, phase
  <2>2. Phases'
    BY <1>1, <1>3, <2>1 DEF Phases
  <2>3. TypeOK'
    BY <1>1, <1>3, ReadTypes, MergeTypes DEF Iteration
  <2>4. ASSUME NEW j \in Thr PROVE RestOfTrace(j)'
    <3>1. CASE UNCHANGED <<rest, cut_read>>
      BY <1>1, <2>1, <3>1 DEF RestOfTrace, At
    <3>2. CASE rest[i] # <<>> /\ rest' = [rest EXCEPT ![i] = Tail(@)] /\ UNCHANGED cut_read
      <4>1. CASE j = i
        BY <1>1, <2>1, <3>2, <4>1, DropItem
      <4>2. CASE j # i
        <5>1. rest'[j] = rest[j]
          BY <1>1, <3>2, <4>2 DEF TypeOK
        <5>2. At(j)' = At(j)
          BY <2>1, <5>1 DEF At
        <5>. QED
          BY <1>1, <2>1, <3>2, <5>1, <5>2 DEF RestOfTrace
      <4>. QED
        BY <4>1, <4>2
    <3>3. CASE UNCHANGED rest /\ rest[i] = <<>> /\ cut_read' = cut_read \cup {i}
      <4>1. At(j)' = At(j)
        BY <2>1, <3>3 DEF At
      <4>. QED
        BY <1>1, <2>1, <3>3, <4>1 DEF RestOfTrace
    <3>. QED
      BY <1>3, <3>1, <3>2, <3>3 DEF Iteration, ReadEnd, ReadMark, ReadAccess, ReadCut,
                                    Coalesce, SetLock, UnsetLock, Merged, files
  <2>. QED
    BY <2>2, <2>3, <2>4 DEF IInv
<1>4. CASE EndPhase
  <2>1. UNCHANGED <<traces, rest, cut_read>>
    BY <1>4 DEF EndPhase, files
  <2>2. \A i \in Thr : RestOfTrace(i)'
    BY <1>1, <2>1 DEF RestOfTrace, At
  <2>. QED
    BY <1>4, <2>2, EndPhaseTypes, EndPhasePhases DEF IInv
<1>5. CASE UNCHANGED vars
  <2>1. /\ UNCHANGED <<traces, cut, rest, cut_read>>
        /\ UNCHANGED <<pc, pa_count, tmp_numacc, unmerged, loaded>>
        /\ UNCHANGED <<total, lock, total_num_accs, any_trace_done>>
        /\ UNCHANGED <<curphase, phase_end_cycle, main>>
    BY <1>5 DEF vars, files, locals, shared, phase
  <2>2. TypeOK'
    BY <1>1, <2>1 DEF TypeOK
  <2>3. \A i \in Thr : RestOfTrace(i)'
    BY <1>1, <2>1 DEF RestOfTrace, At
  <2>4. \A i \in Thr : Reading(i) => Reading(i)'
    BY <1>1, <2>1, KeepsReading
  <2>5. Phases'
    BY <1>1, <2>1, <2>4 DEF Phases
  <2>. QED
    BY <2>2, <2>3, <2>5 DEF IInv
<1>. QED
  BY <1>2, <1>3, <1>4, <1>5 DEF Next, Terminated

-----------------------------------------------------------------------------
(* What follows.                                                           *)

\* Behind the item at which a thread stopped there is no access of its phase.
LEMMA NothingLeft ==
    ASSUME IInv, main = "parallel", NEW i \in Thr, pc[i] # "read",
           NEW k \in Kinds, NEW p \in Pages
    PROVE  InPhase(i, k, p) = PhaseUpTo(i, At(i), k, p)
<1>1. TypeOK /\ Reading(i) /\ phase_end_cycle \in Nat
  BY DEF IInv, Phases, TypeOK
<1>2. /\ traces[i] \in Seq(Items) /\ Len(traces[i]) \in Nat
      /\ DividedByMarks(traces[i], LastCount(traces[i]), MARK_INTERVAL)
      /\ \A m \in 1 .. Len(traces[i]) :
            traces[i][m] \in Items /\ TimeOf(traces[i][m]) \in Nat
      /\ DOMAIN traces[i] = 1 .. Len(traces[i])
  BY <1>1, TraceFacts
<1>3. SUFFICES ASSUME NEW m \in InPhase(i, k, p)
               PROVE  m <= At(i)
  BY DEF PhaseUpTo
<1>4. /\ m \in 1 .. Len(traces[i]) /\ ~IsMark(traces[i][m])
      /\ traces[i][m].ts \in phase_end_cycle - PHASE_CYCLES .. phase_end_cycle - 1
  BY <1>2 DEF InPhase, CurrentPhase
<1>5. CASE At(i) = Len(traces[i])
  BY <1>2, <1>4, <1>5
<1>6. CASE At(i) # Len(traces[i])
  <2>1. PICK n \in 1 .. Len(traces[i]) :
           n = At(i) /\ IsMark(traces[i][n]) /\ traces[i][n].mark = phase_end_cycle
    BY <1>1, <1>6 DEF Reading
  <2>2. CASE m <= n
    BY <2>1, <2>2
  <2>3. CASE ~ (m <= n)
    <3>1. n \in 1 .. m
      BY <1>2, <1>4, <2>3
    <3>2. TimeOf(traces[i][n]) <= TimeOf(traces[i][m])
      BY <1>2, <1>4, <3>1, TimesGrow
    <3>3. TimeOf(traces[i][n]) = phase_end_cycle /\ TimeOf(traces[i][m]) = traces[i][m].ts
      BY <1>2, <1>4, <2>1, ItemFacts
    <3>4. traces[i][m].ts < phase_end_cycle
      <4>1. PHASE_CYCLES \in Nat
        BY Constants
      <4>. QED
        BY <1>1, <1>4, <4>1
    <3>5. traces[i][m].ts \in Nat
      BY <1>2, <1>4, <3>3
    <3>. QED
      BY <1>1, <3>2, <3>3, <3>4, <3>5
  <2>. QED
    BY <2>2, <2>3
<1>. QED
  BY <1>5, <1>6

\* The one that is cut is read in the phase of the last item.
LEMMA CutCounted ==
    ASSUME IInv, main = "parallel", NEW i \in Thr, pc[i] # "read",
           NEW k \in Kinds, NEW p \in Pages, CutIs(i, k, p)
    PROVE  LastCount(traces[i]) \in CurrentPhase <=> i \in cut_read
<1>1. TypeOK /\ Reading(i) /\ phase_end_cycle \in Nat /\ PHASE_CYCLES \in Nat
      /\ phase_end_cycle # 0
  BY Constants DEF IInv, Phases, TypeOK
<1>2. /\ traces[i] \in Seq(Items) /\ Len(traces[i]) \in Nat
      /\ DividedByMarks(traces[i], LastCount(traces[i]), MARK_INTERVAL)
      /\ \A m \in 1 .. Len(traces[i]) :
            traces[i][m] \in Items /\ TimeOf(traces[i][m]) \in Nat
      /\ LastCount(traces[i]) \in Nat
  BY <1>1, TraceFacts
<1>3. cut[i] # NoWord
  BY CutFacts
<1>4. LastCount(traces[i]) >= phase_end_cycle - PHASE_CYCLES
  BY <1>1 DEF Reading
<1>5. traces[i] # <<>> => /\ Len(traces[i]) \in 1 .. Len(traces[i])
                          /\ LastCount(traces[i]) = TimeOf(traces[i][Len(traces[i])])
  BY <1>2, EmptySeq DEF LastCount
<1>6. CASE /\ At(i) = Len(traces[i])
           /\ cut[i] = NoWord \/ i \in cut_read
           /\ \A m \in 1 .. At(i) : TimeOf(traces[i][m]) < phase_end_cycle
  <2>1. LastCount(traces[i]) < phase_end_cycle
    <3>1. CASE traces[i] = <<>>
      BY <1>1, <3>1 DEF LastCount
    <3>2. CASE traces[i] # <<>>
      BY <1>5, <1>6, <3>2
    <3>. QED
      BY <3>1, <3>2
  <2>2. LastCount(traces[i]) \in CurrentPhase
    BY <1>1, <1>2, <1>4, <2>1 DEF CurrentPhase
  <2>. QED
    BY <1>3, <1>6, <2>2
<1>7. CASE /\ At(i) \in 1 .. Len(traces[i]) /\ i \notin cut_read
           /\ IsMark(traces[i][At(i)])
           /\ traces[i][At(i)].mark = phase_end_cycle
  <2>1. PICK n \in 1 .. Len(traces[i]) : n = At(i)
    BY <1>7
  <2>2. TimeOf(traces[i][n]) = phase_end_cycle
    BY <1>2, <1>7, <2>1, ItemFacts
  <2>3. Len(traces[i]) \in 1 .. Len(traces[i]) /\ n \in 1 .. Len(traces[i])
        /\ traces[i] # <<>>
    BY <1>2, EmptySeq
  <2>4. TimeOf(traces[i][n]) <= TimeOf(traces[i][Len(traces[i])])
    BY <1>2, <2>3, TimesGrow
  <2>5. ~ (LastCount(traces[i]) < phase_end_cycle)
    BY <1>1, <1>2, <1>5, <2>2, <2>3, <2>4
  <2>. QED
    BY <1>1, <1>2, <1>7, <2>5 DEF CurrentPhase
<1>. QED
  BY <1>1, <1>6, <1>7 DEF Reading

LEMMA IInvExact ==
    IInv => PhaseCountsExact /\ EndsWithShortest
<1>. SUFFICES ASSUME IInv PROVE PhaseCountsExact /\ EndsWithShortest
  OBVIOUS
<1>1. ASSUME NEW i \in Thr, pc[i] \notin {"read", "coalesce"}, main = "parallel",
             NEW k \in Kinds, NEW p \in Pages
      PROVE  pa_count[i][k][p] = AccessesInPhase(i, k, p)
  <2>1. pa_count[i][k][p] = ReadOf(i, k, p)
    BY <1>1 DEF IInv, Phases, Reading
  <2>2. InPhase(i, k, p) = PhaseUpTo(i, At(i), k, p)
    BY <1>1, NothingLeft
  <2>3. CutIs(i, k, p) => (LastCount(traces[i]) \in CurrentPhase <=> i \in cut_read)
    BY <1>1, CutCounted
  <2>. QED
    BY <2>1, <2>2, <2>3 DEF CutIs, ReadOf, AccessesInPhase
<1>2. PhaseCountsExact
  BY <1>1 DEF PhaseCountsExact
<1>3. EndsWithShortest
  BY DEF IInv, Phases, Reading, EndsWithShortest
<1>. QED
  BY <1>2, <1>3

LEMMA IInvAlways ==
    Spec => []IInv
BY InitIInv, StepIInv, PTL DEF Spec

\* The variables keep their types, the counter of phases its bound among them.
THEOREM TypeCorrect ==
    Spec => []TypeOK
<1>1. IInv => TypeOK
  BY DEF IInv
<1>. QED
  BY <1>1, IInvAlways, PTL

\* A thread that has read a phase has counted each access of the phase once and no
\* access of another, however the threads interleave: the mark that the tracer puts
\* at the phase's end is what it stops at, so no access is read and dropped.  An
\* access whose count is cut at the end of the file is counted in the phase of the
\* last item before it, and in no other.
THEOREM CountsAreExact ==
    Spec => []PhaseCountsExact
<1>1. IInv => PhaseCountsExact
  BY IInvExact
<1>. QED
  BY <1>1, IInvAlways, PTL

\* No phase after the first is begun for which some trace is too short: the flag that
\* the threads share is set in the phase in which any trace ends.
THEOREM EndsWithShortestTrace ==
    Spec => []EndsWithShortest
<1>1. IInv => EndsWithShortest
  BY IInvExact
<1>. QED
  BY <1>1, IInvAlways, PTL

-----------------------------------------------------------------------------
(* The locks.                                                              *)

\* Between omp_set_lock and omp_unset_lock a thread has the lock of the total it
\* changes, and what it read of the total is what the total still is.
LocksHeld ==
    \A i \in Thr : pc[i] = "add" =>
        /\ lock[loaded[i].kind] = i
        /\ loaded[i].was = total[loaded[i].kind][loaded[i].page]

LEMMA FreeIsNoThread ==
    Free \notin Thr
BY DEF Free, Thr

LEMMA SetLockLocks ==
    ASSUME TypeOK, LocksHeld, NEW i \in Thr, SetLock(i)
    PROVE  LocksHeld'
<1>1. PICK e \in NextToMerge(i) :
         /\ lock[e[1]] = Free
         /\ lock' = [lock EXCEPT ![e[1]] = i]
         /\ loaded' = [loaded EXCEPT ![i] = [kind |-> e[1], page |-> e[2],
                                             was |-> total[e[1]][e[2]]]]
  BY DEF SetLock, MayEnter
<1>2. e[1] \in Kinds
  <2>1. e \in unmerged[i]
    BY DEF NextToMerge
  <2>2. e \in Kinds \X Pages
    BY <2>1 DEF TypeOK
  <2>. QED
    BY <2>2
<1>3. pc' = [pc EXCEPT ![i] = "add"] /\ UNCHANGED total
  BY DEF SetLock
<1>4. ASSUME NEW j \in Thr, pc'[j] = "add"
      PROVE  /\ lock'[loaded'[j].kind] = j
             /\ loaded'[j].was = total'[loaded'[j].kind][loaded'[j].page]
  <2>1. CASE j = i
    <3>1. loaded'[i] = [kind |-> e[1], page |-> e[2], was |-> total[e[1]][e[2]]]
      BY <1>1 DEF TypeOK
    <3>2. lock'[e[1]] = i
      BY <1>1, <1>2 DEF TypeOK
    <3>. QED
      BY <1>3, <2>1, <3>1, <3>2
  <2>2. CASE j # i
    <3>1. pc[j] = "add" /\ loaded'[j] = loaded[j]
      BY <1>1, <1>3, <1>4, <2>2 DEF TypeOK
    <3>2. lock[loaded[j].kind] = j /\ loaded[j].was = total[loaded[j].kind][loaded[j].page]
      BY <3>1 DEF LocksHeld
    <3>3. loaded[j].kind # e[1]
      BY <1>1, <3>2, FreeIsNoThread
    <3>4. loaded[j].kind \in Kinds
      BY DEF TypeOK
    <3>5. lock'[loaded[j].kind] = lock[loaded[j].kind]
      BY <1>1, <3>3, <3>4 DEF TypeOK
    <3>. QED
      BY <1>3, <3>1, <3>2, <3>5
  <2>. QED
    BY <2>1, <2>2
<1>. QED
  BY <1>4 DEF LocksHeld

LEMMA UnsetLockLocks ==
    ASSUME TypeOK, LocksHeld, NEW i \in Thr, UnsetLock(i)
    PROVE  LocksHeld'
<1>1. PICK k \in Kinds, p \in Pages : k = loaded[i].kind /\ p = loaded[i].page
  BY DEF TypeOK
<1>2. PICK c : c = loaded[i].was + pa_count[i][k][p]
  OBVIOUS
<1>3. /\ pc[i] = "add" /\ pc' = [pc EXCEPT ![i] = "merge"]
      /\ total' = [total EXCEPT ![k][p] = c]
      /\ lock' = [lock EXCEPT ![k] = Free]
      /\ loaded' = [loaded EXCEPT ![i] = Nothing]
  BY <1>1, <1>2 DEF UnsetLock
<1>4. lock[k] = i
  BY <1>1, <1>3 DEF LocksHeld
<1>5. ASSUME NEW j \in Thr, pc'[j] = "add"
      PROVE  /\ lock'[loaded'[j].kind] = j
             /\ loaded'[j].was = total'[loaded'[j].kind][loaded'[j].page]
  <2>1. j # i
    BY <1>3, <1>5 DEF TypeOK
  <2>2. pc[j] = "add" /\ loaded'[j] = loaded[j]
    BY <1>3, <1>5, <2>1 DEF TypeOK
  <2>3. lock[loaded[j].kind] = j /\ loaded[j].was = total[loaded[j].kind][loaded[j].page]
    BY <2>2 DEF LocksHeld
  <2>4. loaded[j].kind # k /\ loaded[j].kind \in Kinds
    BY <1>4, <2>1, <2>3 DEF TypeOK
  <2>5. lock'[loaded[j].kind] = lock[loaded[j].kind]
        /\ total'[loaded[j].kind] = total[loaded[j].kind]
    BY <1>3, <2>4 DEF TypeOK
  <2>. QED
    BY <2>2, <2>3, <2>5
<1>. QED
  BY <1>5 DEF LocksHeld

LEMMA StepLocks ==
    TypeOK /\ LocksHeld /\ [Next]_vars => LocksHeld'
<1>. SUFFICES ASSUME TypeOK, LocksHeld, [Next]_vars PROVE LocksHeld'
  OBVIOUS
<1>1. ASSUME NEW i \in Thr, Iteration(i)
      PROVE  LocksHeld'
  <2>1. CASE \/ ReadEnd(i) \/ ReadMark(i) \/ ReadAccess(i) \/ ReadCut(i)
             \/ Coalesce(i) \/ Merged(i)
    <3>1. UNCHANGED <<lock, loaded, total>>
      BY <2>1 DEF ReadEnd, ReadMark, ReadAccess, ReadCut, Coalesce, Merged, shared
    <3>2. pc' = pc \/ \E s \in {"coalesce", "merge", "done"} : pc' = [pc EXCEPT ![i] = s]
      BY <2>1 DEF ReadEnd, ReadMark, ReadAccess, ReadCut, Coalesce, Merged, StopReading
    <3>3. \A j \in Thr : pc'[j] = "add" => pc[j] = "add"
      BY <3>2 DEF TypeOK
    <3>. QED
      BY <3>1, <3>3 DEF LocksHeld
  <2>2. CASE SetLock(i)
    BY <2>2, SetLockLocks
  <2>3. CASE UnsetLock(i)
    BY <2>3, UnsetLockLocks
  <2>. QED
    BY <1>1, <2>1, <2>2, <2>3 DEF Iteration
<1>2. CASE EndPhase
  <2>1. \A i \in Thr : pc'[i] # "add"
    BY <1>2 DEF EndPhase, AllDone, locals
  <2>. QED
    BY <2>1 DEF LocksHeld
<1>3. CASE UNCHANGED vars
  <2>1. UNCHANGED <<pc, lock, loaded, total>>
    BY <1>3 DEF vars, locals, shared
  <2>. QED
    BY <2>1 DEF LocksHeld
<1>. QED
  BY <1>1, <1>2, <1>3 DEF Next, Terminated

\* The two locks are enough for page_Rs and page_Ws: no thread adds its counts to a
\* total that another has changed since it read it, so no addition is lost.
THEOREM LocksProtectTotals ==
    Spec => []LocksHeld
<1>1. Init => LocksHeld
  BY DEF Init, LocksHeld
<1>. QED
  BY <1>1, StepLocks, TypeCorrect, PTL DEF Spec

-----------------------------------------------------------------------------
(* The totals.                                                             *)

CountsOf(i) == [e \in Kinds \X Pages |-> pa_count[i][e[1]][e[2]]]

Coalesced(i) == pc[i] \notin {"read", "coalesce"}

\* What thread i has read is what it has counted, and what it has handed over
Tallied(i) ==
    /\ SumFunctionOnSet(CountsOf(i), Kinds \X Pages) = tmp_numacc[i]
    /\ total_num_accs[i] = IF Coalesced(i) THEN tmp_numacc[i] ELSE 0
    /\ pc[i] = "add" => <<loaded[i].kind, loaded[i].page>> \in unmerged[i]
    /\ pc[i] = "done" => unmerged[i] = {}

\* The part of the total of a page that is thread i's so far
MergedOf(i, k, p) ==
    IF Coalesced(i) /\ <<k, p>> \notin unmerged[i] THEN pa_count[i][k][p] ELSE 0

Merges(k, p) == [i \in Thr |-> MergedOf(i, k, p)]

TotalsMerged ==
    \A k \in Kinds, p \in Pages : total[k][p] = SumFunctionOnSet(Merges(k, p), Thr)

TotalsInv == main = "parallel" => TotalsMerged /\ \A i \in Thr : Tallied(i)

OwnOf(j) == <<pc[j], pa_count[j], tmp_numacc[j], unmerged[j], loaded[j], total_num_accs[j]>>

LEMMA FiniteIndices ==
    /\ IsFiniteSet(Thr)
    /\ IsFiniteSet(Kinds \X Pages)
<1>1. IsFiniteSet(Thr)
  BY FS_Interval, Constants DEF Thr
<1>2. IsFiniteSet(Kinds)
  <2>1. Kinds = {"R"} \cup {"W"}
    BY DEF Kinds
  <2>. QED
    BY <2>1, FS_Singleton, FS_AddElement
<1>. QED
  BY <1>1, <1>2, PhaseReaderAssumption, FS_Product

\* A step of a thread changes what is its own, and the shared totals.
LEMMA OthersKeep ==
    ASSUME TypeOK, NEW i \in Thr, Iteration(i), NEW j \in Thr \ {i}
    PROVE  OwnOf(j)' = OwnOf(j)
<1>. USE DEF OwnOf
<1>1. CASE ReadEnd(i) \/ ReadMark(i)
  <2>1. UNCHANGED <<pa_count, tmp_numacc, unmerged, loaded, total_num_accs>>
    BY <1>1 DEF ReadEnd, ReadMark, shared
  <2>2. pc' = pc \/ pc' = [pc EXCEPT ![i] = "coalesce"]
    BY <1>1 DEF ReadEnd, ReadMark, StopReading
  <2>. QED
    BY <2>1, <2>2 DEF TypeOK
<1>2. CASE ReadAccess(i)
  <2>1. PICK a : a = Head(rest[i])
    OBVIOUS
  <2>2. \/ pa_count' = pa_count
        \/ pa_count' = [pa_count EXCEPT ![i][a.rw][a.page] =
                                            pa_count[i][a.rw][a.page] + 1]
    BY <1>2, <2>1 DEF ReadAccess, CountAccess
  <2>3. pc' = pc \/ pc' = [pc EXCEPT ![i] = "coalesce"]
    BY <1>2 DEF ReadAccess, StopReading
  <2>4. UNCHANGED <<unmerged, loaded, total_num_accs>>
        /\ tmp_numacc' = [tmp_numacc EXCEPT ![i] = @ + 1]
    BY <1>2 DEF ReadAccess, shared
  <2>. QED
    BY <2>2, <2>3, <2>4 DEF TypeOK
<1>3. CASE Coalesce(i)
  BY <1>3 DEF Coalesce, TypeOK
<1>4. CASE SetLock(i)
  <2>1. UNCHANGED <<pa_count, tmp_numacc, unmerged, total_num_accs>>
        /\ pc' = [pc EXCEPT ![i] = "add"]
        /\ \E v : loaded' = [loaded EXCEPT ![i] = v]
    BY <1>4 DEF SetLock
  <2>. QED
    BY <2>1 DEF TypeOK
<1>5. CASE UnsetLock(i)
  <2>1. UNCHANGED <<pa_count, tmp_numacc, total_num_accs>>
        /\ pc' = [pc EXCEPT ![i] = "merge"]
        /\ loaded' = [loaded EXCEPT ![i] = Nothing]
        /\ \E v : unmerged' = [unmerged EXCEPT ![i] = v]
    BY <1>5 DEF UnsetLock
  <2>. QED
    BY <2>1 DEF TypeOK
<1>6. CASE Merged(i)
  BY <1>6 DEF Merged, shared, TypeOK
<1>7. CASE ReadCut(i)
  <2>1. pa_count' = pa_count \/ \E k \in Kinds, p \in Pages : CountsOne(i, k, p)
    BY <1>7, CutIsAccess DEF CutIsRead
  <2>2. pa_count'[j] = pa_count[j]
    BY <2>1 DEF CountsOne, TypeOK
  <2>3. /\ UNCHANGED <<pc, unmerged, loaded, total_num_accs>>
        /\ tmp_numacc' = tmp_numacc \/ tmp_numacc' = [tmp_numacc EXCEPT ![i] = @ + 1]
    BY <1>7 DEF ReadCut, shared
  <2>. QED
    BY <2>2, <2>3 DEF TypeOK
<1>. QED
  BY <1>1, <1>2, <1>3, <1>4, <1>5, <1>6, <1>7 DEF Iteration

\* What is as it was of a thread is merged as it was.
LEMMA OwnKept ==
    ASSUME NEW j \in Thr, OwnOf(j)' = OwnOf(j)
    PROVE  /\ Tallied(j) => Tallied(j)'
           /\ \A k \in Kinds, p \in Pages : MergedOf(j, k, p)' = MergedOf(j, k, p)
<1>1. /\ pc'[j] = pc[j] /\ pa_count'[j] = pa_count[j] /\ tmp_numacc'[j] = tmp_numacc[j]
      /\ unmerged'[j] = unmerged[j] /\ loaded'[j] = loaded[j]
      /\ total_num_accs'[j] = total_num_accs[j]
  BY DEF OwnOf
<1>. QED
  BY <1>1 DEF Tallied, CountsOf, Coalesced, MergedOf

\* An access that is read is one of the phase: the item that ends the phase is
\* its mark.
LEMMA AccessIsOfPhase ==
    ASSUME IInv, main = "parallel", NEW i \in Thr, ReadAccess(i)
    PROVE  \E k \in Kinds, p \in Pages :
             /\ pc[i] = "read" /\ pc' = pc
             /\ pa_count' = [pa_count EXCEPT ![i][k][p] = pa_count[i][k][p] + 1]
             /\ tmp_numacc' = [tmp_numacc EXCEPT ![i] = @ + 1]
             /\ UNCHANGED <<unmerged, total, total_num_accs>>
<1>1. PICK a : a = Head(rest[i])
  OBVIOUS
<1>2. /\ pc[i] = "read" /\ rest[i] # <<>> /\ ~IsMark(a)
      /\ IF a.ts >= phase_end_cycle
         THEN pc' = [pc EXCEPT ![i] = "coalesce"] /\ pa_count' = pa_count
         ELSE /\ pa_count' = [pa_count EXCEPT ![i][a.rw][a.page] =
                                                  pa_count[i][a.rw][a.page] + 1]
              /\ pc' = pc
      /\ rest' = [rest EXCEPT ![i] = Tail(@)]
      /\ UNCHANGED <<traces, cut_read>>
  BY <1>1 DEF ReadAccess, CountAccess, StopReading, EndsPhase
<1>3. tmp_numacc' = [tmp_numacc EXCEPT ![i] = @ + 1]
      /\ UNCHANGED <<unmerged, total, total_num_accs>>
  BY DEF ReadAccess, shared
<1>4. TypeOK /\ RestOfTrace(i)
  BY DEF IInv
<1>5. At(i) + 1 \in 1 .. Len(traces[i]) /\ a = traces[i][At(i) + 1]
  BY <1>1, <1>2, <1>4, DropItem
<1>6. a \in Access /\ TimeOf(a) = a.ts
  <2>1. a \in Items
    BY <1>4, <1>5, TraceFacts
  <2>. QED
    BY <1>2, <2>1, ItemFacts
<1>7. ~ (a.ts >= phase_end_cycle)
  BY <1>2, <1>5, <1>6, NextItem
<1>8. a.rw \in Kinds /\ a.page \in Pages
  BY <1>6 DEF Access
<1>. QED
  BY <1>2, <1>3, <1>7, <1>8

\* One more access counted is one more in the sum of the counts.
LEMMA CountOneMore ==
    ASSUME TypeOK, NEW i \in Thr, NEW k \in Kinds, NEW p \in Pages,
           pa_count' = [pa_count EXCEPT ![i][k][p] = pa_count[i][k][p] + 1]
    PROVE  SumFunctionOnSet(CountsOf(i)', Kinds \X Pages)
             = SumFunctionOnSet(CountsOf(i), Kinds \X Pages) + 1
<1>1. PICK f, g, S : f = CountsOf(i) /\ g = CountsOf(i)' /\ S = Kinds \X Pages
  OBVIOUS
<1>2. pa_count \in [Thr -> [Kinds -> [Pages -> Nat]]]
  BY DEF TypeOK
<1>3. \A e \in S : pa_count'[i][e[1]][e[2]] =
           IF e = <<k, p>> THEN pa_count[i][k][p] + 1 ELSE pa_count[i][e[1]][e[2]]
  <2>. SUFFICES ASSUME NEW u \in Kinds, NEW v \in Pages
                PROVE  pa_count'[i][u][v] =
                         IF u = k /\ v = p THEN pa_count[i][k][p] + 1 ELSE pa_count[i][u][v]
    BY <1>1
  <2>. QED
    BY <1>2
<1>4. /\ IsFiniteSet(S) /\ <<k, p>> \in S
      /\ \A e \in S : f[e] \in Nat
      /\ g[<<k, p>>] = f[<<k, p>>] + 1
      /\ \A e \in S \ {<<k, p>>} : g[e] = f[e]
  <2>1. \A e \in S : f[e] = pa_count[i][e[1]][e[2]] /\ g[e] = pa_count'[i][e[1]][e[2]]
    BY <1>1 DEF CountsOf
  <2>2. IsFiniteSet(S) /\ <<k, p>> \in S
    BY <1>1, FiniteIndices
  <2>3. \A e \in S : e[1] \in Kinds /\ e[2] \in Pages
    BY <1>1
  <2>. QED
    BY <1>2, <1>3, <2>1, <2>2, <2>3
<1>5. Counts(f, S) /\ 1 \in Nat
  BY <1>4 DEF Counts
<1>6. SumFunctionOnSet(g, S) = SumFunctionOnSet(f, S) + 1
  BY <1>4, <1>5, SumChange
<1>. QED
  BY <1>1, <1>6

\* Reading: the counts add up to what is read, and nothing is merged.
LEMMA ReadingTallies ==
    ASSUME IInv, main = "parallel", NEW i \in Thr, Tallied(i),
           ReadEnd(i) \/ ReadMark(i) \/ ReadAccess(i) \/ ReadCut(i)
    PROVE  /\ Tallied(i)'
           /\ UNCHANGED total
           /\ \A k \in Kinds, p \in Pages : MergedOf(i, k, p)' = MergedOf(i, k, p)
<1>1. TypeOK
  BY DEF IInv
<1>2. CASE ReadEnd(i) \/ ReadMark(i)
  <2>1. /\ UNCHANGED <<pa_count, tmp_numacc, unmerged, total, total_num_accs>>
        /\ pc[i] = "read"
        /\ pc' = pc \/ pc' = [pc EXCEPT ![i] = "coalesce"]
    BY <1>2 DEF ReadEnd, ReadMark, StopReading, shared
  <2>2. pc'[i] \in {"read", "coalesce"}
    BY <1>1, <2>1 DEF TypeOK
  <2>. QED
    BY <2>1, <2>2 DEF Tallied, CountsOf, Coalesced, MergedOf
<1>3. CASE ReadCut(i) /\ UNCHANGED <<pa_count, tmp_numacc>>
  <2>1. UNCHANGED <<pa_count, tmp_numacc, pc, unmerged, total, total_num_accs, loaded>>
    BY <1>1, <1>3, CutIsAccess DEF CutIsRead, shared
  <2>. QED
    BY <2>1 DEF Tallied, CountsOf, Coalesced, MergedOf
<1>4. CASE ReadAccess(i) \/ (ReadCut(i) /\ ~UNCHANGED <<pa_count, tmp_numacc>>)
  <2>1. PICK k \in Kinds, p \in Pages :
             /\ pc[i] = "read" /\ pc' = pc
             /\ pa_count' = [pa_count EXCEPT ![i][k][p] = pa_count[i][k][p] + 1]
             /\ tmp_numacc' = [tmp_numacc EXCEPT ![i] = @ + 1]
             /\ UNCHANGED <<unmerged, total, total_num_accs>>
    <3>1. CASE ReadAccess(i)
      BY <3>1, AccessIsOfPhase
    <3>2. CASE ReadCut(i) /\ ~UNCHANGED <<pa_count, tmp_numacc>>
      <4>1. UNCHANGED <<pc, unmerged, total, total_num_accs>> /\ pc[i] = "read"
        BY <1>1, <3>2, CutIsAccess DEF CutIsRead, shared
      <4>2. \E k \in Kinds, p \in Pages :
               /\ pa_count' = [pa_count EXCEPT ![i][k][p] = pa_count[i][k][p] + 1]
               /\ tmp_numacc' = [tmp_numacc EXCEPT ![i] = @ + 1]
        <5>1. \/ UNCHANGED <<pa_count, tmp_numacc>>
              \/ /\ \E k \in Kinds, p \in Pages : CountsOne(i, k, p)
                 /\ tmp_numacc' = [tmp_numacc EXCEPT ![i] = @ + 1]
          BY <1>1, <3>2, CutIsAccess DEF CutIsRead
        <5>2. PICK k \in Kinds, p \in Pages : CountsOne(i, k, p)
          BY <3>2, <5>1
        <5>. QED
          BY <3>2, <5>1, <5>2 DEF CountsOne
      <4>. QED
        BY <4>1, <4>2
    <3>. QED
      BY <1>4, <3>1, <3>2
  <2>2. SumFunctionOnSet(CountsOf(i)', Kinds \X Pages)
          = SumFunctionOnSet(CountsOf(i), Kinds \X Pages) + 1
    BY <1>1, <2>1, CountOneMore
  <2>3. tmp_numacc'[i] = tmp_numacc[i] + 1
    BY <1>1, <2>1 DEF TypeOK
  <2>. QED
    BY <2>1, <2>2, <2>3 DEF Tallied, Coalesced, MergedOf
<1>. QED
  BY <1>2, <1>3, <1>4

\* The critical section, taking a lock and the end of an iteration merge nothing.
LEMMA WaitingTallies ==
    ASSUME TypeOK, NEW i \in Thr, Tallied(i), Coalesce(i) \/ SetLock(i) \/ Merged(i)
    PROVE  /\ Tallied(i)'
           /\ UNCHANGED total
           /\ \A k \in Kinds, p \in Pages : MergedOf(i, k, p)' = MergedOf(i, k, p)
<1>1. CASE Coalesce(i)
  <2>1. /\ UNCHANGED <<pa_count, tmp_numacc, total>>
        /\ pc[i] = "coalesce" /\ pc'[i] = "merge"
        /\ total_num_accs'[i] = total_num_accs[i] + tmp_numacc[i]
        /\ unmerged'[i] = {e \in Kinds \X Pages : pa_count[i][e[1]][e[2]] > 0}
    BY <1>1 DEF Coalesce, TypeOK
  <2>2. total_num_accs[i] = 0 /\ tmp_numacc[i] \in Nat
    BY <2>1 DEF Tallied, Coalesced, TypeOK
  <2>3. \A k \in Kinds, p \in Pages :
          <<k, p>> \notin unmerged'[i] => pa_count[i][k][p] = 0
    <3>1. \A k \in Kinds, p \in Pages : pa_count[i][k][p] \in Nat
      BY DEF TypeOK
    <3>. QED
      BY <2>1, <3>1
  <2>. QED
    BY <2>1, <2>2, <2>3 DEF Tallied, CountsOf, Coalesced, MergedOf
<1>2. CASE SetLock(i)
  <2>1. /\ UNCHANGED <<pa_count, tmp_numacc, unmerged, total, total_num_accs>>
        /\ pc[i] = "merge" /\ pc'[i] = "add"
    BY <1>2 DEF SetLock, TypeOK
  <2>2. PICK e \in NextToMerge(i) :
          loaded' = [loaded EXCEPT ![i] = [kind |-> e[1], page |-> e[2],
                                           was |-> total[e[1]][e[2]]]]
    BY <1>2 DEF SetLock
  <2>3. e \in unmerged[i] /\ e \in Kinds \X Pages
    <3>1. e \in unmerged[i]
      BY DEF NextToMerge
    <3>. QED
      BY <3>1 DEF TypeOK
  <2>4. <<loaded'[i].kind, loaded'[i].page>> = e
    BY <2>2, <2>3 DEF TypeOK
  <2>. QED
    BY <2>1, <2>3, <2>4 DEF Tallied, CountsOf, Coalesced, MergedOf
<1>3. CASE Merged(i)
  <2>1. /\ UNCHANGED <<pa_count, tmp_numacc, unmerged, total, total_num_accs>>
        /\ pc[i] = "merge" /\ pc'[i] = "done" /\ unmerged[i] = {}
    BY <1>3 DEF Merged, shared, TypeOK
  <2>. QED
    BY <2>1 DEF Tallied, CountsOf, Coalesced, MergedOf
<1>. QED
  BY <1>1, <1>2, <1>3

\* The totals are as they were when nothing is merged.
LEMMA TotalsKept ==
    ASSUME UNCHANGED total, TotalsMerged,
           \A i \in Thr : \A k \in Kinds, p \in Pages : MergedOf(i, k, p)' = MergedOf(i, k, p)
    PROVE  TotalsMerged'
<1>1. \A k \in Kinds, p \in Pages : Merges(k, p)' = Merges(k, p)
  BY DEF Merges
<1>. QED
  BY <1>1 DEF TotalsMerged

\* Another element's counts kept, one merge adds what was counted of it.
LEMMA MergeOneMore ==
    ASSUME TypeOK, NEW i \in Thr, NEW k \in Kinds, NEW p \in Pages,
           \A j \in Thr \ {i} : MergedOf(j, k, p)' = MergedOf(j, k, p),
           MergedOf(i, k, p) = 0, MergedOf(i, k, p)' = pa_count[i][k][p]
    PROVE  SumFunctionOnSet(Merges(k, p)', Thr)
             = SumFunctionOnSet(Merges(k, p), Thr) + pa_count[i][k][p]
<1>1. PICK f, g : f = Merges(k, p) /\ g = Merges(k, p)'
  OBVIOUS
<1>2. /\ \A j \in Thr : f[j] = MergedOf(j, k, p) /\ g[j] = MergedOf(j, k, p)'
      /\ IsFiniteSet(Thr)
  BY <1>1, FiniteIndices DEF Merges
<1>3. PICK d \in Nat : d = pa_count[i][k][p]
  BY DEF TypeOK
<1>4. \A j \in Thr : f[j] \in Nat
  <2>1. \A j \in Thr : pa_count[j][k][p] \in Nat
    BY DEF TypeOK
  <2>. QED
    BY <1>2, <2>1 DEF MergedOf
<1>5. Counts(f, Thr)
  BY <1>4 DEF Counts
<1>6. /\ g[i] = f[i] + d
      /\ \A j \in Thr \ {i} : g[j] = f[j]
  BY <1>2, <1>3
<1>7. SumFunctionOnSet(g, Thr) = SumFunctionOnSet(f, Thr) + d
  BY <1>2, <1>5, <1>6, SumChange
<1>. QED
  BY <1>1, <1>3, <1>7

\* The addition under the lock: the total of the page grows by what the thread has
\* counted of it, and that becomes its part of the total.
LEMMA UnsetLockTallies ==
    ASSUME TypeOK, LocksHeld, TotalsMerged, NEW i \in Thr, Tallied(i), UnsetLock(i),
           \A j \in Thr \ {i} : \A k \in Kinds, p \in Pages :
              MergedOf(j, k, p)' = MergedOf(j, k, p)
    PROVE  Tallied(i)' /\ TotalsMerged'
<1>1. PICK k \in Kinds, p \in Pages : k = loaded[i].kind /\ p = loaded[i].page
  BY DEF TypeOK
<1>2. /\ UNCHANGED <<pa_count, tmp_numacc, total_num_accs>>
      /\ pc[i] = "add" /\ pc'[i] = "merge"
      /\ unmerged' = [unmerged EXCEPT ![i] = @ \ {<<k, p>>}]
      /\ total' = [total EXCEPT ![k][p] = loaded[i].was + pa_count[i][k][p]]
  BY <1>1 DEF UnsetLock, TypeOK
<1>3. loaded[i].was = total[k][p]
  BY <1>1, <1>2 DEF LocksHeld
<1>4. unmerged'[i] = unmerged[i] \ {<<k, p>>} /\ <<k, p>> \in unmerged[i]
  BY <1>1, <1>2 DEF Tallied, TypeOK
<1>5. Tallied(i)'
  BY <1>2 DEF Tallied, CountsOf, Coalesced
<1>6. MergedOf(i, k, p) = 0 /\ MergedOf(i, k, p)' = pa_count[i][k][p]
  BY <1>2, <1>4 DEF MergedOf, Coalesced
<1>7. ASSUME NEW u \in Kinds, NEW v \in Pages
      PROVE  total'[u][v] = SumFunctionOnSet(Merges(u, v)', Thr)
  <2>1. total[u][v] = SumFunctionOnSet(Merges(u, v), Thr)
    BY DEF TotalsMerged
  <2>2. CASE u = k /\ v = p
    <3>1. SumFunctionOnSet(Merges(k, p)', Thr)
             = SumFunctionOnSet(Merges(k, p), Thr) + pa_count[i][k][p]
      BY <1>6, MergeOneMore
    <3>2. total'[k][p] = total[k][p] + pa_count[i][k][p]
      BY <1>2, <1>3 DEF TypeOK
    <3>. QED
      BY <2>1, <2>2, <3>1, <3>2
  <2>3. CASE ~ (u = k /\ v = p)
    <3>1. total'[u][v] = total[u][v]
      BY <1>2, <2>3 DEF TypeOK
    <3>2. <<u, v>> \in unmerged'[i] <=> <<u, v>> \in unmerged[i]
      BY <1>4, <2>3
    <3>3. MergedOf(i, u, v)' = MergedOf(i, u, v)
      BY <1>2, <3>2 DEF MergedOf, Coalesced
    <3>4. \A j \in Thr : MergedOf(j, u, v)' = MergedOf(j, u, v)
      BY <3>3
    <3>5. Merges(u, v)' = Merges(u, v)
      BY <3>4 DEF Merges
    <3>. QED
      BY <2>1, <3>1, <3>5
  <2>. QED
    BY <2>2, <2>3
<1>. QED
  BY <1>5, <1>7 DEF TotalsMerged

\* A step of a thread keeps the totals.
LEMMA IterationTallies ==
    ASSUME IInv, LocksHeld, TotalsInv, NEW i \in Thr, Iteration(i)
    PROVE  TotalsInv'
<1>1. main' = main
  BY DEF Iteration, ReadEnd, ReadMark, ReadAccess, ReadCut, Coalesce, SetLock, UnsetLock,
         Merged, phase
<1>2. SUFFICES ASSUME main = "parallel" PROVE TotalsMerged' /\ \A j \in Thr : Tallied(j)'
  BY <1>1 DEF TotalsInv
<1>3. TypeOK /\ TotalsMerged /\ \A j \in Thr : Tallied(j)
  BY <1>2 DEF IInv, TotalsInv
<1>4. ASSUME NEW j \in Thr \ {i}
      PROVE  /\ Tallied(j)'
             /\ \A k \in Kinds, p \in Pages : MergedOf(j, k, p)' = MergedOf(j, k, p)
  <2>1. OwnOf(j)' = OwnOf(j)
    BY <1>3, OthersKeep
  <2>. QED
    BY <1>3, <2>1, OwnKept
<1>5. CASE UnsetLock(i)
  <2>1. Tallied(i)' /\ TotalsMerged'
    BY <1>3, <1>4, <1>5, UnsetLockTallies
  <2>. QED
    BY <1>4, <2>1
<1>6. CASE ~UnsetLock(i)
  <2>1. /\ Tallied(i)'
        /\ UNCHANGED total
        /\ \A k \in Kinds, p \in Pages : MergedOf(i, k, p)' = MergedOf(i, k, p)
    <3>1. CASE ReadEnd(i) \/ ReadMark(i) \/ ReadAccess(i) \/ ReadCut(i)
      BY <1>2, <1>3, <3>1, ReadingTallies
    <3>2. CASE Coalesce(i) \/ SetLock(i) \/ Merged(i)
      BY <1>3, <3>2, WaitingTallies
    <3>. QED
      BY <1>6, <3>1, <3>2 DEF Iteration
  <2>2. \A j \in Thr : \A k \in Kinds, p \in Pages : MergedOf(j, k, p)' = MergedOf(j, k, p)
    BY <1>4, <2>1
  <2>3. TotalsMerged'
    BY <1>3, <2>1, <2>2, TotalsKept
  <2>. QED
    BY <1>4, <2>1, <2>3
<1>. QED
  BY <1>5, <1>6

\* At the start of a phase nothing is counted and nothing merged.
AtStart ==
    /\ pc = [i \in Thr |-> "read"]
    /\ pa_count = [i \in Thr |-> NoCounts]
    /\ tmp_numacc = [i \in Thr |-> 0]
    /\ total = NoCounts
    /\ total_num_accs = [i \in Thr |-> 0]

\* So nothing has to add up.
LEMMA StartTallies ==
    AtStart => TotalsInv
<1>. SUFFICES ASSUME AtStart PROVE TotalsMerged /\ \A i \in Thr : Tallied(i)
  BY DEF TotalsInv
<1>1. ASSUME NEW i \in Thr PROVE Tallied(i)
  <2>1. PICK f, S : f = CountsOf(i) /\ S = Kinds \X Pages
    OBVIOUS
  <2>2. \A e \in S : f[e] = 0
    <3>1. \A e \in S : e[1] \in Kinds /\ e[2] \in Pages
      BY <2>1
    <3>. QED
      BY <2>1, <3>1 DEF CountsOf, AtStart, NoCounts
  <2>3. IsFiniteSet(S)
    BY <2>1, FiniteIndices
  <2>4. SumFunctionOnSet(f, S) = 0
    BY <2>2, <2>3, SumNothing
  <2>. QED
    BY <2>1, <2>4 DEF Tallied, Coalesced, AtStart
<1>2. ASSUME NEW k \in Kinds, NEW p \in Pages
      PROVE  total[k][p] = SumFunctionOnSet(Merges(k, p), Thr)
  <2>1. PICK f : f = Merges(k, p)
    OBVIOUS
  <2>2. \A i \in Thr : f[i] = 0
    BY <2>1 DEF Merges, MergedOf, Coalesced, AtStart
  <2>3. SumFunctionOnSet(f, Thr) = 0
    BY <2>2, FiniteIndices, SumNothing
  <2>. QED
    BY <2>1, <2>3 DEF AtStart, NoCounts
<1>. QED
  BY <1>1, <1>2 DEF TotalsMerged

\* So it is at first.
LEMMA InitTallies ==
    Init => TotalsInv
BY StartTallies DEF Init, AtStart

\* And so it remains.
LEMMA StepTallies ==
    IInv /\ LocksHeld /\ TotalsInv /\ [Next]_vars => TotalsInv'
<1>. SUFFICES ASSUME IInv, LocksHeld, TotalsInv, [Next]_vars PROVE TotalsInv'
  OBVIOUS
<1>1. CASE \E i \in Thr : Iteration(i)
  BY <1>1, IterationTallies
<1>2. CASE EndPhase
  <2>1. main' = "ended" \/ AtStart'
    BY <1>2 DEF EndPhase, AtStart
  <2>2. AtStart' => TotalsInv'
    BY StartTallies, PTL
  <2>. QED
    BY <2>1, <2>2 DEF TotalsInv
<1>3. CASE UNCHANGED vars
  <2>1. UNCHANGED <<main, total>> /\ \A i \in Thr : OwnOf(i)' = OwnOf(i)
    BY <1>3 DEF vars, locals, shared, phase, OwnOf
  <2>2. \A i \in Thr :
           /\ Tallied(i) => Tallied(i)'
           /\ \A k \in Kinds, p \in Pages : MergedOf(i, k, p)' = MergedOf(i, k, p)
    BY <2>1, OwnKept
  <2>3. TotalsMerged => TotalsMerged'
    BY <2>1, <2>2, TotalsKept
  <2>. QED
    BY <2>1, <2>2, <2>3 DEF TotalsInv
<1>. QED
  BY <1>1, <1>2, <1>3 DEF Next, Terminated

\* When all threads are done nothing is left to merge.
LEMMA TotalsInvExact ==
    IInv /\ TotalsInv => PhaseTotalsExact
<1>. SUFFICES ASSUME IInv, TotalsInv, AllDone
              PROVE  /\ \A k \in Kinds, p \in Pages :
                          total[k][p] =
                            SumFunction([i \in Thr |-> AccessesInPhase(i, k, p)])
                     /\ \A i \in Thr :
                          total_num_accs[i] =
                            SumFunction([e \in Kinds \X Pages |->
                                            AccessesInPhase(i, e[1], e[2])])
  BY DEF PhaseTotalsExact
<1>1. /\ main = "parallel" /\ \A i \in Thr : pc[i] = "done" /\ Tallied(i)
      /\ TotalsMerged /\ TypeOK
  BY DEF AllDone, TotalsInv, IInv
<1>2. ASSUME NEW i \in Thr, NEW k \in Kinds, NEW p \in Pages
      PROVE  /\ pa_count[i][k][p] = AccessesInPhase(i, k, p)
             /\ pa_count[i][k][p] \in Nat
             /\ MergedOf(i, k, p) = pa_count[i][k][p]
  <2>1. PhaseCountsExact
    BY IInvExact
  <2>2. pa_count[i][k][p] = AccessesInPhase(i, k, p)
    BY <1>1, <2>1 DEF PhaseCountsExact
  <2>3. unmerged[i] = {}
    BY <1>1 DEF Tallied
  <2>. QED
    BY <1>1, <2>2, <2>3 DEF MergedOf, Coalesced, TypeOK
<1>3. ASSUME NEW k \in Kinds, NEW p \in Pages
      PROVE  total[k][p] = SumFunction([i \in Thr |-> AccessesInPhase(i, k, p)])
  <2>1. PICK f, g : f = Merges(k, p) /\ g = [i \in Thr |-> AccessesInPhase(i, k, p)]
    OBVIOUS
  <2>2. /\ \A i \in Thr : f[i] \in Nat /\ g[i] = f[i]
        /\ DOMAIN g = Thr
    BY <1>2, <2>1 DEF Merges
  <2>3. Counts(f, Thr)
    BY <2>2 DEF Counts
  <2>4. SumFunctionOnSet(g, Thr) = SumFunctionOnSet(f, Thr)
    BY <2>2, <2>3, FiniteIndices, SumSame
  <2>5. SumFunction(g) = SumFunctionOnSet(g, Thr)
    BY <2>2 DEF SumFunction
  <2>. QED
    BY <1>1, <2>1, <2>4, <2>5 DEF TotalsMerged
<1>4. ASSUME NEW i \in Thr
      PROVE  total_num_accs[i] =
               SumFunction([e \in Kinds \X Pages |-> AccessesInPhase(i, e[1], e[2])])
  <2>1. PICK f, g, S : /\ f = CountsOf(i) /\ S = Kinds \X Pages
                       /\ g = [e \in Kinds \X Pages |-> AccessesInPhase(i, e[1], e[2])]
    OBVIOUS
  <2>2. /\ \A e \in S : f[e] \in Nat /\ g[e] = f[e]
        /\ DOMAIN g = S /\ IsFiniteSet(S)
    <3>1. \A e \in S : e[1] \in Kinds /\ e[2] \in Pages
      BY <2>1
    <3>. QED
      BY <1>2, <2>1, <3>1, FiniteIndices DEF CountsOf
  <2>3. Counts(f, S)
    BY <2>2 DEF Counts
  <2>4. SumFunctionOnSet(g, S) = SumFunctionOnSet(f, S)
    BY <2>2, <2>3, SumSame
  <2>5. SumFunction(g) = SumFunctionOnSet(g, S)
    BY <2>2 DEF SumFunction
  <2>6. total_num_accs[i] = SumFunctionOnSet(f, S)
    BY <1>1, <2>1 DEF Tallied, Coalesced
  <2>. QED
    BY <2>1, <2>4, <2>5, <2>6
<1>. QED
  BY <1>3, <1>4

\* At the barrier the totals are those of all traces, and each trace's number of
\* accesses is what its pages add up to: however the threads interleave, no count is
\* lost under the locks, none is merged twice, and none read is left out of the counts.
THEOREM TotalsAreExact ==
    Spec => []PhaseTotalsExact
BY InitTallies, StepTallies, TotalsInvExact, IInvAlways, LocksProtectTotals, PTL DEF Spec

=============================================================================
