---------------------------- MODULE TracerProofs ----------------------------
(***************************************************************************)
(* What the tracer guarantees for any number of threads, any instructions, *)
(* intervals and sizes of the buffers: the form of its traces, on which    *)
(* the programs that read them rely, and that the files for ChampSim are   *)
(* of the phases they are named after.                                     *)
(***************************************************************************)
EXTENDS Tracer, SumTheorems, SequenceTheorems

Items == Record \cup Mark

-----------------------------------------------------------------------------
(* Records and marks.                                                      *)

LEMMA RecordFacts ==
    ASSUME NEW e \in Record
    PROVE  ~IsMark(e) /\ TimeOf(e) = e.ts /\ e.ts \in Nat /\ e \in Items
<1>1. DOMAIN e = {"line", "rw", "ts"} /\ e.ts \in Nat
  BY DEF Record
<1>. QED
  BY <1>1 DEF IsMark, TimeOf, Items

LEMMA MarkFacts ==
    ASSUME NEW e \in Mark
    PROVE  IsMark(e) /\ TimeOf(e) = e.mark /\ e.mark \in Nat /\ e \in Items
<1>1. DOMAIN e = {"mark"} /\ e.mark \in Nat
  BY DEF Mark
<1>. QED
  BY <1>1 DEF IsMark, TimeOf, Items

LEMMA TimeType ==
    ASSUME NEW e \in Items
    PROVE  TimeOf(e) \in Nat
BY RecordFacts, MarkFacts DEF Items

\* Records of one count
RecordsAt(r, n) == r \in Seq(Record) /\ \A k \in 1 .. Len(r) : r[k].ts = n

LEMMA EmptyRecords ==
    ASSUME NEW n
    PROVE  RecordsAt(<<>>, n)
<1>1. <<>> \in Seq(Record) /\ Len(<<>>) = 0
  BY EmptySeq
<1>. QED
  BY <1>1 DEF RecordsAt

LEMMA OneRecord ==
    ASSUME NEW n, NEW e \in Record, e.ts = n
    PROVE  RecordsAt(<<e>>, n)
<1>1. <<e>> \in Seq(Record) /\ Len(<<e>>) = 1 /\ <<e>>[1] = e
  OBVIOUS
<1>. QED
  BY <1>1 DEF RecordsAt

LEMMA ConcatRecords ==
    ASSUME NEW n, NEW r, NEW q, RecordsAt(r, n), RecordsAt(q, n)
    PROVE  RecordsAt(r \o q, n)
<1>1. r \in Seq(Record) /\ q \in Seq(Record) /\ Len(r) \in Nat /\ Len(q) \in Nat
  BY LenProperties DEF RecordsAt
<1>2. /\ r \o q \in Seq(Record) /\ Len(r \o q) = Len(r) + Len(q)
      /\ \A k \in 1 .. Len(r) + Len(q) :
            (r \o q)[k] = IF k <= Len(r) THEN r[k] ELSE q[k - Len(r)]
  BY <1>1, ConcatProperties
<1>3. ASSUME NEW k \in 1 .. Len(r \o q)
      PROVE  (r \o q)[k].ts = n
  <2>1. CASE k <= Len(r)
    BY <1>1, <1>2, <2>1 DEF RecordsAt
  <2>2. CASE ~ (k <= Len(r))
    <3>1. k - Len(r) \in 1 .. Len(q)
      BY <1>1, <1>2, <2>2
    <3>. QED
      BY <1>1, <1>2, <2>2, <3>1 DEF RecordsAt
  <2>. QED
    BY <2>1, <2>2
<1>. QED
  BY <1>2, <1>3 DEF RecordsAt

\* The caches' answers are records of the count at which they are asked.
LEMMA Answers ==
    ASSUME NEW line \in Lines, NEW n \in Nat, NEW recs \in Ul2Answers(line, n)
    PROVE  RecordsAt(recs, n)
<1>1. ASSUME NEW v \in Lines, NEW rw \in {"load", "store"}
      PROVE  RecordsAt(<<[line |-> v, rw |-> rw, ts |-> n]>>, n)
  <2>1. PICK e : e = [line |-> v, rw |-> rw, ts |-> n]
    OBVIOUS
  <2>2. e \in Record /\ e.ts = n
    BY <2>1 DEF Record
  <2>. QED
    BY <2>1, <2>2, OneRecord
<1>2. ASSUME NEW v \in Lines, NEW r, RecordsAt(r, n)
      PROVE  RecordsAt(Append(r, [line |-> v, rw |-> "store", ts |-> n]), n)
  <2>1. PICK e \in Record : e = [line |-> v, rw |-> "store", ts |-> n]
    BY DEF Record
  <2>2. Append(r, e) = r \o <<e>>
    BY <1>2, AppendIsConcat DEF RecordsAt
  <2>. QED
    BY <1>1, <1>2, <2>1, <2>2, ConcatRecords
<1>3. ASSUME NEW a \in Ul3Answers(line, n, FALSE)
      PROVE  RecordsAt(a, n)
  <2>1. PICK read : read = <<[line |-> line, rw |-> "load", ts |-> n]>>
    OBVIOUS
  <2>2. \/ a = <<>> \/ a = read
        \/ \E v \in Lines : a = Append(read, [line |-> v, rw |-> "store", ts |-> n])
    BY <2>1 DEF Ul3Answers
  <2>3. RecordsAt(read, n)
    BY <1>1, <2>1
  <2>. QED
    BY <1>2, <2>2, <2>3, EmptyRecords
<1>4. ASSUME NEW u \in Lines, NEW a \in Ul3Answers(u, n, TRUE)
      PROVE  RecordsAt(a, n)
  <2>1. PICK read : read = <<>>
    OBVIOUS
  <2>2. \/ a = <<>> \/ a = read
        \/ \E v \in Lines : a = Append(read, [line |-> v, rw |-> "store", ts |-> n])
    BY <2>1 DEF Ul3Answers
  <2>3. RecordsAt(read, n)
    BY <2>1, EmptyRecords
  <2>. QED
    BY <1>2, <2>1, <2>2, <2>3
<1>5. PICK E : E = {<<>>} \cup UNION {Ul3Answers(v, n, TRUE) : v \in Lines}
  OBVIOUS
<1>6. \A b \in E : RecordsAt(b, n)
  BY <1>4, <1>5, EmptyRecords
<1>7. recs = <<>> \/ \E a \in Ul3Answers(line, n, FALSE), b \in E : recs = a \o b
  <2>1. recs = <<>> \/ \E a \in Ul3Answers(line, n, FALSE) \X E : recs = a[1] \o a[2]
    BY <1>5 DEF Ul2Answers
  <2>. QED
    BY <2>1
<1>8. CASE recs = <<>>
  BY <1>8, EmptyRecords
<1>9. CASE \E a \in Ul3Answers(line, n, FALSE), b \in E : recs = a \o b
  <2>1. PICK a \in Ul3Answers(line, n, FALSE), b \in E : recs = a \o b
    BY <1>9
  <2>. QED
    BY <1>3, <1>6, <2>1, ConcatRecords
<1>. QED
  BY <1>7, <1>8, <1>9

-----------------------------------------------------------------------------
(* Buffers.                                                                *)

\* What is written out and what stays are the whole, in order, and what stays is
\* short of a full buffer.
LEMMA BufferSplits ==
    ASSUME NEW b \in Seq(Record)
    PROVE  /\ WrittenOut(b) \in Seq(Record) /\ Buffered(b) \in Seq(Record)
           /\ WrittenOut(b) \o Buffered(b) = b
           /\ Len(Buffered(b)) < TBUF_SIZE
<1>1. TBUF_SIZE \in Nat \ {0} /\ Len(b) \in Nat
  BY TracerAssumption, LenProperties
<1>2. PICK q \in Nat, m \in 0 .. TBUF_SIZE - 1 :
         q = Len(b) \div TBUF_SIZE /\ Len(b) = TBUF_SIZE * q + m
  <2>1. PICK len \in Nat, size \in Nat \ {0} : len = Len(b) /\ size = TBUF_SIZE
    BY <1>1
  <2>2. /\ len = size * (len \div size) + (len % size)
        /\ len \div size \in Nat /\ len % size \in 0 .. size - 1
    OBVIOUS
  <2>. QED
    BY <2>1, <2>2
<1>3. PICK f \in Nat : f = TBUF_SIZE * q
  <2>1. TBUF_SIZE * q \in Nat
    BY <1>1
  <2>. QED
    BY <2>1
<1>4. Full(b) = f /\ f + m = Len(b) /\ m < TBUF_SIZE /\ m \in Nat
  BY <1>1, <1>2, <1>3 DEF Full
<1>5. WrittenOut(b) = SubSeq(b, 1, f) /\ Buffered(b) = SubSeq(b, f + 1, Len(b))
  BY <1>4 DEF WrittenOut, Buffered
<1>6. \A k \in 1 .. Len(b) : b[k] \in Record
  BY ElementOfSeq
<1>7. WrittenOut(b) \in Seq(Record)
  <2>1. \A k \in 1 .. f : b[k] \in Record
    BY <1>1, <1>4, <1>6
  <2>. QED
    BY <1>5, <2>1, SubSeqProperties
<1>8. Buffered(b) \in Seq(Record)
      /\ Len(Buffered(b)) = IF f + 1 <= Len(b) THEN Len(b) - (f + 1) + 1 ELSE 0
  <2>1. \A k \in f + 1 .. Len(b) : b[k] \in Record
    BY <1>1, <1>6
  <2>2. f + 1 \in Int /\ Len(b) \in Int
    BY <1>1
  <2>. QED
    BY <1>5, <2>1, <2>2, SubSeqProperties
<1>9. Len(Buffered(b)) < TBUF_SIZE
  BY <1>1, <1>4, <1>8
<1>10. WrittenOut(b) \o Buffered(b) = b
  <2>1. 1 \in 1 .. Len(b) + 1 /\ f \in 1 - 1 .. Len(b) /\ Len(b) \in f .. Len(b)
    BY <1>1, <1>4
  <2>2. SubSeq(b, 1, f) \o SubSeq(b, f + 1, Len(b)) = SubSeq(b, 1, Len(b))
    BY <2>1, ConcatAdjacentSubSeq
  <2>. QED
    BY <1>5, <2>2, SubSeqFull
<1>. QED
  BY <1>7, <1>8, <1>9, <1>10

LEMMA Regroup ==
    ASSUME NEW p \in Seq(Items), NEW q \in Seq(Items), NEW u \in Seq(Items)
    PROVE  (p \o q) \o u = p \o (q \o u)
BY ConcatAssociative

-----------------------------------------------------------------------------
(* Traces.                                                                 *)

\* s has k accesses, in the order of the first c instructions, and their marks
Traced(s, c, k) ==
    /\ s \in Seq(Items)
    /\ DividedByMarks(s, c, MARK_INTERVAL)
    /\ \A n \in 1 .. Len(s) : TimeOf(s[n]) <= c
    /\ Cardinality(Accesses(s)) = k

MarksOf(s) == {s[n].mark : n \in {n \in DOMAIN s : IsMark(s[n])}}

LEMMA AccessesFinite ==
    ASSUME NEW s \in Seq(Items)
    PROVE  /\ IsFiniteSet(Accesses(s)) /\ Cardinality(Accesses(s)) \in Nat
           /\ Accesses(s) \subseteq 1 .. Len(s)
<1>1. Len(s) \in Nat /\ DOMAIN s = 1 .. Len(s)
  BY LenProperties
<1>2. PICK b : b = Len(s) /\ b \in Int
  BY <1>1
<1>3. IsFiniteSet(1 .. b) /\ Accesses(s) \subseteq 1 .. b
  BY <1>1, <1>2, FS_Interval DEF Accesses
<1>. QED
  BY <1>2, <1>3, FS_Subset, FS_CardinalityType

LEMMA NothingTraced ==
    Traced(<<>>, 0, 0)
<1>1. <<>> \in Seq(Items) /\ Len(<<>>) = 0 /\ DOMAIN <<>> = 1 .. 0
  BY EmptySeq
<1>2. Accesses(<<>>) = {}
  BY <1>1 DEF Accesses
<1>3. DividedByMarks(<<>>, 0, MARK_INTERVAL)
  BY <1>1 DEF DividedByMarks
<1>. QED
  BY <1>1, <1>2, <1>3, FS_EmptySet DEF Traced

\* A count that is no multiple of the interval leaves the trace as it is.
LEMMA CountTraced ==
    ASSUME NEW s, NEW c \in Nat, NEW k, Traced(s, c, k), (c + 1) % MARK_INTERVAL # 0
    PROVE  Traced(s, c + 1, k)
<1>1. MARK_INTERVAL \in Nat \ {0} /\ s \in Seq(Items) /\ Len(s) \in Nat
  BY TracerAssumption, LenProperties DEF Traced
<1>2. {n \in 1 .. c : n % MARK_INTERVAL = 0} = {n \in 1 .. c + 1 : n % MARK_INTERVAL = 0}
  <2>1. \A n \in 1 .. c + 1 : n % MARK_INTERVAL = 0 => n \in 1 .. c
    <3>1. \A n \in 1 .. c + 1 : n # c + 1 => n \in 1 .. c
      OBVIOUS
    <3>. QED
      BY <3>1
  <2>2. \A n \in 1 .. c : n \in 1 .. c + 1
    OBVIOUS
  <2>. QED
    BY <2>1, <2>2
<1>3. DividedByMarks(s, c + 1, MARK_INTERVAL)
  BY <1>2 DEF Traced, DividedByMarks
<1>4. \A n \in 1 .. Len(s) : TimeOf(s[n]) <= c + 1
  <2>1. \A n \in 1 .. Len(s) : TimeOf(s[n]) <= c /\ TimeOf(s[n]) \in Nat
    BY <1>1, ElementOfSeq, TimeType DEF Traced
  <2>. QED
    BY <2>1
<1>. QED
  BY <1>1, <1>3, <1>4 DEF Traced

\* Appending records of the last count.
LEMMA AppendTraced ==
    ASSUME NEW s, NEW c \in Nat, NEW k, Traced(s, c, k), NEW r, RecordsAt(r, c)
    PROVE  Traced(s \o r, c, k + Len(r))
<1>1. /\ s \in Seq(Items) /\ r \in Seq(Record) /\ r \in Seq(Items)
      /\ Len(s) \in Nat /\ Len(r) \in Nat /\ DOMAIN s = 1 .. Len(s)
  <2>1. Record \subseteq Items
    BY DEF Items
  <2>. QED
    BY <2>1, SeqMonotonic, LenProperties DEF Traced, RecordsAt
<1>2. PICK u : u = s \o r
  OBVIOUS
<1>3. /\ u \in Seq(Items) /\ Len(u) = Len(s) + Len(r) /\ DOMAIN u = 1 .. Len(s) + Len(r)
      /\ \A n \in 1 .. Len(s) : u[n] = s[n]
      /\ \A n \in 1 .. Len(r) : u[Len(s) + n] = r[n]
  <2>1. /\ u \in Seq(Items) /\ Len(u) = Len(s) + Len(r)
        /\ \A n \in 1 .. Len(s) + Len(r) : u[n] = IF n <= Len(s) THEN s[n] ELSE r[n - Len(s)]
    BY <1>1, <1>2, ConcatProperties
  <2>2. \A n \in 1 .. Len(s) : n \in 1 .. Len(s) + Len(r) /\ n <= Len(s)
    BY <1>1
  <2>3. \A n \in 1 .. Len(r) : /\ Len(s) + n \in 1 .. Len(s) + Len(r)
                               /\ ~ (Len(s) + n <= Len(s)) /\ (Len(s) + n) - Len(s) = n
    BY <1>1
  <2>4. DOMAIN u = 1 .. Len(u)
    BY <2>1, LenProperties
  <2>. QED
    BY <2>1, <2>2, <2>3, <2>4
<1>4. \A n \in 1 .. Len(s) + Len(r) :
         n \in 1 .. Len(s) \/ \E j \in 1 .. Len(r) : n = Len(s) + j
  <2>. SUFFICES ASSUME NEW n \in 1 .. Len(s) + Len(r), n \notin 1 .. Len(s)
                PROVE  \E j \in 1 .. Len(r) : n = Len(s) + j
    OBVIOUS
  <2>1. n - Len(s) \in 1 .. Len(r) /\ n = Len(s) + (n - Len(s))
    BY <1>1
  <2>. QED
    BY <2>1
<1>5. \A n \in 1 .. Len(r) : ~IsMark(u[Len(s) + n]) /\ TimeOf(u[Len(s) + n]) = c
                             /\ u[Len(s) + n].ts = c
  <2>1. \A n \in 1 .. Len(r) : r[n] \in Record /\ r[n].ts = c
    BY <1>1, ElementOfSeq DEF RecordsAt
  <2>. QED
    BY <1>3, <2>1, RecordFacts
<1>6. \A n \in 1 .. Len(s) : TimeOf(u[n]) <= c /\ TimeOf(u[n]) \in Nat
  <2>1. \A n \in 1 .. Len(s) : TimeOf(s[n]) \in Nat
    BY <1>1, ElementOfSeq, TimeType
  <2>. QED
    BY <1>3, <2>1 DEF Traced
<1>7. \A n \in 1 .. Len(u) : TimeOf(u[n]) <= c
  BY <1>3, <1>4, <1>5, <1>6
<1>8. MarksOf(u) = MarksOf(s)
  <2>1. {n \in DOMAIN u : IsMark(u[n])} = {n \in DOMAIN s : IsMark(s[n])}
    <3>1. \A n \in 1 .. Len(s) + Len(r) : IsMark(u[n]) => n \in 1 .. Len(s)
      BY <1>4, <1>5
    <3>2. \A n \in 1 .. Len(s) : n \in 1 .. Len(s) + Len(r)
      BY <1>1
    <3>. QED
      BY <1>1, <1>3, <3>1, <3>2
  <2>2. \A j \in {n \in DOMAIN s : IsMark(s[n])} : u[j].mark = s[j].mark
    BY <1>1, <1>3
  <2>. QED
    BY <2>1, <2>2 DEF MarksOf
<1>9. ASSUME NEW n \in 1 .. Len(u) - 1
      PROVE  IF IsMark(u[n + 1]) THEN TimeOf(u[n]) < u[n + 1].mark
                                 ELSE TimeOf(u[n]) <= u[n + 1].ts
  <2>1. n \in 1 .. Len(u) /\ n + 1 \in 1 .. Len(s) + Len(r)
    BY <1>1, <1>3
  <2>2. CASE n + 1 \in 1 .. Len(s)
    <3>1. n \in 1 .. Len(s) - 1 /\ n \in 1 .. Len(s)
      BY <1>1, <2>2
    <3>2. IF IsMark(s[n + 1]) THEN TimeOf(s[n]) < s[n + 1].mark
                              ELSE TimeOf(s[n]) <= s[n + 1].ts
      BY <3>1 DEF Traced, DividedByMarks
    <3>. QED
      BY <1>3, <2>2, <3>1, <3>2
  <2>3. CASE n + 1 \notin 1 .. Len(s)
    <3>1. PICK j \in 1 .. Len(r) : n + 1 = Len(s) + j
      BY <1>4, <2>1, <2>3
    <3>2. ~IsMark(u[n + 1]) /\ u[n + 1].ts = c
      BY <1>5, <3>1
    <3>. QED
      BY <1>7, <2>1, <3>2
  <2>. QED
    BY <2>2, <2>3
<1>10. DividedByMarks(u, c, MARK_INTERVAL)
  <2>1. MarksOf(s) = {n \in 1 .. c : n % MARK_INTERVAL = 0}
    BY DEF Traced, DividedByMarks, MarksOf
  <2>. QED
    BY <1>8, <1>9, <2>1 DEF DividedByMarks, MarksOf
<1>11. Cardinality(Accesses(u)) = k + Len(r)
  <2>1. PICK a \in Int, b \in Int : a = Len(s) + 1 /\ b = Len(s) + Len(r)
    BY <1>1
  <2>2. IsFiniteSet(a .. b) /\ Cardinality(a .. b) = Len(r)
    <3>1. IsFiniteSet(a .. b) /\ Cardinality(a .. b) = IF a > b THEN 0 ELSE b - a + 1
      BY FS_Interval
    <3>2. Len(r) = IF a > b THEN 0 ELSE b - a + 1
      BY <1>1, <2>1
    <3>. QED
      BY <3>1, <3>2
  <2>3. Accesses(u) = Accesses(s) \cup (a .. b)
    <3>1. \A n \in Accesses(u) : n \in Accesses(s) \cup (a .. b)
      <4>1. \A n \in 1 .. Len(s) : ~IsMark(u[n]) => n \in Accesses(s)
        BY <1>1, <1>3 DEF Accesses
      <4>2. \A j \in 1 .. Len(r) : Len(s) + j \in a .. b
        BY <1>1, <2>1
      <4>. QED
        BY <1>3, <1>4, <4>1, <4>2 DEF Accesses
    <3>2. \A n \in Accesses(s) : n \in Accesses(u)
      <4>1. \A n \in 1 .. Len(s) : n \in DOMAIN u
        BY <1>1, <1>3
      <4>. QED
        BY <1>1, <1>3, <4>1 DEF Accesses
    <3>3. \A n \in a .. b : n \in Accesses(u)
      <4>. SUFFICES ASSUME NEW n \in a .. b PROVE n \in Accesses(u)
        OBVIOUS
      <4>1. n - Len(s) \in 1 .. Len(r) /\ n = Len(s) + (n - Len(s)) /\ n \in 1 .. Len(s) + Len(r)
        BY <1>1, <2>1
      <4>2. ~IsMark(u[n])
        BY <1>5, <4>1
      <4>. QED
        BY <1>3, <4>1, <4>2 DEF Accesses
    <3>. QED
      BY <3>1, <3>2, <3>3
  <2>4. Accesses(s) \cap (a .. b) = {}
    BY <1>1, <2>1 DEF Accesses
  <2>5. /\ IsFiniteSet(Accesses(s)) /\ Cardinality(Accesses(s)) = k /\ k \in Nat
    BY <1>1, AccessesFinite DEF Traced
  <2>6. Cardinality(Accesses(s) \cup (a .. b)) =
           Cardinality(Accesses(s)) + Cardinality(a .. b) - Cardinality(Accesses(s) \cap (a .. b))
    BY <2>2, <2>5, FS_Union
  <2>7. Cardinality(Accesses(s) \cap (a .. b)) = 0
    BY <2>4, FS_EmptySet
  <2>. QED
    BY <1>1, <2>2, <2>3, <2>5, <2>6, <2>7
<1>. QED
  BY <1>2, <1>3, <1>7, <1>10, <1>11 DEF Traced

\* A count that is a multiple of the interval appends its mark.
LEMMA MarkTraced ==
    ASSUME NEW s, NEW c \in Nat, NEW k, Traced(s, c, k), (c + 1) % MARK_INTERVAL = 0
    PROVE  Traced(s \o <<[mark |-> c + 1]>>, c + 1, k)
<1>1. PICK e : e = [mark |-> c + 1]
  OBVIOUS
<1>2. e \in Mark /\ e.mark = c + 1 /\ IsMark(e) /\ TimeOf(e) = c + 1 /\ e \in Items
  <2>1. e \in Mark /\ e.mark = c + 1
    BY <1>1 DEF Mark
  <2>. QED
    BY <2>1, MarkFacts
<1>3. s \in Seq(Items) /\ Len(s) \in Nat /\ DOMAIN s = 1 .. Len(s)
  BY LenProperties DEF Traced
<1>4. PICK u : u = s \o <<e>>
  OBVIOUS
<1>5. /\ u \in Seq(Items) /\ Len(u) = Len(s) + 1 /\ DOMAIN u = 1 .. Len(s) + 1
      /\ \A n \in 1 .. Len(s) : u[n] = s[n]
      /\ u[Len(s) + 1] = e
  <2>1. u = Append(s, e)
    BY <1>2, <1>3, <1>4, AppendIsConcat
  <2>2. /\ u \in Seq(Items) /\ Len(u) = Len(s) + 1
        /\ \A n \in 1 .. Len(s) : u[n] = s[n]
        /\ u[Len(s) + 1] = e
    BY <1>2, <1>3, <2>1, AppendProperties
  <2>. QED
    BY <2>2, LenProperties
<1>6. \A n \in 1 .. Len(s) + 1 : n \in 1 .. Len(s) \/ n = Len(s) + 1
  BY <1>3
<1>7. \A n \in 1 .. Len(s) : TimeOf(u[n]) <= c /\ TimeOf(u[n]) \in Nat
  <2>1. \A n \in 1 .. Len(s) : TimeOf(s[n]) \in Nat
    BY <1>3, ElementOfSeq, TimeType
  <2>. QED
    BY <1>5, <2>1 DEF Traced
<1>8. \A n \in 1 .. Len(u) : TimeOf(u[n]) <= c + 1
  BY <1>2, <1>5, <1>6, <1>7
<1>9. MarksOf(u) = {n \in 1 .. c + 1 : n % MARK_INTERVAL = 0}
  <2>1. MarksOf(s) = {n \in 1 .. c : n % MARK_INTERVAL = 0}
    BY DEF Traced, DividedByMarks, MarksOf
  <2>2. MarksOf(u) = MarksOf(s) \cup {c + 1}
    <3>1. \A n \in 1 .. Len(s) : n \in 1 .. Len(s) + 1
      BY <1>3
    <3>2. Len(s) + 1 \in 1 .. Len(s) + 1
      BY <1>3
    <3>3. \A j \in {n \in DOMAIN s : IsMark(s[n])} :
             j \in {n \in DOMAIN u : IsMark(u[n])} /\ u[j].mark = s[j].mark
      BY <1>3, <1>5, <3>1
    <3>4. Len(s) + 1 \in {n \in DOMAIN u : IsMark(u[n])} /\ u[Len(s) + 1].mark = c + 1
      BY <1>2, <1>5, <3>2
    <3>5. \A j \in {n \in DOMAIN u : IsMark(u[n])} :
             j = Len(s) + 1 \/ j \in {n \in DOMAIN s : IsMark(s[n])}
      BY <1>3, <1>5, <1>6
    <3>6. \A x \in MarksOf(s) : x \in MarksOf(u)
      BY <3>3 DEF MarksOf
    <3>7. c + 1 \in MarksOf(u)
      BY <3>4 DEF MarksOf
    <3>8. \A x \in MarksOf(u) : x \in MarksOf(s) \/ x = c + 1
      BY <3>3, <3>4, <3>5 DEF MarksOf
    <3>. QED
      BY <3>6, <3>7, <3>8
  <2>3. \A n \in 1 .. c + 1 : n \in 1 .. c \/ n = c + 1
    OBVIOUS
  <2>4. \A n \in 1 .. c : n \in 1 .. c + 1
    OBVIOUS
  <2>5. c + 1 \in 1 .. c + 1
    OBVIOUS
  <2>. QED
    BY <2>1, <2>2, <2>3, <2>4, <2>5
<1>10. ASSUME NEW n \in 1 .. Len(u) - 1
       PROVE  IF IsMark(u[n + 1]) THEN TimeOf(u[n]) < u[n + 1].mark
                                  ELSE TimeOf(u[n]) <= u[n + 1].ts
  <2>1. n \in 1 .. Len(s)
    BY <1>3, <1>5
  <2>2. CASE n + 1 \in 1 .. Len(s)
    <3>1. n \in 1 .. Len(s) - 1
      BY <1>3, <2>2
    <3>2. IF IsMark(s[n + 1]) THEN TimeOf(s[n]) < s[n + 1].mark
                              ELSE TimeOf(s[n]) <= s[n + 1].ts
      BY <3>1 DEF Traced, DividedByMarks
    <3>. QED
      BY <1>5, <2>1, <2>2, <3>2
  <2>3. CASE n + 1 \notin 1 .. Len(s)
    <3>1. n + 1 = Len(s) + 1
      BY <1>3, <2>1, <2>3
    <3>. QED
      BY <1>2, <1>5, <1>7, <2>1, <3>1
  <2>. QED
    BY <2>2, <2>3
<1>11. DividedByMarks(u, c + 1, MARK_INTERVAL)
  BY <1>9, <1>10 DEF DividedByMarks, MarksOf
<1>12. Accesses(u) = Accesses(s)
  <2>1. \A n \in 1 .. Len(s) : n \in 1 .. Len(s) + 1
    BY <1>3
  <2>2. \A n \in 1 .. Len(s) + 1 : ~IsMark(u[n]) => n \in 1 .. Len(s) /\ ~IsMark(s[n])
    BY <1>2, <1>5, <1>6
  <2>. QED
    BY <1>3, <1>5, <2>1, <2>2 DEF Accesses
<1>13. Cardinality(Accesses(u)) = k
  BY <1>12 DEF Traced
<1>. QED
  BY <1>1, <1>4, <1>5, <1>8, <1>11, <1>13 DEF Traced

-----------------------------------------------------------------------------
(* The inductive invariant.                                                *)

\* The buffers of a thread
Buffers(t) ==
    /\ Len(t_buf[t]) < TBUF_SIZE /\ Len(t_buf_nf[t]) < TBUF_SIZE
    /\ status[t] = "done" => t_buf[t] = <<>> /\ t_buf_nf[t] = <<>>

\* What a thread has traced, with what its buffer holds, is the trace of the
\* instructions it has counted
Complete(t) == Traced(Recorded(t), ins_count[t], num_maccess[t])

IInv == TypeOK /\ \A t \in Threads : Buffers(t) /\ Complete(t)

LEMMA Constants ==
    /\ TBUF_SIZE \in Nat \ {0} /\ MARK_INTERVAL \in Nat \ {0} /\ PHASE_INTERVAL \in Nat \ {0}
    /\ champsim_traceins \in Nat /\ KILL_AFTER \in Nat
    /\ Instructions \in [Threads -> SUBSET Instruction]
BY TracerAssumption

LEMMA InitTypes ==
    Init => TypeOK
<1>. SUFFICES ASSUME Init PROVE TypeOK
  OBVIOUS
<1>1. <<>> \in Seq(Record) /\ <<>> \in Seq(Record \cup Mark)
      /\ <<>> \in Seq([ip : Nat, executing : Nat, at : Nat])
  BY EmptySeq
<1>2. [ip |-> 0, mem |-> "none", magic |-> "none"] \in Instruction
  BY DEF Instruction
<1>3. /\ startFF \in BOOLEAN /\ inROI_master \in BOOLEAN /\ ended \in {"no", "killed", "null stream"}
      /\ inROI \in [Threads -> BOOLEAN]
      /\ mt_nf_open \in [Threads -> BOOLEAN] /\ cst_open \in [Threads -> BOOLEAN]
  BY DEF Init
<1>4. /\ status \in [Threads -> {"unborn", "running", "done"}]
      /\ step \in [Threads -> {"fetch", "magic", "champsim", "memory"}]
  BY DEF Init
<1>5. instr \in [Threads -> Instruction]
  BY <1>2 DEF Init
<1>6. /\ executed \in [Threads -> Nat] /\ ins_count \in [Threads -> Nat]
      /\ num_maccess \in [Threads -> Nat] /\ curr_instr \in [Threads -> Nat]
      /\ mt_nf_phase \in [Threads -> Nat] /\ cst_phase \in [Threads -> Nat]
  BY DEF Init
<1>7. /\ t_buf \in [Threads -> Seq(Record)] /\ t_buf_nf \in [Threads -> Seq(Record)]
      /\ trace \in [Threads -> Seq(Record \cup Mark)]
  BY <1>1 DEF Init
<1>8. mtrace_nf \in [Threads -> [Windows -> Seq(Record)]]
  BY <1>1 DEF Init
<1>9. champsim \in [Threads -> [Windows -> Seq([ip : Nat, executing : Nat, at : Nat])]]
  BY <1>1 DEF Init
<1>. QED
  BY <1>3, <1>4, <1>5, <1>6, <1>7, <1>8, <1>9 DEF TypeOK

LEMMA InitIInv ==
    Init => IInv
<1>. SUFFICES ASSUME Init PROVE IInv
  OBVIOUS
<1>1. ASSUME NEW t \in Threads
      PROVE  Buffers(t) /\ Complete(t)
  <2>1. /\ t_buf[t] = <<>> /\ t_buf_nf[t] = <<>> /\ trace[t] = <<>>
        /\ ins_count[t] = 0 /\ num_maccess[t] = 0
    BY DEF Init
  <2>2. Len(<<>>) = 0 /\ <<>> \in Seq(Items)
    BY EmptySeq
  <2>3. Recorded(t) = <<>>
    BY <2>1, <2>2, ConcatEmptySeq DEF Recorded
  <2>4. Complete(t)
    BY <2>1, <2>3, NothingTraced DEF Complete
  <2>5. Buffers(t)
    BY <2>1, <2>2, Constants DEF Buffers
  <2>. QED
    BY <2>4, <2>5
<1>. QED
  BY <1>1, InitTypes DEF IInv

-----------------------------------------------------------------------------
(* The steps that record accesses.                                         *)

\* the types of what RecordAccesses changes
AccessTypes ==
    /\ num_maccess \in [Threads -> Nat]
    /\ t_buf \in [Threads -> Seq(Record)]
    /\ trace \in [Threads -> Seq(Record \cup Mark)]

\* RecordAccesses, when the trace and the buffer it adds to are those of the
\* instructions counted so far
LEMMA AccessesRecorded ==
    ASSUME TypeOK, NEW t \in Threads, NEW buf \in Seq(Record), NEW file \in Seq(Items), NEW recs,
           ins_count' \in [Threads -> Nat],
           Traced(file \o buf, ins_count'[t], num_maccess[t]),
           RecordsAt(recs, ins_count'[t]),
           RecordAccesses(t, buf, file, recs)
    PROVE  /\ AccessTypes' /\ Complete(t)' /\ Len(t_buf'[t]) < TBUF_SIZE
           /\ \A u \in Threads \ {t} : /\ num_maccess'[u] = num_maccess[u]
                                       /\ t_buf'[u] = t_buf[u] /\ trace'[u] = trace[u]
<1>1. /\ num_maccess \in [Threads -> Nat] /\ t_buf \in [Threads -> Seq(Record)]
      /\ trace \in [Threads -> Seq(Record \cup Mark)]
  BY DEF TypeOK
<1>2. recs \in Seq(Record) /\ Len(recs) \in Nat
  BY LenProperties DEF RecordsAt
<1>3. PICK w, b : w = WrittenOut(buf \o recs) /\ b = Buffered(buf \o recs)
  OBVIOUS
<1>4. buf \o recs \in Seq(Record)
  BY <1>2, ConcatProperties
<1>5. w \in Seq(Record) /\ b \in Seq(Record) /\ w \o b = buf \o recs /\ Len(b) < TBUF_SIZE
  BY <1>3, <1>4, BufferSplits
<1>6. /\ num_maccess' = [num_maccess EXCEPT ![t] = @ + Len(recs)]
      /\ t_buf' = [t_buf EXCEPT ![t] = b]
      /\ trace' = [trace EXCEPT ![t] = file \o w]
  BY <1>3 DEF RecordAccesses
<1>7. Record \subseteq Items /\ Items = Record \cup Mark
  BY DEF Items
<1>8. w \in Seq(Items) /\ b \in Seq(Items) /\ buf \in Seq(Items) /\ recs \in Seq(Items)
  BY <1>2, <1>5, <1>7, SeqMonotonic
<1>9. file \o w \in Seq(Items)
  BY <1>8, ConcatProperties
<1>10. num_maccess' \in [Threads -> Nat]
  BY <1>1, <1>2, <1>6
<1>11. t_buf' \in [Threads -> Seq(Record)]
  BY <1>1, <1>5, <1>6
<1>12. trace' \in [Threads -> Seq(Record \cup Mark)]
  BY <1>1, <1>6, <1>7, <1>9
<1>13. /\ num_maccess'[t] = num_maccess[t] + Len(recs)
       /\ t_buf'[t] = b /\ trace'[t] = file \o w
  BY <1>1, <1>6
<1>14. \A u \in Threads \ {t} : /\ num_maccess'[u] = num_maccess[u]
                                /\ t_buf'[u] = t_buf[u] /\ trace'[u] = trace[u]
  BY <1>1, <1>6
<1>15. (file \o w) \o b = (file \o buf) \o recs
  <2>1. (file \o w) \o b = file \o (w \o b)
    BY <1>8, Regroup
  <2>2. (file \o buf) \o recs = file \o (buf \o recs)
    BY <1>8, Regroup
  <2>. QED
    BY <1>5, <2>1, <2>2
<1>16. Traced((file \o buf) \o recs, ins_count'[t], num_maccess[t] + Len(recs))
  <2>1. ins_count'[t] \in Nat
    OBVIOUS
  <2>. QED
    BY <2>1, AppendTraced
<1>17. Complete(t)'
  <2>1. Recorded(t)' = (file \o w) \o b
    BY <1>13 DEF Recorded
  <2>. QED
    BY <1>13, <1>15, <1>16, <2>1 DEF Complete
<1>. QED
  BY <1>5, <1>10, <1>11, <1>12, <1>13, <1>14, <1>17 DEF AccessTypes

\* the types of the rest of the state
LifeTypes ==
    /\ startFF \in BOOLEAN
    /\ status \in [Threads -> {"unborn", "running", "done"}]
    /\ instr \in [Threads -> Instruction]
    /\ step \in [Threads -> {"fetch", "magic", "champsim", "memory"}]
    /\ executed \in [Threads -> Nat]

RoiTypes == inROI \in [Threads -> BOOLEAN] /\ inROI_master \in BOOLEAN

UnfilteredTypes ==
    /\ t_buf_nf \in [Threads -> Seq(Record)]
    /\ mtrace_nf \in [Threads -> [Windows -> Seq(Record)]]
    /\ mt_nf_phase \in [Threads -> Nat] /\ mt_nf_open \in [Threads -> BOOLEAN]

WindowedTypes ==
    /\ curr_instr \in [Threads -> Nat]
    /\ champsim \in [Threads -> [Windows -> Seq([ip : Nat, executing : Nat, at : Nat])]]
    /\ cst_phase \in [Threads -> Nat] /\ cst_open \in [Threads -> BOOLEAN]

CountTypes == ins_count \in [Threads -> Nat]

EndedTypes == ended \in {"no", "killed", "null stream"}

LEMMA TypeParts ==
    TypeOK => /\ LifeTypes /\ RoiTypes /\ CountTypes /\ AccessTypes
              /\ UnfilteredTypes /\ WindowedTypes /\ EndedTypes
BY DEF TypeOK, LifeTypes, RoiTypes, CountTypes, AccessTypes, UnfilteredTypes,
       WindowedTypes, EndedTypes

LEMMA TypeWhole ==
    ASSUME LifeTypes', RoiTypes', CountTypes', AccessTypes', UnfilteredTypes',
           WindowedTypes', EndedTypes'
    PROVE  TypeOK'
BY DEF TypeOK, LifeTypes, RoiTypes, CountTypes, AccessTypes, UnfilteredTypes,
       WindowedTypes, EndedTypes

\* A thread whose buffers, trace and counts stay as they are
LEMMA Untouched ==
    ASSUME NEW u \in Threads, Buffers(u), Complete(u),
           status'[u] = status[u] \/ status'[u] # "done",
           t_buf'[u] = t_buf[u], t_buf_nf'[u] = t_buf_nf[u], trace'[u] = trace[u],
           ins_count'[u] = ins_count[u], num_maccess'[u] = num_maccess[u]
    PROVE  Buffers(u)' /\ Complete(u)'
<1>1. Buffers(u)'
  BY DEF Buffers
<1>2. Recorded(u)' = Recorded(u)
  BY DEF Recorded
<1>3. Complete(u)'
  BY <1>2 DEF Complete
<1>. QED
  BY <1>1, <1>3

\* A step that records no access
LEMMA QuietStep ==
    ASSUME IInv, TypeOK', UNCHANGED <<filtered, t_buf_nf, status>>
    PROVE  IInv'
<1>1. \A u \in Threads : Buffers(u)' /\ Complete(u)'
  BY Untouched DEF IInv, filtered
<1>. QED
  BY <1>1 DEF IInv

-----------------------------------------------------------------------------
(* One lemma for each action.                                              *)

LEMMA StartStep ==
    ASSUME IInv, NEW t \in Threads, ThreadStart(t)
    PROVE  IInv'
<1>1. /\ LifeTypes /\ RoiTypes /\ CountTypes /\ AccessTypes /\ UnfilteredTypes
      /\ WindowedTypes /\ EndedTypes
  BY TypeParts DEF IInv
<1>2. status' = [status EXCEPT ![t] = "running"] /\ UNCHANGED <<startFF, instr, step, executed>>
  BY DEF ThreadStart
<1>3. LifeTypes'
  BY <1>1, <1>2 DEF LifeTypes
<1>4. RoiTypes'
  <2>1. (~startFF) \in BOOLEAN
    OBVIOUS
  <2>2. PICK b \in BOOLEAN : b = ~startFF
    BY <2>1
  <2>3. inROI' = [inROI EXCEPT ![t] = b] /\ UNCHANGED inROI_master
    BY <2>2 DEF ThreadStart
  <2>. QED
    BY <1>1, <2>3 DEF RoiTypes
<1>5. CountTypes' /\ AccessTypes' /\ EndedTypes'
  BY <1>1 DEF ThreadStart, filtered, CountTypes, AccessTypes, EndedTypes
<1>6. UnfilteredTypes'
  BY <1>1 DEF ThreadStart, UnfilteredTypes
<1>7. WindowedTypes'
  <2>1. UNCHANGED <<curr_instr, champsim, cst_phase>>
    BY DEF ThreadStart
  <2>2. PICK b \in BOOLEAN : cst_open' = [cst_open EXCEPT ![t] = b]
    <3>1. PICK p : p = (t \in ChampSimThreads)
      OBVIOUS
    <3>2. p = TRUE \/ p = FALSE
      BY <3>1
    <3>3. cst_open' = [cst_open EXCEPT ![t] = p]
      BY <3>1 DEF ThreadStart
    <3>. QED
      BY <3>2, <3>3
  <2>. QED
    BY <1>1, <2>1, <2>2 DEF WindowedTypes
<1>8. ASSUME NEW u \in Threads
      PROVE  Buffers(u)' /\ Complete(u)'
  <2>1. status'[u] = status[u] \/ status'[u] # "done"
    BY <1>1, <1>2 DEF LifeTypes
  <2>. QED
    BY <2>1, Untouched DEF IInv, ThreadStart, filtered
<1>. QED
  BY <1>3, <1>4, <1>5, <1>6, <1>7, <1>8, TypeWhole DEF IInv

LEMMA FetchTypes ==
    ASSUME LifeTypes, NEW t \in Threads, NEW i \in Instructions[t], Fetch(t, i)
    PROVE  LifeTypes' /\ UNCHANGED status
<1>1. i \in Instruction
  BY Constants
<1>2. PICK s \in {"champsim", "magic"} :
        s = IF i.magic = "none" THEN "champsim" ELSE "magic"
  OBVIOUS
<1>3. /\ instr' = [instr EXCEPT ![t] = i] /\ executed' = [executed EXCEPT ![t] = @ + 1]
      /\ step' = [step EXCEPT ![t] = s] /\ UNCHANGED <<startFF, status>>
  BY <1>2 DEF Fetch
<1>4. instr' \in [Threads -> Instruction]
  BY <1>1, <1>3 DEF LifeTypes
<1>5. executed' \in [Threads -> Nat]
  BY <1>3 DEF LifeTypes
<1>6. step' \in [Threads -> {"fetch", "magic", "champsim", "memory"}]
  BY <1>2, <1>3 DEF LifeTypes
<1>. QED
  BY <1>3, <1>4, <1>5, <1>6 DEF LifeTypes

\* A step to the next routine, of a thread that records nothing
LEMMA StepTypes ==
    ASSUME LifeTypes, NEW t \in Threads,
           NEW s \in {"fetch", "magic", "champsim", "memory"},
           step' = [step EXCEPT ![t] = s], UNCHANGED <<startFF, status, instr, executed>>
    PROVE  LifeTypes'
BY DEF LifeTypes

LEMMA FetchOutsideStep ==
    ASSUME IInv, NEW t \in Threads, FetchOutsideROI(t)
    PROVE  IInv'
<1>1. /\ LifeTypes /\ RoiTypes /\ CountTypes /\ AccessTypes /\ UnfilteredTypes
      /\ WindowedTypes /\ EndedTypes
  BY TypeParts DEF IInv
<1>2. LifeTypes' /\ UNCHANGED status
  BY <1>1, FetchTypes DEF FetchOutsideROI
<1>3. UNCHANGED <<roi, filtered, unfiltered, windowed, ended>>
  BY DEF FetchOutsideROI
<1>4. RoiTypes' /\ CountTypes' /\ AccessTypes' /\ EndedTypes'
  BY <1>1, <1>3 DEF roi, filtered, RoiTypes, CountTypes, AccessTypes, EndedTypes
<1>5. UnfilteredTypes' /\ WindowedTypes'
  BY <1>1, <1>3 DEF unfiltered, windowed, UnfilteredTypes, WindowedTypes
<1>. QED
  BY <1>2, <1>3, <1>4, <1>5, TypeWhole, QuietStep DEF unfiltered

LEMMA KillStep ==
    ASSUME IInv, NEW t \in Threads, KillProcess(t)
    PROVE  IInv'
<1>1. UNCHANGED <<life, roi, filtered, unfiltered, windowed>> /\ ended' = "killed"
  BY DEF KillProcess
<1>2. TypeOK'
  BY <1>1 DEF IInv, TypeOK, life, roi, filtered, unfiltered, windowed
<1>. QED
  BY <1>1, <1>2, QuietStep DEF life, unfiltered

LEMMA MagicStep ==
    ASSUME IInv, NEW t \in Threads, MagicInst(t)
    PROVE  IInv'
<1>1. /\ LifeTypes /\ RoiTypes /\ CountTypes /\ AccessTypes /\ UnfilteredTypes
      /\ WindowedTypes /\ EndedTypes
  BY TypeParts DEF IInv
<1>2. /\ step' = [step EXCEPT ![t] = "champsim"]
      /\ UNCHANGED <<startFF, status, instr, executed, filtered, unfiltered, windowed, ended>>
  BY DEF MagicInst
<1>3. LifeTypes'
  BY <1>1, <1>2, StepTypes
<1>4. RoiTypes'
  <2>1. PICK b \in BOOLEAN : inROI' = [inROI EXCEPT ![t] = b]
    <3>1. inROI[t] \in BOOLEAN
      BY <1>1 DEF RoiTypes
    <3>2. CASE instr[t].magic = "start"
      BY <3>2 DEF MagicInst
    <3>3. CASE instr[t].magic = "end"
      BY <3>3 DEF MagicInst
    <3>4. CASE instr[t].magic # "start" /\ instr[t].magic # "end"
      BY <3>1, <3>4 DEF MagicInst
    <3>. QED
      BY <3>2, <3>3, <3>4
  <2>2. inROI_master' \in BOOLEAN
    BY DEF MagicInst
  <2>. QED
    BY <1>1, <2>1, <2>2 DEF RoiTypes
<1>5. CountTypes' /\ AccessTypes' /\ EndedTypes'
  BY <1>1, <1>2 DEF filtered, CountTypes, AccessTypes, EndedTypes
<1>6. UnfilteredTypes' /\ WindowedTypes'
  BY <1>1, <1>2 DEF unfiltered, windowed, UnfilteredTypes, WindowedTypes
<1>. QED
  BY <1>2, <1>3, <1>4, <1>5, <1>6, TypeWhole, QuietStep DEF unfiltered

LEMMA NoMemStep ==
    ASSUME IInv, NEW t \in Threads, NoMemRef(t)
    PROVE  IInv'
<1>1. /\ LifeTypes /\ RoiTypes /\ CountTypes /\ AccessTypes /\ UnfilteredTypes
      /\ WindowedTypes /\ EndedTypes
  BY TypeParts DEF IInv
<1>2. /\ step' = [step EXCEPT ![t] = "fetch"]
      /\ UNCHANGED <<startFF, status, instr, executed, roi, filtered, unfiltered, windowed, ended>>
  BY DEF NoMemRef
<1>3. LifeTypes'
  BY <1>1, <1>2, StepTypes
<1>4. RoiTypes' /\ CountTypes' /\ AccessTypes' /\ EndedTypes'
  BY <1>1, <1>2 DEF roi, filtered, RoiTypes, CountTypes, AccessTypes, EndedTypes
<1>5. UnfilteredTypes' /\ WindowedTypes'
  BY <1>1, <1>2 DEF unfiltered, windowed, UnfilteredTypes, WindowedTypes
<1>. QED
  BY <1>2, <1>3, <1>4, <1>5, TypeWhole, QuietStep DEF unfiltered

LEMMA ChampSimStep ==
    ASSUME IInv, NEW t \in Threads, ChampSim(t)
    PROVE  IInv'
<1>1. /\ LifeTypes /\ RoiTypes /\ CountTypes /\ AccessTypes /\ UnfilteredTypes
      /\ WindowedTypes /\ EndedTypes
  BY TypeParts DEF IInv
<1>2. /\ step' = [step EXCEPT ![t] = "memory"]
      /\ UNCHANGED <<startFF, status, instr, executed, roi, filtered, unfiltered, ended>>
  BY DEF ChampSim
<1>3. LifeTypes'
  BY <1>1, <1>2, StepTypes
<1>4. RoiTypes' /\ CountTypes' /\ AccessTypes' /\ EndedTypes'
  BY <1>1, <1>2 DEF roi, filtered, RoiTypes, CountTypes, AccessTypes, EndedTypes
<1>5. UnfilteredTypes'
  BY <1>1, <1>2 DEF unfiltered, UnfilteredTypes
<1>6. WindowedTypes'
  <2>1. curr_instr' \in [Threads -> Nat]
    <3>1. PICK ip \in Nat : ip = Current(t)
      <4>1. instr[t].ip \in Nat /\ curr_instr[t] \in Nat
        BY <1>1 DEF LifeTypes, WindowedTypes, Instruction
      <4>2. Current(t) \in Nat
        BY <4>1 DEF Current
      <4>. QED
        BY <4>2
    <3>2. curr_instr' = [curr_instr EXCEPT ![t] = ip]
      BY <3>1 DEF ChampSim
    <3>. QED
      BY <1>1, <3>2 DEF WindowedTypes
  <2>2. cst_open' \in [Threads -> BOOLEAN]
    <3>1. CstOpen(t) \in BOOLEAN
      <4>1. cst_open[t] \in BOOLEAN /\ InWindow(ins_count[t]) \in BOOLEAN
        BY <1>1 DEF WindowedTypes, InWindow
      <4>2. CASE t \in ChampSimThreads /\ InROI(t)
        BY <4>1, <4>2 DEF CstOpen
      <4>3. CASE ~ (t \in ChampSimThreads /\ InROI(t))
        BY <4>1, <4>3 DEF CstOpen
      <4>. QED
        BY <4>2, <4>3
    <3>2. PICK b \in BOOLEAN : b = CstOpen(t)
      BY <3>1
    <3>3. cst_open' = [cst_open EXCEPT ![t] = b]
      BY <3>2 DEF ChampSim
    <3>. QED
      BY <1>1, <3>3 DEF WindowedTypes
  <2>3. PICK write, opens, k :
           /\ k = IF opens THEN cst_phase[t] + 1 ELSE cst_phase[t]
           /\ cst_phase' = [cst_phase EXCEPT ![t] = k]
           /\ champsim' = IF write
                          THEN [champsim EXCEPT ![t][k] =
                                  IF opens THEN <<Written(t)>> ELSE Append(@, Written(t))]
                          ELSE champsim
    BY DEF ChampSim
  <2>4. cst_phase' \in [Threads -> Nat]
    <3>1. k \in Nat
      BY <1>1, <2>3 DEF WindowedTypes
    <3>. QED
      BY <1>1, <2>3, <3>1 DEF WindowedTypes
  <2>5. champsim' \in [Threads -> [Windows -> Seq([ip : Nat, executing : Nat, at : Nat])]]
    <3>1. PICK W : W = [ip : Nat, executing : Nat, at : Nat]
      OBVIOUS
    <3>2. PICK e \in W : e = Written(t)
      <4>1. Current(t) \in Nat /\ instr[t].ip \in Nat /\ ins_count[t] \in Nat
        BY <1>1 DEF LifeTypes, WindowedTypes, CountTypes, Instruction, Current
      <4>2. Written(t) \in W
        BY <3>1, <4>1 DEF Written
      <4>. QED
        BY <4>2
    <3>3. champsim \in [Threads -> [Windows -> Seq(W)]]
      BY <1>1, <3>1 DEF WindowedTypes
    <3>4. PICK f : f = champsim[t]
      OBVIOUS
    <3>5. f \in [Windows -> Seq(W)]
      BY <3>3, <3>4
    <3>6. [f EXCEPT ![k] = <<e>>] \in [Windows -> Seq(W)]
          /\ [f EXCEPT ![k] = Append(f[k], e)] \in [Windows -> Seq(W)]
      <4>1. <<e>> \in Seq(W)
        OBVIOUS
      <4>2. k \in Windows => Append(f[k], e) \in Seq(W)
        BY <3>5, AppendProperties
      <4>. QED
        BY <3>5, <4>1, <4>2
    <3>7. PICK g \in [Windows -> Seq(W)] : champsim' = [champsim EXCEPT ![t] = g]
      <4>1. CASE ~write
        BY <2>3, <3>3, <3>4, <3>5, <4>1
      <4>2. CASE write /\ opens
        BY <2>3, <3>2, <3>3, <3>4, <3>6, <4>2
      <4>3. CASE write /\ ~opens
        <5>1. champsim' = [champsim EXCEPT ![t][k] = Append(@, e)]
          BY <2>3, <3>2, <4>3
        <5>2. champsim' = [champsim EXCEPT ![t] = [f EXCEPT ![k] = Append(f[k], e)]]
          BY <3>4, <5>1
        <5>. QED
          BY <3>6, <5>2
      <4>. QED
        BY <4>1, <4>2, <4>3
    <3>. QED
      BY <3>1, <3>3, <3>7
  <2>. QED
    BY <2>1, <2>2, <2>4, <2>5 DEF WindowedTypes
<1>. QED
  BY <1>2, <1>3, <1>4, <1>5, <1>6, TypeWhole, QuietStep DEF unfiltered

\* The count, and the references of the fetch
LEMMA InsRefStep ==
    ASSUME IInv, NEW t \in Threads, InsRef(t)
    PROVE  IInv'
<1>1. /\ LifeTypes /\ RoiTypes /\ CountTypes /\ AccessTypes /\ UnfilteredTypes
      /\ WindowedTypes /\ EndedTypes
  BY TypeParts DEF IInv
<1>2. PICK c \in Nat : c = ins_count[t]
  BY <1>1 DEF CountTypes
<1>3. PICK i \in Instructions[t], line \in Lines :
         \E recs \in Ul2Answers(line, c + 1) :
           /\ Fetch(t, i)
           /\ ins_count' = [ins_count EXCEPT ![t] = c + 1]
           /\ RecordAccesses(t, BufferAtCount(t, c + 1), TraceAtCount(t, c + 1), recs)
           /\ UNCHANGED <<roi, unfiltered, windowed, ended>>
  BY <1>2 DEF InsRef
<1>4. PICK recs \in Ul2Answers(line, c + 1) :
         /\ Fetch(t, i)
         /\ ins_count' = [ins_count EXCEPT ![t] = c + 1]
         /\ RecordAccesses(t, BufferAtCount(t, c + 1), TraceAtCount(t, c + 1), recs)
         /\ UNCHANGED <<roi, unfiltered, windowed, ended>>
  BY <1>3
<1>5. LifeTypes' /\ UNCHANGED status
  BY <1>1, <1>4, FetchTypes
<1>6. /\ ins_count' \in [Threads -> Nat] /\ ins_count'[t] = c + 1
      /\ \A u \in Threads \ {t} : ins_count'[u] = ins_count[u]
  BY <1>1, <1>4 DEF CountTypes
<1>7. RecordsAt(recs, c + 1)
  BY <1>4, Answers
<1>8. PICK buf, file : buf = BufferAtCount(t, c + 1) /\ file = TraceAtCount(t, c + 1)
  OBVIOUS
<1>9. trace[t] \in Seq(Items) /\ t_buf[t] \in Seq(Record) /\ t_buf[t] \in Seq(Items)
  <2>1. trace[t] \in Seq(Record \cup Mark) /\ t_buf[t] \in Seq(Record)
    BY <1>1 DEF AccessTypes
  <2>2. Items = Record \cup Mark /\ Record \subseteq Items
    BY DEF Items
  <2>. QED
    BY <2>1, <2>2, SeqMonotonic
<1>10. Traced(trace[t] \o t_buf[t], c, num_maccess[t])
  BY <1>2 DEF IInv, Complete, Recorded
<1>11. buf \in Seq(Record) /\ file \in Seq(Items) /\ Traced(file \o buf, c + 1, num_maccess[t])
  <2>1. CASE (c + 1) % MARK_INTERVAL # 0
    <3>1. buf = t_buf[t] /\ file = trace[t]
      BY <1>8, <2>1 DEF BufferAtCount, TraceAtCount
    <3>. QED
      BY <1>9, <1>10, <2>1, <3>1, CountTraced
  <2>2. CASE (c + 1) % MARK_INTERVAL = 0
    <3>1. buf = <<>> /\ file = trace[t] \o t_buf[t] \o <<[mark |-> c + 1]>>
      BY <1>8, <2>2 DEF BufferAtCount, TraceAtCount
    <3>2. Traced(file, c + 1, num_maccess[t])
      BY <1>10, <2>2, <3>1, MarkTraced
    <3>3. file \in Seq(Items)
      BY <3>2 DEF Traced
    <3>4. file \o <<>> = file /\ <<>> \in Seq(Record)
      BY <3>3, ConcatEmptySeq, EmptySeq
    <3>. QED
      BY <3>1, <3>2, <3>3, <3>4
  <2>. QED
    BY <2>1, <2>2
<1>12. /\ AccessTypes' /\ Complete(t)' /\ Len(t_buf'[t]) < TBUF_SIZE
       /\ \A u \in Threads \ {t} : /\ num_maccess'[u] = num_maccess[u]
                                   /\ t_buf'[u] = t_buf[u] /\ trace'[u] = trace[u]
  <2>1. RecordAccesses(t, buf, file, recs)
    BY <1>4, <1>8
  <2>. QED
    BY <1>6, <1>7, <1>11, <2>1, AccessesRecorded DEF IInv
<1>13. RoiTypes' /\ CountTypes' /\ UnfilteredTypes' /\ WindowedTypes' /\ EndedTypes'
  <2>1. RoiTypes' /\ CountTypes' /\ EndedTypes'
    BY <1>1, <1>4, <1>6 DEF roi, RoiTypes, CountTypes, EndedTypes
  <2>2. UnfilteredTypes' /\ WindowedTypes'
    BY <1>1, <1>4 DEF unfiltered, windowed, UnfilteredTypes, WindowedTypes
  <2>. QED
    BY <2>1, <2>2
<1>14. status[t] = "running" /\ t_buf_nf' = t_buf_nf
  BY <1>4 DEF Fetch, Running, unfiltered
<1>15. ASSUME NEW u \in Threads
       PROVE  Buffers(u)' /\ Complete(u)'
  <2>1. CASE u = t
    <3>1. status'[t] # "done"
      BY <1>5, <1>14
    <3>2. Len(t_buf_nf[t]) < TBUF_SIZE
      BY DEF IInv, Buffers
    <3>. QED
      BY <1>12, <1>14, <2>1, <3>1, <3>2 DEF Buffers
  <2>2. CASE u # t
    <3>1. Buffers(u) /\ Complete(u)
      BY DEF IInv
    <3>2. /\ ins_count'[u] = ins_count[u] /\ num_maccess'[u] = num_maccess[u]
          /\ t_buf'[u] = t_buf[u] /\ trace'[u] = trace[u]
      BY <1>6, <1>12, <2>2
    <3>. QED
      BY <1>5, <1>14, <3>1, <3>2, Untouched
  <2>. QED
    BY <2>1, <2>2
<1>. QED
  BY <1>5, <1>12, <1>13, <1>15, TypeWhole DEF IInv

\* The record of a reference, in the file of its window
LEMMA UnfilteredRecorded ==
    ASSUME TypeOK, NEW t \in Threads, NEW line \in Lines, instr[t].mem # "none",
           \A u \in Threads : Len(t_buf_nf[u]) < TBUF_SIZE,
           RecordUnfiltered(t, line)
    PROVE  /\ UnfilteredTypes'
           /\ Len(t_buf_nf'[t]) < TBUF_SIZE
           /\ \A u \in Threads \ {t} : t_buf_nf'[u] = t_buf_nf[u]
<1>1. UnfilteredTypes /\ LifeTypes /\ CountTypes
  BY TypeParts
<1>2. PICK e \in Record : e = [line |-> line, rw |-> instr[t].mem, ts |-> ins_count[t]]
  <2>1. instr[t].mem \in {"load", "store"} /\ ins_count[t] \in Nat
    BY <1>1 DEF LifeTypes, CountTypes, Instruction
  <2>. QED
    BY <2>1 DEF Record
<1>3. PICK buf \in Seq(Record) : buf = Append(t_buf_nf[t], e)
  <2>1. t_buf_nf[t] \in Seq(Record)
    BY <1>1 DEF UnfilteredTypes
  <2>. QED
    BY <2>1, AppendProperties
<1>4. PICK w \in Seq(Record), b \in Seq(Record) :
         w = WrittenOut(buf) /\ b = Buffered(buf) /\ Len(b) < TBUF_SIZE
  BY BufferSplits
<1>5. PICK write, opens, k :
         /\ write \in BOOLEAN /\ write = InWindow(ins_count[t])
         /\ k = IF opens THEN MtNfPhase(t) ELSE mt_nf_phase[t]
         /\ mt_nf_phase' = [mt_nf_phase EXCEPT ![t] = k]
         /\ mt_nf_open' = [mt_nf_open EXCEPT ![t] = write]
         /\ t_buf_nf' = IF write THEN [t_buf_nf EXCEPT ![t] = b] ELSE t_buf_nf
         /\ mtrace_nf' = IF write
                         THEN [mtrace_nf EXCEPT ![t][k] = (IF opens THEN <<>> ELSE @) \o w]
                         ELSE mtrace_nf
  <2>1. InWindow(ins_count[t]) \in BOOLEAN
    BY DEF InWindow
  <2>. QED
    BY <1>2, <1>3, <1>4, <2>1 DEF RecordUnfiltered
<1>6. mt_nf_phase' \in [Threads -> Nat] /\ mt_nf_open' \in [Threads -> BOOLEAN]
  <2>1. k \in Nat
    BY <1>1, <1>5 DEF UnfilteredTypes, MtNfPhase
  <2>. QED
    BY <1>1, <1>5, <2>1 DEF UnfilteredTypes
<1>7. /\ t_buf_nf' \in [Threads -> Seq(Record)] /\ Len(t_buf_nf'[t]) < TBUF_SIZE
      /\ \A u \in Threads \ {t} : t_buf_nf'[u] = t_buf_nf[u]
  <2>1. CASE write
    BY <1>1, <1>4, <1>5, <2>1 DEF UnfilteredTypes
  <2>2. CASE ~write
    BY <1>1, <1>5, <2>2 DEF UnfilteredTypes
  <2>. QED
    BY <2>1, <2>2
<1>8. mtrace_nf' \in [Threads -> [Windows -> Seq(Record)]]
  <2>1. mtrace_nf \in [Threads -> [Windows -> Seq(Record)]]
    BY <1>1 DEF UnfilteredTypes
  <2>2. PICK f \in [Windows -> Seq(Record)] : f = mtrace_nf[t]
    BY <2>1
  <2>3. PICK old : old = IF opens THEN <<>> ELSE f[k]
    OBVIOUS
  <2>4. k \in Windows => old \o w \in Seq(Record)
    <3>1. <<>> \in Seq(Record)
      BY EmptySeq
    <3>2. k \in Windows => old \in Seq(Record)
      BY <2>2, <2>3, <3>1
    <3>. QED
      BY <3>2, ConcatProperties
  <2>5. [f EXCEPT ![k] = old \o w] \in [Windows -> Seq(Record)]
    BY <2>2, <2>4
  <2>6. CASE ~write
    BY <1>5, <2>1, <2>6
  <2>7. CASE write
    <3>1. mtrace_nf' = [mtrace_nf EXCEPT ![t] = [f EXCEPT ![k] = old \o w]]
      <4>1. CASE opens
        BY <1>5, <2>2, <2>3, <2>7, <4>1
      <4>2. CASE ~opens
        BY <1>5, <2>2, <2>3, <2>7, <4>2
      <4>. QED
        BY <4>1, <4>2
    <3>. QED
      BY <2>1, <2>5, <3>1
  <2>. QED
    BY <2>6, <2>7
<1>. QED
  BY <1>6, <1>7, <1>8 DEF UnfilteredTypes

LEMMA MemStep ==
    ASSUME IInv, NEW t \in Threads, MemRef(t)
    PROVE  IInv'
<1>1. /\ LifeTypes /\ RoiTypes /\ CountTypes /\ AccessTypes /\ UnfilteredTypes
      /\ WindowedTypes /\ EndedTypes
  BY TypeParts DEF IInv
<1>2. PICK line \in Lines, c \in Nat :
         /\ c = ins_count[t]
         /\ \E recs \in Ul2Answers(line, c) : RecordAccesses(t, t_buf[t], trace[t], recs)
         /\ RecordUnfiltered(t, line)
  <2>1. ins_count[t] \in Nat
    BY <1>1 DEF CountTypes
  <2>. QED
    BY <2>1 DEF MemRef
<1>3. PICK recs \in Ul2Answers(line, c) : RecordAccesses(t, t_buf[t], trace[t], recs)
  BY <1>2
<1>4. /\ status[t] = "running" /\ instr[t].mem # "none"
      /\ step' = [step EXCEPT ![t] = "fetch"]
      /\ UNCHANGED <<startFF, status, instr, executed, roi, ins_count, windowed, ended>>
  BY DEF MemRef, Running
<1>5. LifeTypes'
  BY <1>1, <1>4, StepTypes
<1>6. RoiTypes' /\ CountTypes' /\ WindowedTypes' /\ EndedTypes'
  BY <1>1, <1>4 DEF roi, windowed, RoiTypes, CountTypes, WindowedTypes, EndedTypes
<1>7. /\ UnfilteredTypes' /\ Len(t_buf_nf'[t]) < TBUF_SIZE
      /\ \A u \in Threads \ {t} : t_buf_nf'[u] = t_buf_nf[u]
  BY <1>2, <1>4, UnfilteredRecorded DEF IInv, Buffers
<1>8. t_buf[t] \in Seq(Record) /\ trace[t] \in Seq(Items)
  BY <1>1 DEF AccessTypes, Items
<1>9. /\ AccessTypes' /\ Complete(t)' /\ Len(t_buf'[t]) < TBUF_SIZE
      /\ \A u \in Threads \ {t} : /\ num_maccess'[u] = num_maccess[u]
                                  /\ t_buf'[u] = t_buf[u] /\ trace'[u] = trace[u]
  <2>1. RecordsAt(recs, c)
    BY Answers
  <2>2. ins_count' \in [Threads -> Nat] /\ ins_count'[t] = c
    BY <1>1, <1>2, <1>4 DEF CountTypes
  <2>3. Traced(trace[t] \o t_buf[t], c, num_maccess[t])
    BY <1>2 DEF IInv, Complete, Recorded
  <2>. QED
    BY <1>3, <1>8, <2>1, <2>2, <2>3, AccessesRecorded DEF IInv
<1>10. ASSUME NEW u \in Threads
       PROVE  Buffers(u)' /\ Complete(u)'
  <2>1. CASE u = t
    BY <1>4, <1>7, <1>9, <2>1 DEF Buffers
  <2>2. CASE u # t
    <3>1. Buffers(u) /\ Complete(u)
      BY DEF IInv
    <3>2. /\ num_maccess'[u] = num_maccess[u] /\ t_buf_nf'[u] = t_buf_nf[u]
          /\ t_buf'[u] = t_buf[u] /\ trace'[u] = trace[u]
      BY <1>7, <1>9, <2>2
    <3>. QED
      BY <1>4, <3>1, <3>2, Untouched
  <2>. QED
    BY <2>1, <2>2
<1>. QED
  BY <1>5, <1>6, <1>7, <1>9, <1>10, TypeWhole DEF IInv

\* The end of a thread
LEMMA FiniStep ==
    ASSUME IInv, NEW t \in Threads, ThreadFini(t)
    PROVE  IInv'
<1>1. /\ LifeTypes /\ RoiTypes /\ CountTypes /\ AccessTypes /\ UnfilteredTypes
      /\ WindowedTypes /\ EndedTypes
  BY TypeParts DEF IInv
<1>2. /\ status[t] = "running"
      /\ trace' = [trace EXCEPT ![t] = @ \o t_buf[t]]
      /\ t_buf' = [t_buf EXCEPT ![t] = <<>>]
      /\ UNCHANGED <<startFF, instr, step, executed, roi, ins_count, num_maccess,
                     mt_nf_phase, mt_nf_open, windowed>>
  BY DEF ThreadFini, Running
<1>3. trace[t] \in Seq(Items) /\ t_buf[t] \in Seq(Items) /\ Items = Record \cup Mark
  <2>1. trace[t] \in Seq(Record \cup Mark) /\ t_buf[t] \in Seq(Record)
    BY <1>1 DEF AccessTypes
  <2>2. Items = Record \cup Mark /\ Record \subseteq Items
    BY DEF Items
  <2>. QED
    BY <2>1, <2>2, SeqMonotonic
<1>4. PICK r \in Seq(Items) : r = trace[t] \o t_buf[t]
  BY <1>3, ConcatProperties
<1>5. <<>> \in Seq(Record) /\ Len(<<>>) = 0 /\ 0 < TBUF_SIZE
  BY EmptySeq, Constants
<1>6. /\ trace'[t] = r /\ t_buf'[t] = <<>>
      /\ \A u \in Threads \ {t} : trace'[u] = trace[u] /\ t_buf'[u] = t_buf[u]
      /\ AccessTypes'
  BY <1>1, <1>2, <1>3, <1>4, <1>5 DEF AccessTypes
<1>7. RoiTypes' /\ CountTypes' /\ WindowedTypes'
  BY <1>1, <1>2 DEF roi, windowed, RoiTypes, CountTypes, WindowedTypes
<1>8. /\ LifeTypes' /\ UnfilteredTypes' /\ EndedTypes'
      /\ \A u \in Threads \ {t} : status'[u] = status[u] /\ t_buf_nf'[u] = t_buf_nf[u]
      /\ \/ status'[t] = "done" /\ t_buf_nf'[t] = <<>>
         \/ status'[t] = "running" /\ t_buf_nf'[t] = t_buf_nf[t]
  <2>1. CASE mt_nf_open[t] \/ t_buf_nf[t] = <<>>
    <3>1. PICK k, b :
             /\ b \in Seq(Record) /\ b = t_buf_nf[t]
             /\ mtrace_nf' = [mtrace_nf EXCEPT ![t][k] = @ \o b]
      <4>1. t_buf_nf[t] \in Seq(Record)
        BY <1>1 DEF UnfilteredTypes
      <4>2. mtrace_nf' = [mtrace_nf EXCEPT ![t][mt_nf_phase[t]] = @ \o t_buf_nf[t]]
        BY <2>1 DEF ThreadFini
      <4>. QED
        BY <4>1, <4>2
    <3>2. /\ status' = [status EXCEPT ![t] = "done"]
          /\ t_buf_nf' = [t_buf_nf EXCEPT ![t] = <<>>] /\ UNCHANGED ended
      BY <2>1 DEF ThreadFini
    <3>3. PICK f \in [Windows -> Seq(Record)] : f = mtrace_nf[t]
      BY <1>1 DEF UnfilteredTypes
    <3>4. [f EXCEPT ![k] = f[k] \o b] \in [Windows -> Seq(Record)]
      <4>1. k \in Windows => f[k] \o b \in Seq(Record)
        BY <3>1, <3>3, ConcatProperties
      <4>. QED
        BY <3>3, <4>1
    <3>5. mtrace_nf' = [mtrace_nf EXCEPT ![t] = [f EXCEPT ![k] = f[k] \o b]]
      BY <3>1, <3>3
    <3>6. UnfilteredTypes'
      BY <1>1, <1>2, <1>5, <3>2, <3>4, <3>5 DEF UnfilteredTypes
    <3>7. LifeTypes' /\ EndedTypes'
      BY <1>1, <1>2, <3>2 DEF LifeTypes, EndedTypes
    <3>8. /\ status'[t] = "done" /\ t_buf_nf'[t] = <<>>
          /\ \A u \in Threads \ {t} : status'[u] = status[u] /\ t_buf_nf'[u] = t_buf_nf[u]
      BY <1>1, <3>2 DEF LifeTypes, UnfilteredTypes
    <3>. QED
      BY <3>6, <3>7, <3>8
  <2>2. CASE ~ (mt_nf_open[t] \/ t_buf_nf[t] = <<>>)
    <3>1. ended' = "null stream" /\ UNCHANGED <<status, mtrace_nf, t_buf_nf>>
      BY <2>2 DEF ThreadFini
    <3>2. LifeTypes' /\ UnfilteredTypes' /\ EndedTypes'
      BY <1>1, <1>2, <3>1 DEF LifeTypes, UnfilteredTypes, EndedTypes
    <3>. QED
      BY <1>2, <3>1, <3>2
  <2>. QED
    BY <2>1, <2>2
<1>9. Buffers(t)'
  <2>1. Len(t_buf'[t]) < TBUF_SIZE /\ Len(t_buf_nf'[t]) < TBUF_SIZE
    BY <1>5, <1>6, <1>8 DEF IInv, Buffers
  <2>. QED
    BY <1>6, <1>8, <2>1 DEF Buffers
<1>10. Complete(t)'
  <2>1. Recorded(t)' = r
    <3>1. Recorded(t)' = r \o <<>>
      BY <1>6 DEF Recorded
    <3>. QED
      BY <3>1, ConcatEmptySeq
  <2>2. Recorded(t) = r
    BY <1>4 DEF Recorded
  <2>. QED
    BY <1>2, <2>1, <2>2 DEF IInv, Complete
<1>11. ASSUME NEW u \in Threads \ {t}
       PROVE  Buffers(u)' /\ Complete(u)'
  <2>1. Buffers(u) /\ Complete(u)
    BY DEF IInv
  <2>. QED
    BY <1>2, <1>6, <1>8, <2>1, Untouched
<1>. QED
  BY <1>6, <1>7, <1>8, <1>9, <1>10, <1>11, TypeWhole DEF IInv

LEMMA StepIInv ==
    ASSUME IInv, [Next]_vars
    PROVE  IInv'
<1>1. CASE Next
  <2>1. PICK t \in Threads :
           \/ ThreadStart(t) \/ FetchOutsideROI(t) \/ KillProcess(t) \/ InsRef(t)
           \/ MagicInst(t) \/ ChampSim(t) \/ MemRef(t) \/ NoMemRef(t) \/ ThreadFini(t)
    BY <1>1 DEF Next
  <2>. QED
    BY <2>1, StartStep, FetchOutsideStep, KillStep, InsRefStep, MagicStep, ChampSimStep,
       MemStep, NoMemStep, FiniStep
<1>2. CASE UNCHANGED vars
  <2>1. TypeOK'
    BY <1>2 DEF IInv, TypeOK, vars, life, roi, filtered, unfiltered, windowed
  <2>. QED
    BY <1>2, <2>1, QuietStep DEF vars, life, unfiltered
<1>. QED
  BY <1>1, <1>2

\* No behaviour leaves the invariant
THEOREM Invariant ==
    Spec => []IInv
<1>. QED
  BY InitIInv, StepIInv, PTL DEF Spec

-----------------------------------------------------------------------------
(* The results.                                                            *)

\* Every variable has its type, whatever the threads execute
\* (the state of combined_tracer_40B.cpp, lines 60-150)
THEOREM TypeCorrect ==
    Spec => []TypeOK
<1>1. IInv => TypeOK
  BY DEF IInv
<1>. QED
  BY <1>1, Invariant, PTL

\* The traces have the form that their readers assume: marks at every
\* MARK_INTERVAL instructions, and every access on its side of them, for any
\* number of threads, size of the buffers and interval (InsRef, recordAccess,
\* ThreadFini)
THEOREM TracesAreDivided ==
    Spec => []MarksDivideTrace
<1>1. IInv => MarksDivideTrace
  BY DEF IInv, Complete, Traced, MarksDivideTrace
<1>. QED
  BY <1>1, Invariant, PTL

\* No access that is counted is lost: it is in the file or in a buffer that has
\* room, and in the file when the thread has ended (recordAccess, dump_tbuf,
\* ThreadFini)
THEOREM AccessesAreTraced ==
    Spec => []EveryAccessTraced
<1>1. IInv => EveryAccessTraced
  BY DEF IInv, Buffers, Complete, Traced, EveryAccessTraced
<1>. QED
  BY <1>1, Invariant, PTL

-----------------------------------------------------------------------------
(* The files for ChampSim.                                                 *)

\* A window is longer than one count, and so is what is between two windows,
\* by the two counts that a thread may take between two tests of the window
WindowsApart ==
    champsim_traceins >= 1 /\ PHASE_INTERVAL >= champsim_traceins + 3

LEMMA WindowArithmetic ==
    ASSUME WindowsApart, NEW a \in Nat, NEW b \in Nat, a <= b, b <= a + 2
    PROVE  /\ (a \div PHASE_INTERVAL) \in Nat /\ (b \div PHASE_INTERVAL) \in Nat
           /\ ~InWindow(a) /\ InWindow(b) => b \div PHASE_INTERVAL = a \div PHASE_INTERVAL + 1
           /\ InWindow(a) \/ ~InWindow(b) => b \div PHASE_INTERVAL = a \div PHASE_INTERVAL
<1>1. PICK p \in Nat \ {0}, c \in Nat :
         p = PHASE_INTERVAL /\ c = champsim_traceins /\ c >= 1 /\ p >= c + 3
  BY Constants DEF WindowsApart
<1>2. PICK q \in Nat, r \in 0 .. p - 1 : q = a \div p /\ r = a % p /\ a = p * q + r
  OBVIOUS
<1>3. PICK j \in Nat, s \in 0 .. p - 1 : j = b \div p /\ s = b % p /\ b = p * j + s
  OBVIOUS
<1>4. PICK m \in Nat : m = p * q
  <2>1. p * q \in Nat
    OBVIOUS
  <2>. QED
    BY <2>1
<1>5. CASE j < q
  <2>1. PICK d \in Nat : q = j + 1 + d
    <3>1. q - j - 1 \in Nat /\ q = j + 1 + (q - j - 1)
      BY <1>5
    <3>. QED
      BY <3>1
  <2>2. m = p * j + p + p * d
    BY <1>4, <2>1
  <2>3. p * d \in Nat /\ p * j \in Nat
    OBVIOUS
  <2>4. FALSE
    BY <1>2, <1>3, <1>4, <2>2, <2>3
  <2>. QED
    BY <2>4
<1>6. CASE j = q
  <2>1. b = m + s /\ a = m + r /\ r <= s
    BY <1>2, <1>3, <1>4, <1>6
  <2>. QED
    BY <1>1, <1>2, <1>3, <1>6, <2>1 DEF InWindow
<1>7. CASE j = q + 1
  <2>1. b = m + p + s /\ a = m + r
    BY <1>2, <1>3, <1>4, <1>7
  <2>2. s <= 1 /\ r >= p - 2
    BY <2>1
  <2>3. s <= c /\ r > c
    BY <1>1, <2>2
  <2>. QED
    BY <1>1, <1>2, <1>3, <1>7, <2>3 DEF InWindow
<1>8. CASE j > q + 1
  <2>1. PICK d \in Nat : j = q + 2 + d
    <3>1. j - q - 2 \in Nat /\ j = q + 2 + (j - q - 2)
      BY <1>8
    <3>. QED
      BY <3>1
  <2>2. p * j = m + 2 * p + p * d
    BY <1>4, <2>1
  <2>3. p * d \in Nat /\ p >= 3
    BY <1>1
  <2>4. FALSE
    BY <1>2, <1>3, <1>4, <2>2, <2>3
  <2>. QED
    BY <2>4
<1>. QED
  BY <1>5, <1>6, <1>7, <1>8

\* last is the last count at which thread t has tested the window, or 0: its file
\* is the one of that count.  A thread outside the ROI counts no instruction and
\* tests nothing, but one that ends its own ROI with an instruction has counted it.
Tested(t, last) ==
    /\ cst_phase[t] = last \div PHASE_INTERVAL
    /\ cst_open[t] <=> InWindow(last)
    /\ last <= ins_count[t] /\ ins_count[t] <= last + 2
    /\ step[t] \in {"fetch", "memory"} =>
          ins_count[t] = last \/ (ins_count[t] = last + 1 /\ ~inROI[t])
    /\ step[t] \in {"magic", "champsim"} => ins_count[t] <= last + 1 \/ inROI_master

Window(t) ==
    IF status[t] = "unborn"
    THEN ins_count[t] = 0 /\ cst_phase[t] = 0 /\ step[t] = "fetch"
    ELSE \E last \in Nat : Tested(t, last)

WInv == IInv /\ ChampSimFilesMatchPhases /\ \A t \in ChampSimThreads : Window(t)

\* What Window depends on, of a thread that does not take the step
Same(u) ==
    /\ status'[u] = status[u] /\ step'[u] = step[u] /\ ins_count'[u] = ins_count[u]
    /\ inROI'[u] = inROI[u] /\ cst_phase'[u] = cst_phase[u] /\ cst_open'[u] = cst_open[u]

LEMMA WindowKept ==
    ASSUME NEW u \in Threads, Window(u), Same(u), inROI_master => inROI_master'
    PROVE  Window(u)'
<1>1. CASE status[u] = "unborn"
  BY <1>1 DEF Window, Same
<1>2. CASE status[u] # "unborn"
  <2>1. PICK last \in Nat : Tested(u, last)
    BY <1>2 DEF Window
  <2>2. Tested(u, last)'
    BY <2>1 DEF Tested, Same, InWindow
  <2>. QED
    BY <1>2, <2>2 DEF Window, Same
<1>. QED
  BY <1>1, <1>2

Steps(t) ==
    \/ ThreadStart(t) \/ FetchOutsideROI(t) \/ KillProcess(t) \/ InsRef(t)
    \/ MagicInst(t) \/ ChampSim(t) \/ MemRef(t) \/ NoMemRef(t) \/ ThreadFini(t)

LEMMA OthersSame ==
    ASSUME TypeOK, NEW t \in Threads, Steps(t)
    PROVE  /\ \A u \in Threads \ {t} : Same(u)
           /\ inROI_master => inROI_master'
<1>1. /\ status \in [Threads -> {"unborn", "running", "done"}]
      /\ step \in [Threads -> {"fetch", "magic", "champsim", "memory"}]
      /\ ins_count \in [Threads -> Nat] /\ inROI \in [Threads -> BOOLEAN]
      /\ cst_phase \in [Threads -> Nat] /\ cst_open \in [Threads -> BOOLEAN]
  BY DEF TypeOK
<1>2. CASE ThreadStart(t)
  BY <1>1, <1>2 DEF ThreadStart, filtered, Same
<1>3. CASE FetchOutsideROI(t)
  BY <1>1, <1>3 DEF FetchOutsideROI, Fetch, roi, filtered, windowed, Same
<1>4. CASE KillProcess(t)
  BY <1>1, <1>4 DEF KillProcess, life, roi, filtered, windowed, Same
<1>5. CASE InsRef(t)
  BY <1>1, <1>5 DEF InsRef, Fetch, roi, windowed, Same
<1>6. CASE MagicInst(t)
  BY <1>1, <1>6 DEF MagicInst, filtered, windowed, Same
<1>7. CASE ChampSim(t)
  BY <1>1, <1>7 DEF ChampSim, roi, filtered, Same
<1>8. CASE MemRef(t)
  BY <1>1, <1>8 DEF MemRef, roi, windowed, Same
<1>9. CASE NoMemRef(t)
  BY <1>1, <1>9 DEF NoMemRef, roi, filtered, windowed, Same
<1>10. CASE ThreadFini(t)
  <2>1. \A u \in Threads \ {t} : status'[u] = status[u]
    BY <1>1, <1>10 DEF ThreadFini
  <2>. QED
    BY <2>1, <1>10 DEF ThreadFini, roi, windowed, Same
<1>. QED
  BY <1>2, <1>3, <1>4, <1>5, <1>6, <1>7, <1>8, <1>9, <1>10 DEF Steps

\* The steps of a thread before it tests the window, and after
LEMMA WindowSteps ==
    ASSUME TypeOK, NEW t \in ChampSimThreads, t \in Threads, Window(t), Steps(t), ~ChampSim(t)
    PROVE  Window(t)'
<1>1. /\ status \in [Threads -> {"unborn", "running", "done"}]
      /\ step \in [Threads -> {"fetch", "magic", "champsim", "memory"}]
      /\ ins_count \in [Threads -> Nat] /\ inROI \in [Threads -> BOOLEAN]
      /\ cst_phase \in [Threads -> Nat] /\ cst_open \in [Threads -> BOOLEAN]
  BY DEF TypeOK
<1>2. CASE ThreadStart(t)
  <2>1. ins_count[t] = 0 /\ cst_phase[t] = 0 /\ step[t] = "fetch"
    BY <1>2 DEF ThreadStart, Window
  <2>2. /\ status'[t] = "running" /\ cst_open'[t] /\ ins_count'[t] = 0 /\ cst_phase'[t] = 0
        /\ step'[t] = "fetch"
    BY <1>1, <1>2, <2>1 DEF ThreadStart, filtered
  <2>3. 0 \div PHASE_INTERVAL = 0 /\ InWindow(0)
    <3>1. PICK p \in Nat \ {0}, c \in Nat : p = PHASE_INTERVAL /\ c = champsim_traceins
      BY Constants
    <3>2. 0 \div p = 0 /\ 0 % p = 0
      OBVIOUS
    <3>. QED
      BY <3>1, <3>2 DEF InWindow
  <2>4. Tested(t, 0)'
    BY <2>2, <2>3 DEF Tested, InWindow
  <2>. QED
    BY <2>2, <2>4 DEF Window
<1>3. ASSUME status[t] = "running" PROVE \E last \in Nat : Tested(t, last)
  BY <1>3 DEF Window
<1>4. CASE FetchOutsideROI(t)
  <2>1. /\ status'[t] = "running" /\ status[t] = "running" /\ step[t] = "fetch"
        /\ step'[t] \in {"magic", "champsim"}
        /\ UNCHANGED <<ins_count, inROI, inROI_master, cst_phase, cst_open>>
    BY <1>1, <1>4 DEF FetchOutsideROI, Fetch, Running, roi, filtered, windowed
  <2>2. PICK last \in Nat : Tested(t, last)
    BY <1>3, <2>1
  <2>3. Tested(t, last)'
    BY <1>1, <2>1, <2>2 DEF Tested, InWindow
  <2>. QED
    BY <2>1, <2>3 DEF Window
<1>5. CASE KillProcess(t)
  <2>1. Same(t) /\ UNCHANGED inROI_master
    BY <1>5 DEF KillProcess, life, roi, filtered, windowed, Same
  <2>. QED
    BY <2>1, WindowKept
<1>6. CASE InsRef(t)
  <2>1. /\ status'[t] = "running" /\ status[t] = "running" /\ step[t] = "fetch"
        /\ step'[t] \in {"magic", "champsim"} /\ ins_count'[t] = ins_count[t] + 1
        /\ InROI(t)
        /\ UNCHANGED <<inROI, inROI_master, cst_phase, cst_open>>
    BY <1>1, <1>6 DEF InsRef, Fetch, Running, roi, windowed
  <2>2. PICK last \in Nat : Tested(t, last)
    BY <1>3, <2>1
  <2>3. PICK n \in Nat : n = ins_count[t]
    BY <1>1
  <2>4. n = last \/ (n = last + 1 /\ inROI_master)
    BY <2>1, <2>2, <2>3 DEF Tested, InROI
  <2>5. Tested(t, last)'
    <3>1. cst_phase'[t] = last \div PHASE_INTERVAL /\ (cst_open'[t] <=> InWindow(last)')
      BY <2>1, <2>2 DEF Tested, InWindow
    <3>2. last <= ins_count'[t] /\ ins_count'[t] <= last + 2
      BY <2>1, <2>3, <2>4
    <3>3. ins_count'[t] <= last + 1 \/ inROI_master'
      BY <2>1, <2>3, <2>4
    <3>. QED
      BY <2>1, <3>1, <3>2, <3>3 DEF Tested
  <2>. QED
    BY <2>1, <2>5 DEF Window
<1>7. CASE MagicInst(t)
  <2>1. /\ status'[t] = "running" /\ status[t] = "running" /\ step[t] = "magic"
        /\ step'[t] = "champsim" /\ (inROI_master => inROI_master')
        /\ UNCHANGED <<ins_count, cst_phase, cst_open>>
    BY <1>1, <1>7 DEF MagicInst, Running, filtered, windowed
  <2>2. PICK last \in Nat : Tested(t, last)
    BY <1>3, <2>1
  <2>3. Tested(t, last)'
    BY <1>1, <2>1, <2>2 DEF Tested, InWindow
  <2>. QED
    BY <2>1, <2>3 DEF Window
<1>8. CASE MemRef(t) \/ NoMemRef(t)
  <2>1. /\ status'[t] = "running" /\ status[t] = "running" /\ step[t] = "memory"
        /\ step'[t] = "fetch"
        /\ UNCHANGED <<ins_count, inROI, inROI_master, cst_phase, cst_open>>
    BY <1>1, <1>8 DEF MemRef, NoMemRef, Running, roi, filtered, windowed
  <2>2. PICK last \in Nat : Tested(t, last)
    BY <1>3, <2>1
  <2>3. Tested(t, last)'
    BY <1>1, <2>1, <2>2 DEF Tested, InWindow
  <2>. QED
    BY <2>1, <2>3 DEF Window
<1>9. CASE ThreadFini(t)
  <2>1. /\ status'[t] # "unborn" /\ status[t] = "running"
        /\ UNCHANGED <<step, ins_count, inROI, inROI_master, cst_phase, cst_open>>
    BY <1>1, <1>9 DEF ThreadFini, Running, roi, windowed
  <2>2. PICK last \in Nat : Tested(t, last)
    BY <1>3, <2>1
  <2>3. Tested(t, last)'
    BY <2>1, <2>2 DEF Tested, InWindow
  <2>. QED
    BY <2>1, <2>3 DEF Window
<1>. QED
  BY <1>2, <1>4, <1>5, <1>6, <1>7, <1>8, <1>9 DEF Steps

\* The test of the window: the file it leaves open is the one of this count
LEMMA TestStep ==
    ASSUME WindowsApart, TypeOK, NEW t \in ChampSimThreads, t \in Threads, Window(t), ChampSim(t)
    PROVE  /\ Window(t)'
           /\ InROI(t) /\ InWindow(ins_count[t]) => cst_phase'[t] = ins_count[t] \div PHASE_INTERVAL
<1>1. /\ step \in [Threads -> {"fetch", "magic", "champsim", "memory"}]
      /\ ins_count \in [Threads -> Nat] /\ inROI \in [Threads -> BOOLEAN]
      /\ cst_phase \in [Threads -> Nat] /\ cst_open \in [Threads -> BOOLEAN]
  BY DEF TypeOK
<1>2. /\ status'[t] = "running" /\ status[t] = "running" /\ step[t] = "champsim"
      /\ step'[t] = "memory" /\ UNCHANGED <<ins_count, inROI, inROI_master>>
  BY <1>1 DEF ChampSim, Running, roi, filtered
<1>3. PICK last \in Nat : Tested(t, last)
  BY <1>2 DEF Window
<1>4. PICK n \in Nat : n = ins_count[t]
  BY <1>1
<1>5. last <= n /\ n <= last + 2
  BY <1>3, <1>4 DEF Tested
<1>6. CASE InROI(t)
  <2>1. PICK opens, k :
           /\ opens = (InWindow(n) /\ ~cst_open[t])
           /\ k = IF opens THEN cst_phase[t] + 1 ELSE cst_phase[t]
           /\ cst_phase' = [cst_phase EXCEPT ![t] = k]
    BY <1>4, <1>6 DEF ChampSim
  <2>2. cst_open' = [cst_open EXCEPT ![t] = InWindow(n)]
    BY <1>4, <1>6 DEF ChampSim, CstOpen
  <2>3. k = n \div PHASE_INTERVAL
    <3>1. PICK a, b : a = last \div PHASE_INTERVAL /\ b = n \div PHASE_INTERVAL
      OBVIOUS
    <3>2. /\ ~InWindow(last) /\ InWindow(n) => b = a + 1
          /\ InWindow(last) \/ ~InWindow(n) => b = a
      BY <1>5, <3>1, WindowArithmetic
    <3>3. cst_phase[t] = a /\ (cst_open[t] <=> InWindow(last))
      BY <1>3, <3>1 DEF Tested
    <3>4. CASE InWindow(n) /\ ~InWindow(last)
      BY <2>1, <3>1, <3>2, <3>3, <3>4
    <3>5. CASE ~ (InWindow(n) /\ ~InWindow(last))
      BY <2>1, <3>1, <3>2, <3>3, <3>5
    <3>. QED
      BY <3>4, <3>5
  <2>4. cst_phase'[t] = n \div PHASE_INTERVAL /\ (cst_open'[t] <=> InWindow(n))
    BY <1>1, <2>1, <2>2, <2>3
  <2>5. Tested(t, n)'
    BY <1>2, <1>4, <2>4 DEF Tested, InWindow
  <2>. QED
    BY <1>2, <1>4, <2>4, <2>5 DEF Window
<1>7. CASE ~InROI(t)
  <2>1. ~inROI[t] /\ ~inROI_master
    BY <1>7 DEF InROI
  <2>2. cst_phase'[t] = cst_phase[t] /\ cst_open'[t] = cst_open[t]
    <3>1. cst_open' = [cst_open EXCEPT ![t] = cst_open[t]]
      BY <1>7 DEF ChampSim, CstOpen
    <3>2. cst_phase' = [cst_phase EXCEPT ![t] = cst_phase[t]]
      BY <1>7 DEF ChampSim
    <3>. QED
      BY <1>1, <3>1, <3>2
  <2>3. n = last \/ n = last + 1
    BY <1>2, <1>3, <1>4, <1>5, <2>1 DEF Tested
  <2>4. Tested(t, last)'
    <3>1. cst_phase'[t] = last \div PHASE_INTERVAL /\ (cst_open'[t] <=> InWindow(last)')
      BY <1>3, <2>2 DEF Tested, InWindow
    <3>2. last <= ins_count'[t] /\ ins_count'[t] <= last + 2
      BY <1>2, <1>4, <1>5
    <3>3. (ins_count'[t] = last \/ ins_count'[t] = last + 1) /\ ~inROI'[t]
      BY <1>2, <1>4, <2>1, <2>3
    <3>. QED
      BY <1>2, <3>1, <3>2, <3>3 DEF Tested
  <2>. QED
    BY <1>2, <1>7, <2>4 DEF Window
<1>. QED
  BY <1>6, <1>7

\* What a step appends to a file is of the phase of the file.
LEMMA FilesStep ==
    ASSUME WindowsApart, TypeOK, ChampSimFilesMatchPhases, NEW t \in Threads, ChampSim(t),
           t \in ChampSimThreads => Window(t)
    PROVE  ChampSimFilesMatchPhases'
<1>1. PICK W : W = [ip : Nat, executing : Nat, at : Nat]
  OBVIOUS
<1>2. champsim \in [Threads -> [Windows -> Seq(W)]] /\ cst_phase \in [Threads -> Nat]
  BY <1>1 DEF TypeOK
<1>3. PICK write, opens, k :
         /\ write = (t \in ChampSimThreads /\ InROI(t) /\ InWindow(ins_count[t]))
         /\ cst_phase' = [cst_phase EXCEPT ![t] = k]
         /\ champsim' = IF write
                        THEN [champsim EXCEPT ![t][k] =
                                IF opens THEN <<Written(t)>> ELSE Append(@, Written(t))]
                        ELSE champsim
  BY DEF ChampSim
<1>4. CASE ~write
  BY <1>3, <1>4 DEF ChampSimFilesMatchPhases
<1>5. CASE write
  <2>1. t \in ChampSimThreads /\ InROI(t) /\ InWindow(ins_count[t])
    BY <1>3, <1>5
  <2>2. cst_phase'[t] = k
    BY <1>2, <1>3
  <2>3. ins_count[t] \div PHASE_INTERVAL = k
    BY <2>1, <2>2, TestStep
  <2>4. PICK e : e = Written(t)
    OBVIOUS
  <2>5. e.at \div PHASE_INTERVAL = k
    BY <2>3, <2>4 DEF Written
  <2>6. PICK f : f = champsim[t]
    OBVIOUS
  <2>7. f \in [Windows -> Seq(W)]
    BY <1>2, <2>6
  <2>8. PICK g : g = IF opens THEN <<e>> ELSE Append(f[k], e)
    OBVIOUS
  <2>9. champsim' = [champsim EXCEPT ![t] = [f EXCEPT ![k] = g]]
    <3>1. CASE opens
      BY <1>2, <1>3, <1>5, <2>4, <2>6, <2>8, <3>1
    <3>2. CASE ~opens
      BY <1>2, <1>3, <1>5, <2>4, <2>6, <2>8, <3>2
    <3>. QED
      BY <3>1, <3>2
  <2>10. ASSUME k \in Windows, NEW n \in DOMAIN g
         PROVE  g[n].at \div PHASE_INTERVAL = k
    <3>1. CASE opens
      BY <2>5, <2>8, <3>1
    <3>2. CASE ~opens
      <4>1. f[k] \in Seq(W) /\ Len(f[k]) \in Nat /\ DOMAIN f[k] = 1 .. Len(f[k])
        BY <2>7, <2>10, LenProperties
      <4>2. g = f[k] \o <<e>> /\ g = Append(f[k], e)
        BY <2>8, <3>2, <4>1, AppendIsConcat
      <4>3. /\ DOMAIN g = 1 .. Len(f[k]) + 1 /\ g[Len(f[k]) + 1] = e
            /\ \A m \in 1 .. Len(f[k]) : g[m] = f[k][m]
        BY <4>1, <4>2
      <4>4. CASE n = Len(f[k]) + 1
        BY <2>5, <4>3, <4>4
      <4>5. CASE n # Len(f[k]) + 1
        <5>1. n \in DOMAIN f[k] /\ n \in 1 .. Len(f[k])
          BY <4>1, <4>3, <4>5
        <5>2. f[k][n].at \div PHASE_INTERVAL = k
          BY <2>6, <2>10, <5>1 DEF ChampSimFilesMatchPhases
        <5>. QED
          BY <4>3, <5>1, <5>2
      <4>. QED
        BY <4>4, <4>5
    <3>. QED
      BY <3>1, <3>2
  <2>11. ASSUME NEW u \in Threads, NEW j \in Windows, NEW n \in DOMAIN champsim'[u][j]
         PROVE  champsim'[u][j][n].at \div PHASE_INTERVAL = j
    <3>1. CASE u = t /\ j = k
      <4>1. champsim'[u][j] = g
        BY <1>2, <2>7, <2>9, <3>1
      <4>. QED
        BY <2>10, <2>11, <3>1, <4>1
    <3>2. CASE ~ (u = t /\ j = k)
      <4>1. champsim'[u][j] = champsim[u][j]
        BY <1>2, <2>6, <2>7, <2>9, <3>2
      <4>. QED
        BY <2>11, <4>1 DEF ChampSimFilesMatchPhases
    <3>. QED
      BY <3>1, <3>2
  <2>. QED
    BY <2>11 DEF ChampSimFilesMatchPhases
<1>. QED
  BY <1>4, <1>5

LEMMA InitWInv ==
    Init => WInv
<1>. SUFFICES ASSUME Init PROVE WInv
  OBVIOUS
<1>1. ChampSimFilesMatchPhases
  <2>1. ASSUME NEW t \in Threads, NEW k \in Windows, NEW n \in DOMAIN champsim[t][k]
        PROVE  FALSE
    BY DEF Init
  <2>. QED
    BY <2>1 DEF ChampSimFilesMatchPhases
<1>2. \A t \in ChampSimThreads : Window(t)
  <2>1. \A t \in ChampSimThreads : t \in Threads
    BY TracerAssumption
  <2>. QED
    BY <2>1 DEF Init, Window
<1>. QED
  BY <1>1, <1>2, InitIInv DEF WInv

LEMMA StepWInv ==
    ASSUME WindowsApart, WInv, [Next]_vars
    PROVE  WInv'
<1>1. TypeOK /\ IInv'
  BY StepIInv DEF WInv, IInv
<1>2. \A u \in ChampSimThreads : u \in Threads
  BY TracerAssumption
<1>3. CASE Next
  <2>1. PICK t \in Threads : Steps(t)
    BY <1>3 DEF Next, Steps
  <2>2. ChampSimFilesMatchPhases'
    <3>1. CASE ChampSim(t)
      BY <1>1, <3>1, FilesStep DEF WInv
    <3>2. CASE ~ChampSim(t)
      <4>1. champsim' = champsim
        BY <2>1, <3>2 DEF Steps, ThreadStart, FetchOutsideROI, KillProcess, InsRef, MagicInst,
           MemRef, NoMemRef, ThreadFini, windowed
      <4>. QED
        BY <4>1 DEF WInv, ChampSimFilesMatchPhases
    <3>. QED
      BY <3>1, <3>2
  <2>3. ASSUME NEW u \in ChampSimThreads
        PROVE  Window(u)'
    <3>1. Window(u) /\ u \in Threads
      BY <1>2 DEF WInv
    <3>2. CASE u # t
      BY <1>1, <2>1, <3>1, <3>2, OthersSame, WindowKept
    <3>3. CASE u = t /\ ChampSim(t)
      BY <1>1, <3>1, <3>3, TestStep
    <3>4. CASE u = t /\ ~ChampSim(t)
      BY <1>1, <2>1, <3>1, <3>4, WindowSteps
    <3>. QED
      BY <3>2, <3>3, <3>4
  <2>. QED
    BY <1>1, <2>2, <2>3 DEF WInv
<1>4. CASE UNCHANGED vars
  <2>1. champsim' = champsim
    BY <1>4 DEF vars, windowed
  <2>2. ASSUME NEW u \in ChampSimThreads
        PROVE  Window(u)'
    <3>1. Same(u) /\ inROI_master' = inROI_master
      BY <1>4 DEF vars, life, roi, filtered, windowed, Same
    <3>. QED
      BY <1>2, <3>1, WindowKept DEF WInv
  <2>. QED
    BY <1>1, <2>1, <2>2 DEF WInv, ChampSimFilesMatchPhases
<1>. QED
  BY <1>3, <1>4

\* When the windows are apart, a file for ChampSim has the instructions of its
\* phase only, whatever the threads' regions of interest and the moment at which
\* one of them starts the master ROI (ShouldWrite, open_champsim_trace)
THEOREM FilesMatchPhases ==
    ASSUME WindowsApart
    PROVE  Spec => []ChampSimFilesMatchPhases
<1>1. WInv /\ [Next]_vars => WInv'
  BY StepWInv
<1>2. WInv => ChampSimFilesMatchPhases
  BY DEF WInv
<1>. QED
  BY <1>1, <1>2, InitWInv, PTL DEF Spec

-----------------------------------------------------------------------------
(* The files of a thread's memory references, one after the other.  The    *)
(* flattening of the community modules is a recursive function: it exists, *)
(* and its values depend on the sequences before them only.                *)

\* g[i] is the first i sequences of s, one after the other
FlatTo(s, m, g) ==
    g = [i \in 1 .. m |-> IF i = 1 THEN s[i] ELSE g[i - 1] \o s[i]]

LEMMA FlatExists ==
    ASSUME NEW s, NEW m \in Nat
    PROVE  \E g : FlatTo(s, m, g)
<1>1. PICK P : P = {k \in Nat : \E g : FlatTo(s, k, g)}
  OBVIOUS
<1>2. 0 \in P
  <2>1. PICK g : g = [i \in 1 .. 0 |-> s[i]]
    OBVIOUS
  <2>2. 1 .. 0 = {}
    OBVIOUS
  <2>3. FlatTo(s, 0, g)
    BY <2>1, <2>2 DEF FlatTo
  <2>. QED
    BY <1>1, <2>3
<1>3. ASSUME NEW k \in 1 .. m, k - 1 \in P PROVE k \in P
  <2>1. PICK g : FlatTo(s, k - 1, g)
    BY <1>1, <1>3
  <2>2. PICK h : h = [i \in 1 .. k |-> IF i = 1 THEN s[i] ELSE g[i - 1] \o s[i]]
    OBVIOUS
  <2>3. \A i \in 1 .. k : i # 1 => h[i - 1] = g[i - 1]
    <3>. SUFFICES ASSUME NEW i \in 1 .. k, i # 1 PROVE h[i - 1] = g[i - 1]
      OBVIOUS
    <3>1. PICK j : j = i - 1
      OBVIOUS
    <3>2. j \in 1 .. k /\ j \in 1 .. k - 1
      BY <3>1
    <3>3. h[j] = IF j = 1 THEN s[j] ELSE g[j - 1] \o s[j]
      BY <2>2, <3>2
    <3>4. g[j] = IF j = 1 THEN s[j] ELSE g[j - 1] \o s[j]
      BY <2>1, <3>2 DEF FlatTo
    <3>. QED
      BY <3>1, <3>3, <3>4
  <2>4. h = [i \in 1 .. k |-> IF i = 1 THEN s[i] ELSE h[i - 1] \o s[i]]
    BY <2>2, <2>3
  <2>5. FlatTo(s, k, h)
    BY <2>4, Zenon DEF FlatTo
  <2>6. k \in Nat
    OBVIOUS
  <2>. QED
    BY <1>1, <2>5, <2>6
<1>4. m \in P
  <2>1. \A k \in 0 .. m : k \in P
    BY <1>2, <1>3, CountUp
  <2>. QED
    BY <2>1
<1>. QED
  BY <1>1, <1>4

\* The flattening of no more than s has.
LEMMA FlatEquation ==
    ASSUME NEW s, NEW m \in Nat \ {0}, Len(s) = m
    PROVE  \E g : FlatTo(s, m, g) /\ FlattenSeq(s) = g[m]
<1>1. PICK g : g = CHOOSE flatten : flatten = [i \in 1 .. Len(s) |->
                      IF i = 1 THEN s[i] ELSE flatten[i - 1] \o s[i]]
  OBVIOUS
<1>2. FlattenSeq(s) = g[m]
  BY <1>1 DEF FlattenSeq
<1>3. \E h : h = [i \in 1 .. Len(s) |-> IF i = 1 THEN s[i] ELSE h[i - 1] \o s[i]]
  <2>1. PICK h : FlatTo(s, m, h)
    BY FlatExists
  <2>. QED
    BY <2>1 DEF FlatTo
<1>4. FlatTo(s, m, g)
  BY <1>1, <1>3 DEF FlatTo
<1>. QED
  BY <1>2, <1>4

\* Two sequences that begin alike
LEMMA FlatAgree ==
    ASSUME NEW s, NEW r, NEW m \in Nat, NEW n \in Nat, NEW g, NEW h,
           FlatTo(s, m, g), FlatTo(r, n, h), n <= m,
           \A i \in 1 .. n : s[i] = r[i]
    PROVE  \A i \in 1 .. n : g[i] = h[i]
<1>1. PICK P : P = {i \in Nat : i = 0 \/ g[i] = h[i]}
  OBVIOUS
<1>2. ASSUME NEW i \in 1 .. n, i - 1 \in P PROVE i \in P
  <2>1. /\ g[i] = IF i = 1 THEN s[i] ELSE g[i - 1] \o s[i]
        /\ h[i] = IF i = 1 THEN r[i] ELSE h[i - 1] \o r[i]
    <3>1. i \in 1 .. m
      OBVIOUS
    <3>. QED
      BY <3>1 DEF FlatTo
  <2>2. i # 1 => g[i - 1] = h[i - 1]
    BY <1>1, <1>2
  <2>3. s[i] = r[i]
    OBVIOUS
  <2>4. g[i] = h[i]
    BY <2>1, <2>2, <2>3
  <2>. QED
    BY <1>1, <2>4
<1>3. 0 \in P
  BY <1>1
<1>4. \A i \in 0 .. n : i \in P
  BY <1>2, <1>3, CountUp
<1>5. \A i \in 1 .. n : i \in 0 .. n /\ i # 0
  OBVIOUS
<1>. QED
  BY <1>1, <1>4, <1>5

\* what is in the files f[0] .. f[k]
Files(f, k) == FlattenSeq([n \in 1 .. k + 1 |-> f[n - 1]])

LEMMA FirstFile ==
    ASSUME NEW f
    PROVE  Files(f, 0) = f[0]
<1>1. PICK s : s = [n \in 1 .. 0 + 1 |-> f[n - 1]]
  OBVIOUS
<1>2. s = [n \in 1 .. 1 |-> f[n - 1]]
  BY <1>1
<1>3. Len(s) = 1 /\ s[1] = f[0]
  BY <1>2
<1>4. PICK g : FlatTo(s, 1, g) /\ FlattenSeq(s) = g[1]
  <2>1. PICK m \in Nat \ {0} : m = 1
    OBVIOUS
  <2>2. \E g : FlatTo(s, m, g) /\ FlattenSeq(s) = g[m]
    BY <1>3, <2>1, FlatEquation
  <2>. QED
    BY <2>1, <2>2
<1>5. g[1] = s[1]
  BY <1>4 DEF FlatTo
<1>. QED
  BY <1>1, <1>3, <1>4, <1>5 DEF Files

LEMMA NextFile ==
    ASSUME NEW f, NEW k \in Nat \ {0}
    PROVE  Files(f, k) = Files(f, k - 1) \o f[k]
<1>1. PICK s : s = [n \in 1 .. k + 1 |-> f[n - 1]]
  OBVIOUS
<1>2. PICK r : r = [n \in 1 .. (k - 1) + 1 |-> f[n - 1]]
  OBVIOUS
<1>3. r = [n \in 1 .. k |-> f[n - 1]]
  BY <1>2
<1>4. Len(s) = k + 1 /\ Len(r) = k
  BY <1>1, <1>3
<1>5. PICK g : FlatTo(s, k + 1, g) /\ FlattenSeq(s) = g[k + 1]
  BY <1>4, FlatEquation
<1>6. PICK h : FlatTo(r, k, h) /\ FlattenSeq(r) = h[k]
  BY <1>4, FlatEquation
<1>7. \A i \in 1 .. k : s[i] = r[i]
  BY <1>1, <1>3
<1>8. g[k] = h[k]
  BY <1>5, <1>6, <1>7, FlatAgree
<1>9. g[k + 1] = g[k] \o s[k + 1]
  <2>1. k + 1 \in 1 .. k + 1 /\ k + 1 # 1 /\ (k + 1) - 1 = k
    OBVIOUS
  <2>2. g[k + 1] = IF k + 1 = 1 THEN s[k + 1] ELSE g[(k + 1) - 1] \o s[k + 1]
    BY <1>5, <2>1 DEF FlatTo
  <2>. QED
    BY <2>1, <2>2
<1>10. s[k + 1] = f[k]
  <2>1. k + 1 \in 1 .. k + 1 /\ (k + 1) - 1 = k
    OBVIOUS
  <2>. QED
    BY <1>1, <2>1
<1>. QED
  BY <1>1, <1>2, <1>5, <1>6, <1>8, <1>9, <1>10 DEF Files

LEMMA FilesType ==
    ASSUME NEW f, NEW k \in Nat, \A n \in 0 .. k : f[n] \in Seq(Record)
    PROVE  Files(f, k) \in Seq(Record)
<1>1. PICK P : P = {n \in Nat : Files(f, n) \in Seq(Record)}
  OBVIOUS
<1>2. 0 \in P
  BY <1>1, FirstFile
<1>3. ASSUME NEW n \in 1 .. k, n - 1 \in P PROVE n \in P
  <2>1. Files(f, n - 1) \in Seq(Record) /\ f[n] \in Seq(Record) /\ n \in Nat \ {0}
    BY <1>1, <1>3
  <2>2. Files(f, n) = Files(f, n - 1) \o f[n]
    BY <2>1, NextFile
  <2>3. Files(f, n) \in Seq(Record)
    BY <2>1, <2>2, ConcatProperties
  <2>. QED
    BY <1>1, <2>1, <2>3
<1>4. \A n \in 0 .. k : n \in P
  BY <1>2, <1>3, CountUp
<1>. QED
  BY <1>1, <1>4

\* A file that is not among them does not matter.
LEMMA OtherFiles ==
    ASSUME NEW f, NEW h, NEW k \in Nat, \A n \in 0 .. k : f[n] = h[n]
    PROVE  Files(f, k) = Files(h, k)
<1>1. [n \in 1 .. k + 1 |-> f[n - 1]] = [n \in 1 .. k + 1 |-> h[n - 1]]
  <2>1. \A n \in 1 .. k + 1 : n - 1 \in 0 .. k
    OBVIOUS
  <2>. QED
    BY <2>1
<1>. QED
  BY <1>1 DEF Files

\* What is appended to the last file is appended to them all.
LEMMA LastFileGrows ==
    ASSUME NEW f, NEW h, NEW k \in Nat, NEW w \in Seq(Record),
           \A n \in 0 .. k : f[n] \in Seq(Record),
           \A n \in 0 .. k : n # k => h[n] = f[n],
           h[k] = f[k] \o w
    PROVE  Files(h, k) = Files(f, k) \o w
<1>1. CASE k = 0
  BY <1>1, FirstFile
<1>2. CASE k # 0
  <2>1. k - 1 \in Nat /\ k \in 0 .. k /\ \A n \in 0 .. k - 1 : n \in 0 .. k /\ n # k
    BY <1>2
  <2>2. Files(h, k - 1) = Files(f, k - 1)
    BY <2>1, OtherFiles
  <2>3. Files(h, k) = Files(h, k - 1) \o h[k] /\ Files(f, k) = Files(f, k - 1) \o f[k]
    BY <1>2, NextFile
  <2>4. Files(f, k - 1) \in Seq(Record) /\ f[k] \in Seq(Record)
    BY <2>1, FilesType
  <2>5. PICK p \in Seq(Record), q \in Seq(Record) : p = Files(f, k - 1) /\ q = f[k]
    BY <2>4
  <2>6. p \o (q \o w) = (p \o q) \o w
    BY ConcatAssociative
  <2>. QED
    BY <2>2, <2>3, <2>5, <2>6
<1>. QED
  BY <1>1, <1>2

\* A new file after the last one
Opens(f, h, k, w) == (\A n \in 0 .. k : h[n] = f[n]) /\ h[k + 1] = w

LEMMA FileOpens ==
    ASSUME NEW f, NEW h, NEW k \in Nat, NEW w, Opens(f, h, k, w)
    PROVE  Files(h, k + 1) = Files(f, k) \o w
<1>1. Files(h, k) = Files(f, k) /\ h[k + 1] = w
  BY OtherFiles DEF Opens
<1>2. k + 1 \in Nat \ {0} /\ (k + 1) - 1 = k
  OBVIOUS
<1>3. Files(h, k + 1) = Files(h, (k + 1) - 1) \o h[k + 1]
  BY <1>2, NextFile
<1>. QED
  BY <1>1, <1>2, <1>3

LEMMA RegroupRecords ==
    ASSUME NEW p \in Seq(Record), NEW q \in Seq(Record), NEW u \in Seq(Record)
    PROVE  (p \o q) \o u = p \o (q \o u)
BY ConcatAssociative

\* A sequence and one more element
LEMMA OneMore ==
    ASSUME NEW x \in Seq(Record), NEW e \in Record, NEW s, s = Append(x, e)
    PROVE  Front(s) = x /\ Last(s) = e
<1>1. PICK n \in Nat : n = Len(x)
  BY LenProperties
<1>2. /\ s \in Seq(Record) /\ Len(s) = n + 1 /\ s[n + 1] = e
      /\ \A k \in 1 .. n : s[k] = x[k]
  BY <1>1, AppendProperties
<1>3. Last(s) = e
  BY <1>2 DEF Last
<1>4. Front(s) = SubSeq(s, 1, n)
  BY <1>2 DEF Front
<1>5. SubSeq(s, 1, n) \in Seq(Record) /\ Len(SubSeq(s, 1, n)) = n
      /\ \A k \in 1 .. n : SubSeq(s, 1, n)[k] = s[k]
  BY <1>2
<1>6. SubSeq(s, 1, n) = x
  BY <1>1, <1>2, <1>5, SeqEqual
<1>. QED
  BY <1>3, <1>4, <1>6

\* The number of a thread's file is that of a window: the file of a reference is
\* opened at most once for an instruction.
Numbered(t) ==
    /\ mt_nf_phase[t] <= executed[t] /\ executed[t] <= MaxInsts[t]
    /\ step[t] # "fetch" => mt_nf_phase[t] < executed[t]

GInv == IInv /\ \A t \in Threads : Numbered(t)

\* What a step does to what thread u recorded
Grows(u) ==
    LET new == Unfiltered(u)'
    IN \/ new = Unfiltered(u)
       \/ /\ Running(u, "memory") /\ instr[u].mem # "none"
          /\ Front(new) = Unfiltered(u)
          /\ Last(new).rw = instr[u].mem /\ Last(new).ts = ins_count[u]

LEMMA FilesUnchanged ==
    ASSUME NEW u \in Threads, mtrace_nf'[u] = mtrace_nf[u],
           mt_nf_phase'[u] = mt_nf_phase[u], t_buf_nf'[u] = t_buf_nf[u]
    PROVE  Grows(u)
<1>1. Unfiltered(u) = Files(mtrace_nf[u], mt_nf_phase[u]) \o t_buf_nf[u]
  BY DEF Unfiltered, Files
<1>2. Unfiltered(u)' = Files(mtrace_nf'[u], mt_nf_phase'[u]) \o t_buf_nf'[u]
  BY DEF Unfiltered, Files
<1>. QED
  BY <1>1, <1>2 DEF Grows

\* The files of a thread are sequences, and its last one has a number of a window.
LEMMA LastWindow ==
    ASSUME GInv, NEW t \in Threads
    PROVE  /\ mt_nf_phase[t] \in Nat /\ mtrace_nf[t] \in [Windows -> Seq(Record)]
           /\ t_buf_nf[t] \in Seq(Record)
           /\ \A n \in 0 .. mt_nf_phase[t] : n \in Windows
           /\ step[t] # "fetch" => mt_nf_phase[t] + 1 \in Windows
<1>1. UnfilteredTypes /\ LifeTypes
  BY TypeParts DEF GInv, IInv
<1>2. mt_nf_phase[t] \in Nat /\ executed[t] \in Nat /\ MaxInsts[t] \in Nat
  BY <1>1, TracerAssumption DEF UnfilteredTypes, LifeTypes
<1>3. \A n \in 0 .. MaxInsts[t] : n \in Windows
  BY DEF Windows
<1>4. Numbered(t)
  BY DEF GInv
<1>5. \A n \in 0 .. mt_nf_phase[t] : n \in 0 .. MaxInsts[t]
  BY <1>2, <1>4 DEF Numbered
<1>6. step[t] # "fetch" => mt_nf_phase[t] + 1 \in 0 .. MaxInsts[t]
  BY <1>2, <1>4 DEF Numbered
<1>. QED
  BY <1>1, <1>2, <1>3, <1>5, <1>6 DEF UnfilteredTypes

\* A reference is recorded after all that were, whichever file its buffer goes to.
LEMMA MemGrows ==
    ASSUME GInv, NEW t \in Threads, MemRef(t)
    PROVE  \A u \in Threads : Grows(u)
<1>1. UnfilteredTypes /\ LifeTypes /\ CountTypes
  BY TypeParts DEF GInv, IInv
<1>2. PICK line \in Lines : RecordUnfiltered(t, line)
  BY DEF MemRef
<1>3. Running(t, "memory") /\ instr[t].mem # "none" /\ step[t] # "fetch"
  BY DEF MemRef, Running
<1>4. PICK e \in Record : e = [line |-> line, rw |-> instr[t].mem, ts |-> ins_count[t]]
  <2>1. instr[t].mem \in {"load", "store"} /\ ins_count[t] \in Nat
    BY <1>1, <1>3 DEF LifeTypes, CountTypes, Instruction
  <2>. QED
    BY <2>1 DEF Record
<1>5. PICK p \in Nat, f \in [Windows -> Seq(Record)], old \in Seq(Record) :
         p = mt_nf_phase[t] /\ f = mtrace_nf[t] /\ old = t_buf_nf[t]
  BY LastWindow
<1>6. (\A n \in 0 .. p : n \in Windows) /\ p \in Windows /\ p + 1 \in Windows
  BY <1>3, <1>5, LastWindow
<1>7. PICK buf \in Seq(Record) : buf = Append(old, e)
  BY AppendProperties
<1>8. PICK w \in Seq(Record), b \in Seq(Record) :
         w = WrittenOut(buf) /\ b = Buffered(buf) /\ w \o b = buf
  BY BufferSplits
<1>9. PICK k :
         /\ mt_nf_phase' = [mt_nf_phase EXCEPT ![t] = k]
         /\ \/ k = p /\ UNCHANGED <<t_buf_nf, mtrace_nf>>
            \/ /\ t_buf_nf' = [t_buf_nf EXCEPT ![t] = b]
               /\ \/ /\ k = p + 1
                     /\ mtrace_nf' = [mtrace_nf EXCEPT ![t] = [f EXCEPT ![k] = w]]
                  \/ /\ k = p
                     /\ mtrace_nf' = [mtrace_nf EXCEPT ![t] = [f EXCEPT ![k] = f[k] \o w]]
  <2>1. CASE ~InWindow(ins_count[t])
    <3>1. mt_nf_phase' = [mt_nf_phase EXCEPT ![t] = p] /\ UNCHANGED <<t_buf_nf, mtrace_nf>>
      BY <1>2, <1>5, <2>1 DEF RecordUnfiltered
    <3>. QED
      BY <3>1
  <2>2. CASE InWindow(ins_count[t]) /\ ~mt_nf_open[t]
    <3>1. /\ mt_nf_phase' = [mt_nf_phase EXCEPT ![t] = p + 1]
          /\ t_buf_nf' = [t_buf_nf EXCEPT ![t] = b]
          /\ mtrace_nf' = [mtrace_nf EXCEPT ![t][p + 1] = <<>> \o w]
      BY <1>2, <1>4, <1>5, <1>7, <1>8, <2>2 DEF RecordUnfiltered, MtNfPhase
    <3>2. <<>> \o w = w
      BY ConcatEmptySeq
    <3>3. mtrace_nf' = [mtrace_nf EXCEPT ![t] = [f EXCEPT ![p + 1] = w]]
      BY <1>5, <3>1, <3>2
    <3>. QED
      BY <3>1, <3>3
  <2>3. CASE InWindow(ins_count[t]) /\ mt_nf_open[t]
    <3>1. /\ mt_nf_phase' = [mt_nf_phase EXCEPT ![t] = p]
          /\ t_buf_nf' = [t_buf_nf EXCEPT ![t] = b]
          /\ mtrace_nf' = [mtrace_nf EXCEPT ![t][p] = @ \o w]
      BY <1>2, <1>4, <1>5, <1>7, <1>8, <2>3 DEF RecordUnfiltered
    <3>2. mtrace_nf' = [mtrace_nf EXCEPT ![t] = [f EXCEPT ![p] = f[p] \o w]]
      BY <1>5, <3>1
    <3>. QED
      BY <3>1, <3>2
  <2>. QED
    BY <2>1, <2>2, <2>3
<1>10. ASSUME NEW u \in Threads, u # t PROVE Grows(u)
  <2>1. mt_nf_phase'[u] = mt_nf_phase[u]
    BY <1>1, <1>9, <1>10 DEF UnfilteredTypes
  <2>2. t_buf_nf'[u] = t_buf_nf[u] /\ mtrace_nf'[u] = mtrace_nf[u]
    BY <1>1, <1>9, <1>10 DEF UnfilteredTypes
  <2>. QED
    BY <2>1, <2>2, FilesUnchanged
<1>11. CASE k = p /\ UNCHANGED <<t_buf_nf, mtrace_nf>>
  <2>1. mt_nf_phase'[t] = mt_nf_phase[t]
    BY <1>1, <1>5, <1>9, <1>11 DEF UnfilteredTypes
  <2>. QED
    BY <1>10, <1>11, <2>1, FilesUnchanged
<1>12. CASE /\ t_buf_nf' = [t_buf_nf EXCEPT ![t] = b]
            /\ \/ /\ k = p + 1
                  /\ mtrace_nf' = [mtrace_nf EXCEPT ![t] = [f EXCEPT ![k] = w]]
               \/ /\ k = p
                  /\ mtrace_nf' = [mtrace_nf EXCEPT ![t] = [f EXCEPT ![k] = f[k] \o w]]
  <2>1. t_buf_nf'[t] = b /\ mt_nf_phase'[t] = k
    BY <1>1, <1>9, <1>12 DEF UnfilteredTypes
  <2>2. PICK q \in Seq(Record) : q = Files(f, p)
    BY <1>5, <1>6, FilesType
  <2>3. Files(mtrace_nf'[t], k) = q \o w
    <3>1. ASSUME k = p + 1, mtrace_nf' = [mtrace_nf EXCEPT ![t] = [f EXCEPT ![k] = w]]
          PROVE  Files(mtrace_nf'[t], k) = q \o w
      <4>1. PICK h : h = mtrace_nf'[t]
        OBVIOUS
      <4>2. h = [f EXCEPT ![p + 1] = w]
        BY <1>1, <3>1, <4>1 DEF UnfilteredTypes
      <4>3. Opens(f, h, p, w)
        BY <1>6, <4>2 DEF Opens
      <4>4. Files(h, p + 1) = Files(f, p) \o w
        BY <4>3, FileOpens
      <4>. QED
        BY <2>2, <3>1, <4>1, <4>4
    <3>2. ASSUME k = p, mtrace_nf' = [mtrace_nf EXCEPT ![t] = [f EXCEPT ![k] = f[k] \o w]]
          PROVE  Files(mtrace_nf'[t], k) = q \o w
      <4>1. PICK h : h = mtrace_nf'[t]
        OBVIOUS
      <4>2. h = [f EXCEPT ![p] = f[p] \o w]
        BY <1>1, <3>2, <4>1 DEF UnfilteredTypes
      <4>3. /\ h[p] = f[p] \o w /\ \A n \in 0 .. p : n # p => h[n] = f[n]
            /\ \A n \in 0 .. p : f[n] \in Seq(Record)
        BY <1>6, <4>2
      <4>4. Files(h, p) = Files(f, p) \o w
        BY <4>3, LastFileGrows
      <4>. QED
        BY <2>2, <3>2, <4>1, <4>4
    <3>. QED
      BY <1>12, <3>1, <3>2
  <2>4. Unfiltered(t) = q \o old
    BY <1>5, <2>2 DEF Unfiltered, Files
  <2>5. Unfiltered(t)' = (q \o w) \o b
    <3>1. Unfiltered(t)' = Files(mtrace_nf'[t], mt_nf_phase'[t]) \o t_buf_nf'[t]
      BY DEF Unfiltered, Files
    <3>. QED
      BY <2>1, <2>3, <3>1
  <2>6. (q \o w) \o b = Append(q \o old, e)
    <3>1. (q \o w) \o b = q \o (w \o b)
      BY RegroupRecords
    <3>2. buf = old \o <<e>> /\ <<e>> \in Seq(Record)
      BY <1>7, AppendIsConcat
    <3>3. q \o (old \o <<e>>) = (q \o old) \o <<e>>
      BY <3>2, RegroupRecords
    <3>4. q \o old \in Seq(Record)
      BY ConcatProperties
    <3>5. (q \o old) \o <<e>> = Append(q \o old, e)
      BY <3>4, AppendIsConcat
    <3>. QED
      BY <1>8, <3>1, <3>2, <3>3, <3>5
  <2>7. Front(Unfiltered(t)') = Unfiltered(t) /\ Last(Unfiltered(t)') = e
    <3>1. q \o old \in Seq(Record)
      BY ConcatProperties
    <3>. QED
      BY <2>4, <2>5, <2>6, <3>1, OneMore
  <2>8. Grows(t)
    BY <1>3, <1>4, <2>7 DEF Grows
  <2>. QED
    BY <1>10, <2>8
<1>. QED
  BY <1>9, <1>11, <1>12

\* The end of a thread moves what its buffer has to its file.
LEMMA FiniGrows ==
    ASSUME GInv, NEW t \in Threads, ThreadFini(t)
    PROVE  \A u \in Threads : Grows(u)
<1>1. UnfilteredTypes
  BY TypeParts DEF GInv, IInv
<1>2. UNCHANGED mt_nf_phase
  BY DEF ThreadFini
<1>3. CASE mt_nf_open[t] \/ t_buf_nf[t] = <<>>
  <2>1. PICK p \in Nat, f \in [Windows -> Seq(Record)], b \in Seq(Record) :
           p = mt_nf_phase[t] /\ f = mtrace_nf[t] /\ b = t_buf_nf[t]
    BY LastWindow
  <2>2. (\A n \in 0 .. p : n \in Windows) /\ p \in Windows
    BY <2>1, LastWindow
  <2>3. /\ mtrace_nf' = [mtrace_nf EXCEPT ![t][p] = @ \o b]
        /\ t_buf_nf' = [t_buf_nf EXCEPT ![t] = <<>>]
    BY <1>3, <2>1 DEF ThreadFini
  <2>4. mtrace_nf' = [mtrace_nf EXCEPT ![t] = [f EXCEPT ![p] = f[p] \o b]]
    BY <2>1, <2>3
  <2>5. ASSUME NEW u \in Threads, u # t PROVE Grows(u)
    <3>1. mtrace_nf'[u] = mtrace_nf[u] /\ t_buf_nf'[u] = t_buf_nf[u]
      BY <1>1, <2>3, <2>4, <2>5 DEF UnfilteredTypes
    <3>. QED
      BY <1>2, <3>1, FilesUnchanged
  <2>6. Grows(t)
    <3>1. PICK h : h = mtrace_nf'[t]
      OBVIOUS
    <3>2. h = [f EXCEPT ![p] = f[p] \o b]
      BY <1>1, <2>4, <3>1 DEF UnfilteredTypes
    <3>3. /\ h[p] = f[p] \o b /\ \A n \in 0 .. p : n # p => h[n] = f[n]
          /\ \A n \in 0 .. p : f[n] \in Seq(Record)
      BY <2>2, <3>2
    <3>4. PICK q \in Seq(Record) : q = Files(f, p)
      BY <3>3, FilesType
    <3>5. Files(h, p) = q \o b
      BY <3>3, <3>4, LastFileGrows
    <3>6. Unfiltered(t) = q \o b
      BY <2>1, <3>4 DEF Unfiltered, Files
    <3>7. Unfiltered(t)' = (q \o b) \o <<>>
      <4>1. Unfiltered(t)' = Files(mtrace_nf'[t], mt_nf_phase'[t]) \o t_buf_nf'[t]
        BY DEF Unfiltered, Files
      <4>2. t_buf_nf'[t] = <<>>
        BY <1>1, <2>3 DEF UnfilteredTypes
      <4>. QED
        BY <1>2, <2>1, <3>1, <3>5, <4>1, <4>2
    <3>8. (q \o b) \o <<>> = q \o b
      <4>1. q \o b \in Seq(Record)
        BY ConcatProperties
      <4>. QED
        BY <4>1, ConcatEmptySeq
    <3>. QED
      BY <3>6, <3>7, <3>8 DEF Grows
  <2>. QED
    BY <2>5, <2>6
<1>4. CASE ~ (mt_nf_open[t] \/ t_buf_nf[t] = <<>>)
  <2>1. UNCHANGED <<mtrace_nf, t_buf_nf>>
    BY <1>4 DEF ThreadFini
  <2>. QED
    BY <1>2, <2>1, FilesUnchanged
<1>. QED
  BY <1>3, <1>4

LEMMA StepGrows ==
    ASSUME GInv, [Next]_vars
    PROVE  \A u \in Threads : Grows(u)
<1>1. CASE Next
  <2>1. PICK t \in Threads : Steps(t)
    BY <1>1 DEF Next, Steps
  <2>2. CASE MemRef(t)
    BY <2>2, MemGrows
  <2>3. CASE ThreadFini(t)
    BY <2>3, FiniGrows
  <2>4. CASE ~MemRef(t) /\ ~ThreadFini(t)
    <3>1. UNCHANGED <<mtrace_nf, mt_nf_phase, t_buf_nf>>
      BY <2>1, <2>4 DEF Steps, ThreadStart, FetchOutsideROI, KillProcess, InsRef, MagicInst,
         ChampSim, NoMemRef, unfiltered
    <3>. QED
      BY <3>1, FilesUnchanged
  <2>. QED
    BY <2>2, <2>3, <2>4
<1>2. CASE UNCHANGED vars
  <2>1. UNCHANGED <<mtrace_nf, mt_nf_phase, t_buf_nf>>
    BY <1>2 DEF vars, unfiltered
  <2>. QED
    BY <2>1, FilesUnchanged
<1>. QED
  BY <1>1, <1>2

LEMMA NumberedStep ==
    ASSUME GInv, NEW t \in Threads, Steps(t)
    PROVE  \A u \in Threads : Numbered(u)'
<1>1. UnfilteredTypes /\ LifeTypes
  BY TypeParts DEF GInv, IInv
<1>2. /\ executed \in [Threads -> Nat] /\ mt_nf_phase \in [Threads -> Nat]
      /\ step \in [Threads -> {"fetch", "magic", "champsim", "memory"}]
      /\ \A u \in Threads : MaxInsts[u] \in Nat
  BY <1>1, TracerAssumption DEF UnfilteredTypes, LifeTypes
<1>3. \A u \in Threads : Numbered(u)
  BY DEF GInv
<1>4. CASE FetchOutsideROI(t) \/ InsRef(t)
  <2>1. PICK i : Fetch(t, i)
    BY <1>4 DEF FetchOutsideROI, InsRef
  <2>2. UNCHANGED mt_nf_phase
    BY <1>4 DEF FetchOutsideROI, InsRef, unfiltered
  <2>3. /\ executed[t] < MaxInsts[t] /\ executed' = [executed EXCEPT ![t] = @ + 1]
        /\ \A u \in Threads : u # t => step'[u] = step[u]
    BY <1>2, <2>1 DEF Fetch
  <2>4. Numbered(t)'
    <3>1. mt_nf_phase[t] <= executed[t]
      BY <1>3 DEF Numbered
    <3>2. executed'[t] = executed[t] + 1
      BY <1>2, <2>3
    <3>3. mt_nf_phase[t] < executed[t] + 1 /\ executed[t] + 1 <= MaxInsts[t]
          /\ mt_nf_phase[t] <= executed[t] + 1
      BY <1>2, <2>3, <3>1
    <3>. QED
      BY <2>2, <3>2, <3>3 DEF Numbered
  <2>5. ASSUME NEW u \in Threads, u # t PROVE Numbered(u)'
    <3>1. executed'[u] = executed[u] /\ step'[u] = step[u]
      BY <1>2, <2>3, <2>5
    <3>. QED
      BY <1>3, <2>2, <3>1 DEF Numbered
  <2>. QED
    BY <2>4, <2>5
<1>5. CASE MemRef(t)
  <2>1. step[t] # "fetch" /\ step' = [step EXCEPT ![t] = "fetch"] /\ UNCHANGED executed
    BY <1>5 DEF MemRef, Running
  <2>2. PICK line \in Lines : RecordUnfiltered(t, line)
    BY <1>5 DEF MemRef
  <2>3. PICK k : /\ k = mt_nf_phase[t] \/ k = mt_nf_phase[t] + 1
                 /\ mt_nf_phase' = [mt_nf_phase EXCEPT ![t] = k]
    BY <2>2 DEF RecordUnfiltered, MtNfPhase
  <2>4. Numbered(t)'
    <3>1. mt_nf_phase[t] < executed[t] /\ executed[t] <= MaxInsts[t]
      BY <1>3, <2>1 DEF Numbered
    <3>2. k <= executed[t]
      BY <1>2, <2>3, <3>1
    <3>3. mt_nf_phase'[t] = k /\ step'[t] = "fetch"
      BY <1>2, <2>1, <2>3
    <3>. QED
      BY <2>1, <3>1, <3>2, <3>3 DEF Numbered
  <2>5. ASSUME NEW u \in Threads, u # t PROVE Numbered(u)'
    <3>1. mt_nf_phase'[u] = mt_nf_phase[u] /\ step'[u] = step[u]
      BY <1>2, <2>1, <2>3, <2>5
    <3>. QED
      BY <1>3, <2>1, <3>1 DEF Numbered
  <2>. QED
    BY <2>4, <2>5
<1>6. CASE ~ (FetchOutsideROI(t) \/ InsRef(t) \/ MemRef(t))
  <2>1. UNCHANGED <<mt_nf_phase, executed>>
    BY <1>6 DEF Steps, ThreadStart, KillProcess, MagicInst, ChampSim, NoMemRef, ThreadFini,
       unfiltered, life
  <2>2. \A u \in Threads : step'[u] # "fetch" => step[u] # "fetch"
    BY <1>2, <1>6 DEF Steps, ThreadStart, KillProcess, MagicInst, ChampSim, NoMemRef,
       ThreadFini, Running, life
  <2>. QED
    BY <1>3, <2>1, <2>2 DEF Numbered
<1>. QED
  BY <1>4, <1>5, <1>6

LEMMA StepGInv ==
    ASSUME GInv, [Next]_vars
    PROVE  GInv'
<1>1. IInv'
  BY StepIInv DEF GInv
<1>2. \A u \in Threads : Numbered(u)'
  <2>1. CASE Next
    <3>1. PICK t \in Threads : Steps(t)
      BY <2>1 DEF Next, Steps
    <3>. QED
      BY <3>1, NumberedStep
  <2>2. CASE UNCHANGED vars
    BY <2>2 DEF GInv, Numbered, vars, life, unfiltered
  <2>. QED
    BY <2>1, <2>2
<1>. QED
  BY <1>1, <1>2 DEF GInv

LEMMA InitGInv ==
    Init => GInv
<1>. SUFFICES ASSUME Init PROVE GInv
  OBVIOUS
<1>1. ASSUME NEW t \in Threads PROVE Numbered(t)
  <2>1. mt_nf_phase[t] = 0 /\ executed[t] = 0 /\ step[t] = "fetch" /\ MaxInsts[t] \in Nat
    BY TracerAssumption DEF Init
  <2>2. 0 <= MaxInsts[t] /\ 0 <= 0
    BY <2>1
  <2>. QED
    BY <2>1, <2>2 DEF Numbered
<1>. QED
  BY <1>1, InitIInv DEF GInv

\* What a thread recorded of its memory references is never taken back, lost or
\* reordered, whatever windows open and close, however full its buffer is and
\* whoever starts the master ROI (ShouldWrite_mt_nf, recordAccess_nf,
\* dump_tbuf_nf, ThreadFini)
THEOREM UnfilteredGrows ==
    Spec => UnfilteredOnlyGrows
<1>1. GInv /\ [Next]_vars => GInv'
  BY StepGInv
<1>2. GInv /\ [Next]_vars => \A u \in Threads : Grows(u)
  BY StepGrows
<1>3. (\A u \in Threads : Grows(u)) =>
         \A t \in Threads :
            LET new == Unfiltered(t)'
            IN \/ new = Unfiltered(t)
               \/ /\ Running(t, "memory") /\ instr[t].mem # "none"
                  /\ Front(new) = Unfiltered(t)
                  /\ Last(new).rw = instr[t].mem /\ Last(new).ts = ins_count[t]
  BY DEF Grows
<1>. QED
  BY <1>1, <1>2, <1>3, InitGInv, PTL DEF Spec, UnfilteredOnlyGrows

=============================================================================
