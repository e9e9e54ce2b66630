----------------------- MODULE MCCoherenceReplayMain -----------------------
(***************************************************************************)
(* Traces for TLC.  Threads 0 and 1 run on socket 0, thread 2 (the one     *)
(* whose marks are logged) on socket 1.                                    *)
(***************************************************************************)
EXTENDS CoherenceReplayMain, SequencesExt

MCLines == {0, 1, 2, 3}

\* The clock of thread 1 is behind that of the others; the first two accesses of
\* a thread are of one instruction
Clock(i, k) ==
    LET c == IF k = 1 THEN 2 ELSE k
    IN IF i = 1 THEN 2 * c - 1 ELSE 2 * c

MCTimestamps == 0 .. 9

Item(i, k, l, isW) == <<Address(l, isW), Number(Clock(i, k))>>
MarkItem(n) == <<MarkWord, Number(n)>>

\* thread 0: up to four reads of lines 1 to 3, the first of line 1
ReadsOf(i, ls) == FlattenSeq([k \in 1 .. Len(ls) |-> Item(i, k, ls[k], FALSE)])
LineSeqs(n) == {<<1>> \o ls : ls \in [1 .. n -> {1, 2, 3}]}
MCTracesOf0 == {<<>>} \cup {ReadsOf(0, ls) : ls \in UNION {LineSeqs(n) : n \in 0 .. 3}}

\* thread 1: early ends, writes, and the end mark right away or late
MCTracesOf1 ==
    {<<>>,
     Item(1, 1, 1, TRUE),
     Item(1, 1, 2, FALSE) \o Item(1, 2, 1, TRUE),
     Item(1, 1, 2, FALSE) \o MarkItem(5) \o MarkItem(6),
     MarkItem(5) \o MarkItem(5) \o MarkItem(5) \o MarkItem(6),
     MarkItem(6)}

\* thread 2: writes that take thread 0's lines away, marks, cut items
MCTracesOf2 ==
    {<<>>,
     Item(2, 1, 1, FALSE) \o Item(2, 2, 2, TRUE),
     MarkItem(5) \o Item(2, 1, 3, FALSE) \o MarkItem(6),
     MarkItem(5) \o <<MarkWord>>,
     Item(2, 1, 1, TRUE) \o <<Address(2, FALSE)>>}

MCTraces ==
    {[i \in Threads |-> IF i = 0 THEN a ELSE IF i = 1 THEN b ELSE c] :
        a \in MCTracesOf0, b \in MCTracesOf1, c \in MCTracesOf2}

=============================================================================
