------------------------------ MODULE PinCache ------------------------------
(***************************************************************************)
(* The caches a traced thread has in combined_tracer_40B.cpp: il1 for      *)
(* instructions, ul2 and behind it ul3, three instances of the class CACHE *)
(* of pin_cache_ac.H with sets of the class ROUND_ROBIN.  An instruction   *)
(* fetch asks il1 first; a miss of ul2 asks ul3, and what ul3 misses or    *)
(* evicts is recorded in the trace.  The caches of a thread are its own,   *)
(* so a fetch or a memory reference is one step.                           *)
(*                                                                         *)
(* The constructors leave is_dirty and ts of a tag uninitialised.  The     *)
(* counters _access, which nothing reads, are left out.                    *)
(***************************************************************************)
EXTENDS CacheAnswers, SequencesExt

CONSTANTS
    NUM_SETS,      \* of each level; addresses are line numbers
    NUM_WAYS,
    ALLOCATION,    \* "store_allocate" or "store_no_allocate"
    MaxSpan,       \* lines that a memory reference touches at most
    InitialTs,     \* what an uninitialised ts may be; below 2^64 - 1
    MaxTime        \* bound of the model on curtime

Levels == {"il1", "ul2", "ul3"}

Sets(c) == 0 .. NUM_SETS[c] - 1
Ways(c) == 0 .. NUM_WAYS[c] - 1

NoTag == 0       \* the tag of an empty way, and evicted_line when there is none

\* a line of ul2 and ul3 is two of il1
FetchLines == {2 * l : l \in Lines} \cup {2 * l + 1 : l \in Lines}

ASSUME CacheAssumption ==
    /\ Lines \subseteq Nat \ {NoTag}
    /\ {NUM_SETS, NUM_WAYS} \subseteq [Levels -> Nat \ {0}]
    /\ ALLOCATION \in [Levels -> {"store_allocate", "store_no_allocate"}]
    /\ MaxSpan \in Nat \ {0}
    /\ InitialTs \subseteq Nat /\ InitialTs # {}
    /\ MaxTime \in Nat

VARIABLES
    caches,      \* caches[c][h] is _sets[h] of level c
    access,      \* the last access, for the properties
    recorded     \* what it has added to the trace

vars == <<caches, access, recorded>>

CacheTag(c) == [tag : (IF c = "il1" THEN FetchLines ELSE Lines) \cup {NoTag},
                is_dirty : BOOLEAN, ts : 0 .. MaxTime \cup InitialTs]

RoundRobin(c) == [tags : [Ways(c) -> CacheTag(c)], next : Ways(c), curtime : 0 .. MaxTime]

\* is_dirty and ts are what the memory held before
EmptySets(c) ==
    {[tags |-> tags, next |-> NUM_WAYS[c] - 1, curtime |-> 0] :
        tags \in [Ways(c) -> [tag : {NoTag}, is_dirty : BOOLEAN, ts : InitialTs]]}

-----------------------------------------------------------------------------
(* One set.                                                                *)

WaysWith(set, tag) == {w \in DOMAIN set.tags : set.tags[w].tag = tag}

\* Find, which searches from the last way down
Found(set, tag, isWrite) ==
    [set EXCEPT !.tags =
        [w \in DOMAIN set.tags |->
            IF w \in WaysWith(set, tag) /\ \A v \in WaysWith(set, tag) : v <= w
            THEN [tag |-> tag, is_dirty |-> set.tags[w].is_dirty \/ isWrite, ts |-> set.curtime]
            ELSE set.tags[w]]]

\* Replace: the way chosen by the last one is replaced, and the next one chosen
Replaced(set, tag, isWrite) ==
    LET tags == [set.tags EXCEPT ![set.next] =
                   [tag |-> tag, is_dirty |-> isWrite, ts |-> set.curtime]]
    IN [set EXCEPT !.tags = tags,
                   !.next = CHOOSE w \in DOMAIN tags : \A v \in DOMAIN tags :
                      tags[w].ts < tags[v].ts \/ (tags[w].ts = tags[v].ts /\ w <= v)]

\* fault: a line that is evicted is returned clean or dirty
EvictedTagAlways(set) == set.tags[set.next].tag

\* what Replace returns: the tag of a dirty line; a way that is empty may look
\* dirty, but its tag is the one that stands for none
EvictedTag(set) == IF set.tags[set.next].is_dirty THEN set.tags[set.next].tag ELSE NoTag

-----------------------------------------------------------------------------
(* One cache.                                                              *)

Allocates(c, isWrite) == ~isWrite \/ ALLOCATION[c] = "store_allocate"

\* one line of an access; evicted_line is overwritten by every replacement
AccessLine(c, acc, l, isWrite) ==
    LET h      == l % NUM_SETS[c]
        timed  == [acc.sets[h] EXCEPT !.curtime = @ + 1]
        miss   == WaysWith(timed, l) = {}
        fills  == miss /\ Allocates(c, isWrite)
    IN [sets |-> [acc.sets EXCEPT ![h] = IF fills THEN Replaced(timed, l, isWrite)
                                         ELSE Found(timed, l, isWrite)],
        allHit |-> acc.allHit /\ ~miss,
        evicted_line |-> IF fills THEN EvictedTag(timed) ELSE acc.evicted_line]

Access(c, sets, lines, isWrite) ==
    FoldLeft(LAMBDA acc, l : AccessLine(c, acc, l, isWrite),
             [sets |-> sets, allHit |-> TRUE, evicted_line |-> NoTag], lines)

\* `accessType=ACCESS_TYPE_STORE' in the call of Find is an assignment, so the
\* access is a write from there on; curtime does not advance
AccessSingleLine(c, sets, l) ==
    LET h     == l % NUM_SETS[c]
        miss  == WaysWith(sets[h], l) = {}
        fills == miss /\ Allocates(c, TRUE)
    IN [sets |-> [sets EXCEPT ![h] = IF fills THEN Replaced(@, l, TRUE)
                                     ELSE Found(@, l, TRUE)],
        allHit |-> ~miss]

-----------------------------------------------------------------------------
(* The levels of a thread.                                                 *)

Rec(l, rw) == [line |-> l, rw |-> rw, ts |-> 0]

\* fault: a line that ul2 writes back is read from memory as one that is missed
MissReadAlways(l, dirtyEv_fromL2) == <<Rec(l, "load")>>

MissRead(l, dirtyEv_fromL2) == IF dirtyEv_fromL2 THEN <<>> ELSE <<Rec(l, "load")>>

\* fault: evicted_line is recorded without the test that there is one
Ul3AccessUntested(sets, lines, isWrite, dirtyEv_fromL2) ==
    LET a == Access("ul3", sets, lines, isWrite)
    IN [sets |-> a.sets,
        recs |-> IF a.allHit THEN <<>>
                 ELSE Append(MissRead(lines[1], dirtyEv_fromL2), Rec(a.evicted_line, "store"))]

\* a miss reads one line, the first of the access, unless it comes from ul2
Ul3Access(sets, lines, isWrite, dirtyEv_fromL2) ==
    LET a == Access("ul3", sets, lines, isWrite)
    IN [sets |-> a.sets,
        recs |-> IF a.allHit THEN <<>>
                 ELSE MissRead(lines[1], dirtyEv_fromL2)
                      \o (IF a.evicted_line = NoTag THEN <<>>
                          ELSE <<Rec(a.evicted_line, "store")>>)]

\* after a miss the line itself is looked up in ul3, then the line it evicted
Ul2Access(lines, isWrite) ==
    LET a2 == Access("ul2", caches["ul2"], lines, isWrite)
        a3 == Ul3Access(caches["ul3"], lines, isWrite, FALSE)
        a4 == Ul3Access(a3.sets, <<a2.evicted_line>>, TRUE, TRUE)
    IN IF a2.allHit
       THEN [ul2 |-> a2.sets, ul3 |-> caches["ul3"], recs |-> <<>>]
       ELSE IF a2.evicted_line = NoTag
       THEN [ul2 |-> a2.sets, ul3 |-> a3.sets, recs |-> a3.recs]
       ELSE [ul2 |-> a2.sets, ul3 |-> a4.sets, recs |-> a3.recs \o a4.recs]

InTime == \A c \in Levels : \A h \in Sets(c) : caches[c][h].curtime + 2 * MaxSpan <= MaxTime

\* fault: ul2 is asked with the line number of il1
Il1Line(f) == f

\* il1 has lines of half the size
Ul2Line(f) == f \div 2

\* InsRef, on the thread's own caches
Fetch(f) ==
    LET a1 == AccessSingleLine("il1", caches["il1"], f)
        a2 == Ul2Access(<<Ul2Line(f)>>, FALSE)
    IN /\ InTime
       /\ caches' = IF a1.allHit THEN [caches EXCEPT !["il1"] = a1.sets]
                    ELSE [il1 |-> a1.sets, ul2 |-> a2.ul2, ul3 |-> a2.ul3]
       /\ recorded' = IF a1.allHit THEN <<>> ELSE a2.recs
       /\ access' = [kind |-> "fetch", lines |-> <<f>>]

\* MemRefSingle and MemRefMulti
MemRef(l, span, isWrite) ==
    LET lines == [k \in 1 .. span |-> l + k - 1]
        a2    == Ul2Access(lines, isWrite)
    IN /\ InTime
       /\ Range(lines) \subseteq Lines
       /\ caches' = [caches EXCEPT !["ul2"] = a2.ul2, !["ul3"] = a2.ul3]
       /\ recorded' = a2.recs
       /\ access' = [kind |-> IF isWrite THEN "store" ELSE "load", lines |-> lines]

\* the caches of a thread when it starts
Init ==
    /\ \E il1 \in [Sets("il1") -> EmptySets("il1")],
          ul2 \in [Sets("ul2") -> EmptySets("ul2")],
          ul3 \in [Sets("ul3") -> EmptySets("ul3")] :
            caches = [il1 |-> il1, ul2 |-> ul2, ul3 |-> ul3]
    /\ access = [kind |-> "none", lines |-> <<>>]
    /\ recorded = <<>>

Next ==
    \/ \E f \in FetchLines : Fetch(f)
    \/ \E l \in Lines, span \in 1 .. MaxSpan, isWrite \in BOOLEAN : MemRef(l, span, isWrite)

Spec == Init /\ [][Next]_vars

-----------------------------------------------------------------------------
TypeOK ==
    /\ DOMAIN caches = Levels
    /\ \A c \in Levels : caches[c] \in [Sets(c) -> RoundRobin(c)]

Resident(cs, c) == {cs[c][h].tags[w].tag : h \in Sets(c), w \in Ways(c)} \ {NoTag}

DirtyIn(cs, c) ==
    {l \in Resident(cs, c) : \E h \in Sets(c) : \E w \in WaysWith(cs[c][h], l) :
        cs[c][h].tags[w].is_dirty}

Dirty(cs) == DirtyIn(cs, "ul2") \cup DirtyIn(cs, "ul3")

Cached(cs) == Resident(cs, "ul2") \cup Resident(cs, "ul3")

RecordedLines(rw) == {recorded'[k].line : k \in {j \in DOMAIN recorded' : recorded'[j].rw = rw}}

\* No write is lost: a line that was dirty in ul2 or ul3 and is dirty in neither any
\* more is recorded as a store to memory.  And none is invented: every store is of a
\* line that was dirty or is written by this access.  A line dirty in both levels is
\* recorded when ul3 evicts it, and may be again when the copy of ul2 gets there, so
\* that stores are not as many as dirty lines.
\* Replace's answer passes through Access, Ul2Access and Ul3Access, and a line
\* that ul2 writes back may push another, or the one just read, out of ul3.
WriteBacksMatchDirtyLines ==
    [][LET written == IF access'.kind = "store" THEN Range(access'.lines) ELSE {}
       IN /\ Dirty(caches) \ Dirty(caches') \subseteq RecordedLines("store")
          /\ RecordedLines("store") \subseteq Dirty(caches) \cup written]_vars

\* What comes into ul2 or ul3 from memory is recorded as a load, whether the
\* access reads or writes it, and a line that either already had is not: the
\* line that ul2 evicts and ul3 takes in is no load (dirtyEv_fromL2).
FillsAreRead ==
    [][LET missed == {l \in Lines : l \notin Resident(caches, "ul2")
                                    /\ l \notin Resident(caches, "ul3")}
       IN /\ Cached(caches') \ Cached(caches) \subseteq RecordedLines("load")
          /\ RecordedLines("load") \subseteq missed]_vars

\* The answers that Tracer lets the caches give cover all that they give.
AnswersTracerExpects ==
    [][LET line == IF access'.kind = "fetch" THEN Ul2Line(access'.lines[1]) ELSE access'.lines[1]
       IN recorded' \in Ul2Answers(line, 0)]_vars

\* "on miss, loads always allocate": after an instruction fetch, which is a
\* load, il1 has the line, so that the next fetch from it hits.
LoadsAllocate ==
    [][access'.kind = "fetch" => access'.lines[1] \in Resident(caches', "il1")]_vars

=============================================================================
