----------------------- MODULE CoherenceReplayProofs -----------------------
(***************************************************************************)
(* Proofs about CoherenceReplay, for every number of sockets, ways, sets   *)
(* and lines.  The inductive invariant is stated set by set (SetAgrees),   *)
(* because an access changes one set of the caches and directory entries   *)
(* of lines of that set only; everything is said of single entries         *)
(* (Holds) rather than of the first match of a loop (HitWay), which the    *)
(* uniqueness of copies makes the same thing.                              *)
(***************************************************************************)
EXTENDS CoherenceRefinement, FiniteSetTheorems, TLAPS

Column == [Sockets -> [Ways -> Entry]]

UniqueIn(ways, l) ==
    \A v, w \in Ways : Holds(ways, l, v) /\ Holds(ways, l, w) => v = w

\* Entry e of a column of set h, valid, is in its set and matches the directory
EntryAgrees(e, dir, h) ==
    e.valid => /\ e.tag \in Lines
               /\ SetIndex(e.tag) = h
               /\ e.cstate = dir[e.tag].state
               /\ e.dirty = (e.cstate = "M")

LineAgrees(de) ==
    /\ de.state = "I" => de.sharers = {}
    /\ de.state \in {"E", "M"} => de.sharers = {de.owner}
    /\ de.state = "S" => de.owner \in de.sharers /\ de.sharers # {de.owner}

\* The agreement of one set of the caches with the directory
SetAgrees(column, dir, h) ==
    /\ \A s \in Sockets, w \in Ways : EntryAgrees(column[s][w], dir, h)
    /\ \A s \in Sockets, l \in Lines : UniqueIn(column[s], l)
    /\ \A l \in Lines : SetIndex(l) = h =>
         /\ LineAgrees(dir[l])
         /\ \A s \in Sockets :
              s \in dir[l].sharers <=> \E w \in Ways : Holds(column[s], l, w)

-----------------------------------------------------------------------------
(* The set index, and the loops that stop at the first match.              *)

\* Masking with NUM_SETS-1 gives the index of a set of the caches.
LEMMA SetIndexType ==
    ASSUME NEW l \in Lines
    PROVE  SetIndex(l) \in Sets
BY ConstantsAssumption DEF SetIndex, Sets

\* Where a line has at most one copy, the first match is the copy.
LEMMA HitWayIsHolder ==
    ASSUME NEW ways, NEW l, UniqueIn(ways, l), NEW w \in Ways
    PROVE  w \in HitWay(ways, l) <=> Holds(ways, l, w)
BY ConstantsAssumption DEF HitWay, UniqueIn, Ways

\* The invalidation loop of update_directory removes the copy of the line and
\* touches no other entry.
LEMMA InvalidateEffect ==
    ASSUME NEW ways \in [Ways -> Entry], NEW l \in Lines, UniqueIn(ways, l)
    PROVE  /\ Invalidate(ways, l) \in [Ways -> Entry]
           /\ \A w \in Ways :
                IF Holds(ways, l, w) THEN ~Invalidate(ways, l)[w].valid
                ELSE Invalidate(ways, l)[w] = ways[w]
<1>1. \A w \in Ways : w \in HitWay(ways, l) <=> Holds(ways, l, w)
  BY HitWayIsHolder
<1>2. \A w \in Ways : ways[w] \in Entry
  OBVIOUS
<1>3. ASSUME NEW w \in Ways
      PROVE  /\ Invalidate(ways, l)[w] \in Entry
             /\ IF Holds(ways, l, w) THEN ~Invalidate(ways, l)[w].valid
                ELSE Invalidate(ways, l)[w] = ways[w]
  BY <1>1, <1>2 DEF Invalidate, Entry, CohStates, Holds
<1>. QED
  BY <1>3 DEF Invalidate

\* The downgrade loop leaves the copy of the line in place, clean and shared.
LEMMA DowngradeEffect ==
    ASSUME NEW ways \in [Ways -> Entry], NEW l \in Lines, UniqueIn(ways, l)
    PROVE  /\ Downgrade(ways, l) \in [Ways -> Entry]
           /\ \A w \in Ways :
                IF Holds(ways, l, w)
                THEN /\ Holds(Downgrade(ways, l), l, w)
                     /\ Downgrade(ways, l)[w].cstate = "S"
                     /\ Downgrade(ways, l)[w].dirty = FALSE
                ELSE Downgrade(ways, l)[w] = ways[w]
<1>1. \A w \in Ways : w \in HitWay(ways, l) <=> Holds(ways, l, w)
  BY HitWayIsHolder
<1>2. \A w \in Ways : ways[w] \in Entry
  OBVIOUS
<1>3. ASSUME NEW w \in Ways
      PROVE  /\ Downgrade(ways, l)[w] \in Entry
             /\ IF Holds(ways, l, w)
                THEN /\ Holds(Downgrade(ways, l), l, w)
                     /\ Downgrade(ways, l)[w].cstate = "S"
                     /\ Downgrade(ways, l)[w].dirty = FALSE
                ELSE Downgrade(ways, l)[w] = ways[w]
  BY <1>1, <1>2 DEF Downgrade, Entry, CohStates, Holds
<1>. QED
  BY <1>3 DEF Downgrade

\* The promotion loop makes the copy of the line exclusive and keeps it.
LEMMA PromoteEffect ==
    ASSUME NEW ways \in [Ways -> Entry], NEW l \in Lines, UniqueIn(ways, l)
    PROVE  /\ Promote(ways, l) \in [Ways -> Entry]
           /\ \A w \in Ways :
                IF Holds(ways, l, w)
                THEN /\ Holds(Promote(ways, l), l, w)
                     /\ Promote(ways, l)[w].cstate = "E"
                     /\ Promote(ways, l)[w].dirty = ways[w].dirty
                ELSE Promote(ways, l)[w] = ways[w]
<1>1. \A w \in Ways : w \in HitWay(ways, l) <=> Holds(ways, l, w)
  BY HitWayIsHolder
<1>2. \A w \in Ways : ways[w] \in Entry
  OBVIOUS
<1>3. ASSUME NEW w \in Ways
      PROVE  /\ Promote(ways, l)[w] \in Entry
             /\ IF Holds(ways, l, w)
                THEN /\ Holds(Promote(ways, l), l, w)
                     /\ Promote(ways, l)[w].cstate = "E"
                     /\ Promote(ways, l)[w].dirty = ways[w].dirty
                ELSE Promote(ways, l)[w] = ways[w]
  BY <1>1, <1>2 DEF Promote, Entry, CohStates, Holds
<1>. QED
  BY <1>3 DEF Promote

-----------------------------------------------------------------------------
(* Eviction.                                                               *)

\* The column with way w of socket s emptied, which is what the directory
\* describes between an eviction and the installation of the new line
Vacated(column, s, w) ==
    [column EXCEPT ![s] = [column[s] EXCEPT ![w] = [column[s][w] EXCEPT !.valid = FALSE]]]

\* Vacating a way changes that way only.
LEMMA VacatedEffect ==
    ASSUME NEW column \in Column, NEW s \in Sockets, NEW w \in Ways
    PROVE  /\ Vacated(column, s, w) \in Column
           /\ ~Vacated(column, s, w)[s][w].valid
           /\ \A t \in Sockets, x \in Ways :
                ~(t = s /\ x = w) => Vacated(column, s, w)[t][x] = column[t][x]
<1>. DEFINE e == [column[s][w] EXCEPT !.valid = FALSE]
            ways == [column[s] EXCEPT ![w] = e]
<1>1. column[s] \in [Ways -> Entry] /\ column[s][w] \in Entry
  BY DEF Column
<1>2. e \in Entry /\ e.valid = FALSE
  BY <1>1 DEF Entry
<1>. HIDE DEF e
<1>3. ways \in [Ways -> Entry] /\ ways[w] = e
      /\ \A x \in Ways : x # w => ways[x] = column[s][x]
  BY <1>1, <1>2
<1>. HIDE DEF ways
<1>4. Vacated(column, s, w) = [column EXCEPT ![s] = ways]
  BY DEF Vacated, ways, e
<1>. QED
  BY <1>2, <1>3, <1>4 DEF Column

\* What the directory says of the line of a victim e of socket s in set h
EvictionKnown(h, e, de, s, o) ==
    /\ e.tag \in Lines
    /\ SetIndex(e.tag) = h
    /\ o \in Sockets
    /\ s \in de.sharers
    /\ EvictionAsserts(e, de, s, o)
    /\ e.dirty \/ de.state = "E" => de.sharers = {s}
    /\ ~(e.dirty \/ de.state = "E") =>
         de.state = "S" /\ o \in de.sharers \ {s} /\ o # s

\* An evicted line is known to the directory with its cache state, the asserts
\* of the eviction branches hold, and the new owner is another sharer.
LEMMA EvictionIsKnown ==
    ASSUME NEW h \in Sets, NEW column \in Column,
           NEW dir \in [Lines -> DirectoryEntry], SetAgrees(column, dir, h),
           NEW s \in Sockets, NEW w \in Ways, column[s][w].valid,
           NEW e, e = column[s][w],
           NEW de, de = dir[e.tag],
           NEW o \in OwnerAfterEviction(de, s)
    PROVE  EvictionKnown(h, e, de, s, o)
<1>1. e \in Entry
  BY DEF Column
<1>2. /\ e.tag \in Lines
      /\ SetIndex(e.tag) = h
      /\ e.cstate = de.state
      /\ e.dirty = (e.cstate = "M")
  BY DEF SetAgrees, EntryAgrees
<1>3. de \in DirectoryEntry
  BY <1>2
<1>4. LineAgrees(de)
  BY <1>2 DEF SetAgrees
<1>5. s \in de.sharers
  BY <1>2 DEF SetAgrees, Holds
<1>6. CASE e.dirty \/ de.state = "E"
  <2>1. de.sharers = {de.owner} /\ de.owner = s
    BY <1>2, <1>4, <1>5, <1>6 DEF LineAgrees
  <2>2. o \in Sockets
    BY <2>1, <1>3 DEF OwnerAfterEviction, DirectoryEntry
  <2>. QED
    BY <1>2, <1>5, <1>6, <2>1, <2>2 DEF EvictionAsserts, EvictionKnown
<1>7. CASE ~(e.dirty \/ de.state = "E")
  <2>1. de.state = "S"
    BY <1>1, <1>2, <1>3, <1>4, <1>5, <1>7
    DEF LineAgrees, DirectoryEntry, CohStates, Entry
  <2>2. de.sharers \ {s} # {}
    BY <2>1, <1>4, <1>5 DEF LineAgrees
  <2>3. o \in de.sharers \ {s}
    BY <2>2 DEF OwnerAfterEviction
  <2>4. o \in Sockets
    BY <2>3, <1>3 DEF DirectoryEntry
  <2>. QED
    BY <1>2, <1>5, <1>7, <2>1, <2>3, <2>4 DEF EvictionAsserts, EvictionKnown
<1>. QED
  BY <1>6, <1>7

\* An eviction leaves the set in agreement with the directory once the victim's
\* way is discounted: a last remaining sharer has become exclusive in both.
LEMMA EvictionAgrees ==
    ASSUME NEW h \in Sets, NEW column \in Column,
           NEW dir \in [Lines -> DirectoryEntry], SetAgrees(column, dir, h),
           NEW s \in Sockets, NEW w \in Ways, column[s][w].valid,
           NEW e, e = column[s][w],
           NEW de, de = dir[e.tag],
           NEW o \in OwnerAfterEviction(de, s)
    PROVE  /\ EvictedColumn(column, e, de, s, o) \in Column
           /\ EvictedDirectory(e, de, s, o) \in DirectoryEntry
           /\ SetAgrees(Vacated(EvictedColumn(column, e, de, s, o), s, w),
                        [dir EXCEPT ![e.tag] = EvictedDirectory(e, de, s, o)], h)
<1>. DEFINE l == e.tag
            col1 == EvictedColumn(column, e, de, s, o)
            col2 == Vacated(col1, s, w)
            de1 == EvictedDirectory(e, de, s, o)
            dir1 == [dir EXCEPT ![e.tag] = de1]
            promotes == LeavesOneSharer(e, de, s, o)
<1>1. /\ l \in Lines
      /\ SetIndex(l) = h
      /\ o \in Sockets
      /\ s \in de.sharers
      /\ e.dirty \/ de.state = "E" => de.sharers = {s}
      /\ ~(e.dirty \/ de.state = "E") =>
           de.state = "S" /\ o \in de.sharers \ {s} /\ o # s
  <2>1. EvictionKnown(h, e, de, s, o)
    BY EvictionIsKnown
  <2>. QED
    BY <2>1 DEF EvictionKnown
<1>2. de \in DirectoryEntry /\ e \in Entry
  BY <1>1 DEF Column
<1>3. de1 \in DirectoryEntry
  <2>1. /\ de.state \in CohStates /\ de.owner \in Sockets
        /\ de.sharers \ {s} \in SUBSET Sockets
    BY <1>2 DEF DirectoryEntry
  <2>2. CASE e.dirty \/ de.state = "E"
    <3>1. de1 = [de EXCEPT !.state = "I", !.sharers = de.sharers \ {s}]
      BY <2>2, <1>2 DEF EvictedDirectory, DirectoryEntry
    <3>. QED
      BY <3>1, <2>1, <1>2 DEF DirectoryEntry, CohStates
  <2>3. CASE ~(e.dirty \/ de.state = "E")
    <3>1. PICK st \in CohStates :
            st = IF LeavesOneSharer(e, de, s, o) THEN "E" ELSE de.state
      BY <2>1 DEF CohStates
    <3>2. de1 = [state |-> st, owner |-> o, sharers |-> de.sharers \ {s}]
      BY <2>3, <3>1 DEF EvictedDirectory
    <3>. QED
      BY <3>2, <2>1, <1>1 DEF DirectoryEntry
  <2>. QED
    BY <2>2, <2>3
<1>4. UniqueIn(column[o], l)
  BY <1>1 DEF SetAgrees
<1>5. column[o] \in [Ways -> Entry]
  BY <1>1 DEF Column
<1>6. /\ Promote(column[o], l) \in [Ways -> Entry]
      /\ \A x \in Ways :
           IF Holds(column[o], l, x)
           THEN /\ Holds(Promote(column[o], l), l, x)
                /\ Promote(column[o], l)[x].cstate = "E"
                /\ Promote(column[o], l)[x].dirty = column[o][x].dirty
           ELSE Promote(column[o], l)[x] = column[o][x]
  BY <1>1, <1>4, <1>5, PromoteEffect
<1>7. col1 \in Column
  BY <1>1, <1>6 DEF EvictedColumn, Column
<1>8. /\ col2 \in Column
      /\ ~col2[s][w].valid
      /\ \A t \in Sockets, x \in Ways : ~(t = s /\ x = w) => col2[t][x] = col1[t][x]
  BY <1>7, VacatedEffect
<1>9. \A t \in Sockets, x \in Ways :
        /\ col1[t][x].valid = column[t][x].valid
        /\ col1[t][x].valid => col1[t][x].tag = column[t][x].tag
        /\ col1[t][x].dirty = column[t][x].dirty
        /\ IF promotes /\ t = o /\ Holds(column[t], l, x)
           THEN col1[t][x].cstate = "E"
           ELSE col1[t][x].cstate = column[t][x].cstate
  <2>. TAKE t \in Sockets, x \in Ways
  <2>1. CASE promotes /\ t = o
    <3>1. PICK ways : ways = Promote(column[o], l)
      OBVIOUS
    <3>2. col1[t] = ways
      BY <3>1, <2>1 DEF EvictedColumn, Column
    <3>3. CASE Holds(column[o], l, x)
      <4>1. Holds(ways, l, x) /\ ways[x].cstate = "E" /\ ways[x].dirty = column[o][x].dirty
        BY <3>1, <3>3, <1>6
      <4>2. ways[x].valid = TRUE /\ column[o][x].valid = TRUE
        BY <4>1, <3>3, <1>5, <1>6, <3>1 DEF Holds, Entry
      <4>. QED
        BY <4>1, <4>2, <3>2, <3>3, <2>1 DEF Holds
    <3>4. CASE ~Holds(column[o], l, x)
      <4>1. ways[x] = column[o][x]
        BY <3>1, <3>4, <1>6
      <4>. QED
        BY <4>1, <3>2, <3>4, <2>1
    <3>. QED
      BY <3>3, <3>4
  <2>2. CASE ~(promotes /\ t = o)
    <3>1. col1[t] = column[t]
      BY <2>2, <1>1 DEF EvictedColumn, Column
    <3>. QED
      BY <3>1, <2>2
  <2>. QED
    BY <2>1, <2>2
<1>10. \A m \in Lines : dir1[m] = IF m = l THEN de1 ELSE dir[m]
  BY <1>1
<1>. HIDE DEF col1, col2, de1, dir1, promotes
<1>11. \A t \in Sockets, x \in Ways, m \in Lines :
         Holds(col2[t], m, x) <=> Holds(column[t], m, x) /\ ~(t = s /\ x = w)
  BY <1>8, <1>9 DEF Holds
<1>12. ASSUME NEW t \in Sockets, NEW x \in Ways
       PROVE  EntryAgrees(col2[t][x], dir1, h)
  <2>1. SUFFICES ASSUME col2[t][x].valid
                 PROVE  EntryAgrees(col2[t][x], dir1, h)
    BY DEF EntryAgrees
  <2>2. /\ ~(t = s /\ x = w)
        /\ column[t][x].valid
        /\ col2[t][x] = col1[t][x]
        /\ col2[t][x].tag = column[t][x].tag
    BY <2>1, <1>8, <1>9
  <2>3. EntryAgrees(column[t][x], dir, h)
    BY DEF SetAgrees
  <2>4. CASE column[t][x].tag # l
    BY <2>2, <2>3, <2>4, <1>9, <1>10 DEF EntryAgrees, Holds
  <2>5. CASE column[t][x].tag = l
    <3>1. t \in de.sharers
      BY <2>2, <2>5, <1>1 DEF SetAgrees, Holds
    <3>2. t # s
      BY <2>2, <2>5, <1>1 DEF SetAgrees, UniqueIn, Holds
    <3>3. ~(e.dirty \/ de.state = "E") /\ de.state = "S"
      BY <3>1, <3>2, <1>1
    <3>4. CASE promotes
      <4>1. t = o
        BY <3>1, <3>2, <3>4 DEF promotes, LeavesOneSharer
      <4>2. de1.state = "E" /\ col1[t][x].cstate = "E"
        BY <3>3, <3>4, <4>1, <2>2, <2>5, <1>9 DEF de1, promotes, EvictedDirectory, Holds
      <4>. QED
        BY <4>2, <2>2, <2>3, <2>5, <3>3, <1>1, <1>9, <1>10 DEF EntryAgrees
    <3>5. CASE ~promotes
      <4>1. de1.state = "S"
        BY <3>3, <3>5 DEF de1, promotes, EvictedDirectory
      <4>. QED
        BY <4>1, <2>2, <2>3, <2>5, <3>3, <3>5, <1>1, <1>9, <1>10 DEF EntryAgrees
    <3>. QED
      BY <3>4, <3>5
  <2>. QED
    BY <2>4, <2>5
<1>13. ASSUME NEW t \in Sockets, NEW m \in Lines
       PROVE  UniqueIn(col2[t], m)
  BY <1>11 DEF UniqueIn, SetAgrees
<1>14. ASSUME NEW m \in Lines, SetIndex(m) = h
       PROVE  /\ LineAgrees(dir1[m])
              /\ \A t \in Sockets :
                   t \in dir1[m].sharers <=> \E x \in Ways : Holds(col2[t], m, x)
  <2>0. /\ LineAgrees(dir[m])
        /\ \A t \in Sockets :
             t \in dir[m].sharers <=> \E x \in Ways : Holds(column[t], m, x)
    BY <1>14 DEF SetAgrees
  <2>1. CASE m # l
    <3>1. ~Holds(column[s], m, w)
      BY <2>1 DEF Holds
    <3>. QED
      BY <3>1, <2>0, <2>1, <1>10, <1>11
  <2>2. CASE m = l
    <3>1. de1.sharers = de.sharers \ {s}
      BY <1>2 DEF de1, promotes, EvictedDirectory, DirectoryEntry
    <3>2. LineAgrees(de1)
      <4>1. CASE e.dirty \/ de.state = "E"
        <5>1. de1.state = "I" /\ de1.sharers = {}
          BY <4>1, <3>1, <1>1, <1>2 DEF de1, promotes, EvictedDirectory, DirectoryEntry
        <5>. QED
          BY <5>1 DEF LineAgrees
      <4>2. CASE ~(e.dirty \/ de.state = "E")
        <5>1. de1.owner = o /\ o \in de1.sharers
          BY <4>2, <3>1, <1>1 DEF de1, promotes, EvictedDirectory
        <5>2. de1.state = IF de1.sharers = {o} THEN "E" ELSE "S"
          BY <4>2, <3>1, <1>1 DEF de1, promotes, EvictedDirectory, LeavesOneSharer
        <5>. QED
          BY <5>1, <5>2 DEF LineAgrees
      <4>. QED
        BY <4>1, <4>2
    <3>3. \A x \in Ways : Holds(column[s], l, x) => x = w
      BY <1>1 DEF SetAgrees, UniqueIn, Holds
    <3>. QED
      BY <3>1, <3>2, <3>3, <2>0, <2>2, <1>10, <1>11
  <2>. QED
    BY <2>1, <2>2
<1>15. SetAgrees(col2, dir1, h)
  BY <1>12, <1>13, <1>14 DEF SetAgrees
<1>. QED
  BY <1>3, <1>7, <1>15 DEF col1, col2, de1, dir1

-----------------------------------------------------------------------------
(* Installation of the missing line.                                       *)

\* snooped differs from column at most in the copies of l: those of the sockets
\* that lose the line are gone, the one of an owner that starts to share it is
\* clean and shared
SnoopedTo(snooped, column, de, s, l, isW) ==
    \A t \in Sockets, x \in Ways :
        /\ isW /\ t \in Losers(de, s) /\ Holds(column[t], l, x)
             => ~snooped[t][x].valid
        /\ ~isW /\ OwnedElsewhere(de, s) /\ t = de.owner /\ Holds(column[t], l, x)
             => /\ snooped[t][x].valid /\ snooped[t][x].tag = l
                /\ snooped[t][x].cstate = "S" /\ snooped[t][x].dirty = FALSE
        /\ ~Holds(column[t], l, x) => snooped[t][x] = column[t][x]
        /\ isW /\ t \notin Losers(de, s) => snooped[t][x] = column[t][x]
        /\ ~isW /\ ~(OwnedElsewhere(de, s) /\ t = de.owner)
             => snooped[t][x] = column[t][x]

\* update_directory's effect on the entries: at most the copies of the line at
\* the sockets that lose it, or at the owner that starts to share it.
LEMMA SnoopEffect ==
    ASSUME NEW column \in Column, NEW de \in DirectoryEntry, NEW s \in Sockets,
           NEW l \in Lines, NEW isW \in BOOLEAN,
           \A t \in Sockets : UniqueIn(column[t], l)
    PROVE  /\ Snooped(column, de, s, l, isW) \in Column
           /\ SnoopedTo(Snooped(column, de, s, l, isW), column, de, s, l, isW)
<1>. DEFINE snooped == Snooped(column, de, s, l, isW)
<1>. HIDE DEF snooped
<1>1. ASSUME NEW t \in Sockets
      PROVE  /\ snooped[t] \in [Ways -> Entry]
             /\ \A x \in Ways :
                  /\ isW /\ t \in Losers(de, s) /\ Holds(column[t], l, x)
                       => ~snooped[t][x].valid
                  /\ ~isW /\ OwnedElsewhere(de, s) /\ t = de.owner /\ Holds(column[t], l, x)
                       => /\ snooped[t][x].valid /\ snooped[t][x].tag = l
                          /\ snooped[t][x].cstate = "S" /\ snooped[t][x].dirty = FALSE
                  /\ ~Holds(column[t], l, x) => snooped[t][x] = column[t][x]
                  /\ isW /\ t \notin Losers(de, s) => snooped[t][x] = column[t][x]
                  /\ ~isW /\ ~(OwnedElsewhere(de, s) /\ t = de.owner)
                       => snooped[t][x] = column[t][x]
  <2>1. column[t] \in [Ways -> Entry] /\ UniqueIn(column[t], l)
    BY DEF Column
  <2>2. CASE isW /\ t \in Losers(de, s)
    <3>1. snooped[t] = Invalidate(column[t], l)
      BY <2>2 DEF Snooped, snooped
    <3>. QED
      BY <3>1, <2>1, <2>2, InvalidateEffect
  <2>3. CASE ~isW /\ OwnedElsewhere(de, s) /\ t = de.owner
    <3>1. snooped[t] = Downgrade(column[t], l)
      BY <2>3 DEF Snooped, snooped
    <3>2. PICK ways \in [Ways -> Entry] : ways = column[t]
      BY <2>1
    <3>3. PICK lowered : lowered = Downgrade(ways, l)
      OBVIOUS
    <3>4. /\ lowered \in [Ways -> Entry]
          /\ \A x \in Ways :
               IF Holds(ways, l, x)
               THEN /\ Holds(lowered, l, x)
                    /\ lowered[x].cstate = "S"
                    /\ lowered[x].dirty = FALSE
               ELSE lowered[x] = ways[x]
      BY <3>2, <2>1, <3>3, DowngradeEffect
    <3>5. \A x \in Ways : Holds(lowered, l, x) =>
             lowered[x].valid /\ lowered[x].tag = l
      BY DEF Holds
    <3>6. snooped[t] = lowered
      BY <3>1, <3>2, <3>3
    <3>. QED
      BY <3>2, <3>4, <3>5, <3>6, <2>3
  <2>4. CASE /\ ~(isW /\ t \in Losers(de, s))
             /\ ~(~isW /\ OwnedElsewhere(de, s) /\ t = de.owner)
    <3>1. snooped[t] = column[t]
      BY <2>4 DEF Snooped, snooped
    <3>. QED
      BY <3>1, <2>1, <2>4
  <2>. QED
    BY <2>2, <2>3, <2>4
<1>2. snooped \in Column
  <2>1. snooped = [t \in Sockets |-> snooped[t]]
    BY DEF snooped, Snooped
  <2>2. \A t \in Sockets : snooped[t] \in [Ways -> Entry]
    BY <1>1
  <2>. QED
    BY <2>1, <2>2 DEF Column
<1>. QED
  BY <1>1, <1>2 DEF SnoopedTo, snooped

\* update_directory returns a well-formed entry.
LEMMA DirectoryAfterType ==
    ASSUME NEW de \in DirectoryEntry, NEW s \in Sockets, NEW isW \in BOOLEAN
    PROVE  DirectoryAfter(de, s, isW) \in DirectoryEntry
BY DEF DirectoryAfter, DirectoryEntry, CohStates

\* A miss of a line the directory describes correctly: what update_directory
\* makes of the entry, and which sockets' copies it removes or downgrades.
LEMMA DirectoryAfterMiss ==
    ASSUME NEW de \in DirectoryEntry, LineAgrees(de), NEW s \in Sockets,
           NEW isW \in BOOLEAN, s \notin de.sharers
    PROVE  /\ LineAgrees(DirectoryAfter(de, s, isW))
           /\ isW => /\ DirectoryAfter(de, s, isW).sharers = {s}
                     /\ DirectoryAfter(de, s, isW).state = "M"
           /\ ~isW => DirectoryAfter(de, s, isW).sharers = de.sharers \cup {s}
           /\ ~isW /\ de.state = "I" => DirectoryAfter(de, s, isW).state = "E"
           /\ ~isW /\ de.state # "I" => DirectoryAfter(de, s, isW).state = "S"
           /\ isW => Losers(de, s) = de.sharers
           /\ OwnedElsewhere(de, s) <=> de.state \in {"E", "M"}
           /\ OwnedElsewhere(de, s) => de.sharers = {de.owner}
<1>1. de.state \in CohStates
  BY DEF DirectoryEntry
<1>2. CASE de.state = "I"
  BY <1>2 DEF LineAgrees, DirectoryAfter, Losers, OwnedElsewhere
<1>3. CASE de.state = "S"
  BY <1>3 DEF LineAgrees, DirectoryAfter, Losers, OwnedElsewhere
<1>4. CASE de.state \in {"E", "M"}
  <2>1. de.sharers = {de.owner} /\ de.owner # s
    BY <1>4 DEF LineAgrees
  <2>2. Losers(de, s) = {de.owner}
    BY <1>4, <2>1 DEF Losers
  <2>. QED
    BY <1>4, <2>1, <2>2 DEF LineAgrees, DirectoryAfter, OwnedElsewhere
<1>. QED
  BY <1>1, <1>2, <1>3, <1>4 DEF CohStates

\* The new line's entry and its directory entry agree.
LEMMA SettledAgrees ==
    ASSUME NEW de \in DirectoryEntry, LineAgrees(de), NEW s \in Sockets,
           NEW isW \in BOOLEAN, s \notin de.sharers,
           NEW l \in Lines, NEW ts \in Timestamps,
           NEW after, after = DirectoryAfter(de, s, isW),
           NEW e, e = Settled(NewEntry(l, isW, ts), after)
    PROVE  /\ e \in Entry
           /\ e.valid /\ e.tag = l
           /\ e.cstate = after.state
           /\ e.dirty = (e.cstate = "M")
           /\ InstallAsserts(e, after, isW)
<1>1. /\ isW => after.state = "M"
      /\ ~isW /\ de.state = "I" => after.state = "E"
      /\ ~isW /\ de.state # "I" => after.state = "S"
  BY DirectoryAfterMiss
<1>2. NewEntry(l, isW, ts) \in Entry
  BY DEF NewEntry, Entry, CohStates
<1>3. CASE isW
  BY <1>1, <1>2, <1>3 DEF Settled, NewEntry, InstallAsserts
<1>4. CASE ~isW /\ de.state = "I"
  BY <1>1, <1>2, <1>4 DEF Settled, NewEntry, InstallAsserts
<1>5. CASE ~isW /\ de.state # "I"
  BY <1>1, <1>2, <1>5 DEF Settled, NewEntry, InstallAsserts, Entry, CohStates
<1>. QED
  BY <1>3, <1>4, <1>5

\* What an installation in way w of socket s makes of a set and a directory
InstallKeeps(h, column, dir, s, w, l, isW, ts) ==
    LET de      == dir[l]
        after   == DirectoryAfter(de, s, isW)
        e       == Settled(NewEntry(l, isW, ts), after)
        snooped == Snooped(column, de, s, l, isW)
        final   == [snooped EXCEPT ![s] = [@ EXCEPT ![w] = e]]
    IN /\ final \in Column
       /\ after \in DirectoryEntry
       /\ SnoopAsserts(column, de, s, l, isW)
       /\ InstallAsserts(e, after, isW)
       /\ SetAgrees(final, [dir EXCEPT ![l] = after], h)
       /\ s \notin de.sharers
       /\ LineAgrees(de)

\* The installed line, the copies taken from other sockets and the directory
\* entry agree again, and no assert of update_directory fails.  vac is the set
\* as the directory knows it: without the way that is about to be overwritten.
LEMMA InstallAgrees ==
    ASSUME NEW h \in Sets, NEW column \in Column,
           NEW dir \in [Lines -> DirectoryEntry],
           NEW s \in Sockets, NEW w \in Ways,
           NEW vac, vac = Vacated(column, s, w), SetAgrees(vac, dir, h),
           NEW l \in Lines, SetIndex(l) = h,
           \A x \in Ways : ~Holds(column[s], l, x),
           NEW isW \in BOOLEAN, NEW ts \in Timestamps,
           NEW de, de = dir[l],
           NEW after, after = DirectoryAfter(de, s, isW),
           NEW e, e = Settled(NewEntry(l, isW, ts), after),
           NEW dir1, dir1 = [dir EXCEPT ![l] = after],
           NEW snooped, snooped = Snooped(column, de, s, l, isW),
           NEW final, final = [snooped EXCEPT ![s] = [@ EXCEPT ![w] = e]]
    PROVE  InstallKeeps(h, column, dir, s, w, l, isW, ts)
<1>1. /\ vac \in Column
      /\ ~vac[s][w].valid
      /\ \A t \in Sockets, x \in Ways : ~(t = s /\ x = w) => vac[t][x] = column[t][x]
  BY VacatedEffect
<1>2. \A x \in Ways : ~Holds(vac[s], l, x)
  BY <1>1 DEF Holds
<1>3. /\ de \in DirectoryEntry
      /\ LineAgrees(de)
      /\ s \notin de.sharers
      /\ \A t \in Sockets : t \in de.sharers <=> \E x \in Ways : Holds(vac[t], l, x)
  BY <1>2 DEF SetAgrees
<1>4. \A t \in Sockets : UniqueIn(column[t], l)
  <2>. TAKE t \in Sockets
  <2>1. CASE t = s
    BY <2>1 DEF UniqueIn
  <2>2. CASE t # s
    <3>1. UniqueIn(vac[t], l)
      BY DEF SetAgrees
    <3>. QED
      BY <3>1, <2>2, <1>1 DEF UniqueIn, Holds
  <2>. QED
    BY <2>1, <2>2
<1>5. /\ after \in DirectoryEntry
      /\ LineAgrees(after)
      /\ isW => after.sharers = {s} /\ after.state = "M"
      /\ ~isW => after.sharers = de.sharers \cup {s}
      /\ ~isW /\ de.state = "I" => after.state = "E"
      /\ ~isW /\ de.state # "I" => after.state = "S"
      /\ isW => Losers(de, s) = de.sharers
      /\ OwnedElsewhere(de, s) <=> de.state \in {"E", "M"}
      /\ OwnedElsewhere(de, s) => de.sharers = {de.owner}
  BY <1>3, DirectoryAfterType, DirectoryAfterMiss
<1>6. /\ e \in Entry
      /\ e.valid /\ e.tag = l
      /\ e.cstate = after.state
      /\ e.dirty = (e.cstate = "M")
      /\ InstallAsserts(e, after, isW)
  BY <1>3, SettledAgrees
<1>7. snooped \in Column /\ SnoopedTo(snooped, column, de, s, l, isW)
  BY <1>3, <1>4, SnoopEffect
<1>8. /\ final \in Column
      /\ final[s][w] = e
      /\ \A t \in Sockets, x \in Ways : ~(t = s /\ x = w) => final[t][x] = snooped[t][x]
  <2>. DEFINE ways == [snooped[s] EXCEPT ![w] = e]
  <2>1. snooped[s] \in [Ways -> Entry]
    BY <1>7 DEF Column
  <2>2. ways \in [Ways -> Entry] /\ ways[w] = e
        /\ \A x \in Ways : x # w => ways[x] = snooped[s][x]
    BY <2>1, <1>6
  <2>. HIDE DEF ways
  <2>3. final = [snooped EXCEPT ![s] = ways]
    BY DEF ways
  <2>. QED
    BY <2>2, <2>3, <1>7 DEF Column
<1>9. \A t \in Sockets, x \in Ways : ~(t = s /\ x = w) =>
        /\ isW /\ Holds(vac[t], l, x) => ~final[t][x].valid
        /\ ~isW /\ de.state \in {"E", "M"} /\ Holds(vac[t], l, x) =>
             /\ final[t][x].valid /\ final[t][x].tag = l
             /\ final[t][x].cstate = "S" /\ final[t][x].dirty = FALSE
        /\ ~isW /\ de.state \notin {"E", "M"} => final[t][x] = vac[t][x]
        /\ ~Holds(vac[t], l, x) => final[t][x] = vac[t][x]
  <2>. SUFFICES ASSUME NEW t \in Sockets, NEW x \in Ways, ~(t = s /\ x = w)
                PROVE  /\ isW /\ Holds(vac[t], l, x) => ~final[t][x].valid
                       /\ ~isW /\ de.state \in {"E", "M"} /\ Holds(vac[t], l, x) =>
                            /\ final[t][x].valid /\ final[t][x].tag = l
                            /\ final[t][x].cstate = "S" /\ final[t][x].dirty = FALSE
                       /\ ~isW /\ de.state \notin {"E", "M"} => final[t][x] = vac[t][x]
                       /\ ~Holds(vac[t], l, x) => final[t][x] = vac[t][x]
    OBVIOUS
  <2>1. final[t][x] = snooped[t][x] /\ vac[t][x] = column[t][x]
    BY <1>1, <1>8
  <2>2. Holds(vac[t], l, x) <=> Holds(column[t], l, x)
    BY <2>1 DEF Holds
  <2>3. Holds(vac[t], l, x) => t \in de.sharers
    BY <1>3
  <2>4. CASE isW
    <3>1. /\ t \in de.sharers /\ Holds(column[t], l, x) => ~snooped[t][x].valid
          /\ ~Holds(column[t], l, x) => snooped[t][x] = column[t][x]
      BY <2>4, <1>5, <1>7 DEF SnoopedTo
    <3>. QED
      BY <3>1, <2>1, <2>2, <2>3, <2>4
  <2>5. CASE ~isW
    <3>1. Holds(vac[t], l, x) /\ OwnedElsewhere(de, s) => t = de.owner
      BY <2>3, <1>5
    <3>2. /\ OwnedElsewhere(de, s) /\ t = de.owner /\ Holds(column[t], l, x)
               => /\ snooped[t][x].valid /\ snooped[t][x].tag = l
                  /\ snooped[t][x].cstate = "S" /\ snooped[t][x].dirty = FALSE
          /\ ~Holds(column[t], l, x) => snooped[t][x] = column[t][x]
          /\ ~OwnedElsewhere(de, s) => snooped[t][x] = column[t][x]
      BY <2>5, <1>7 DEF SnoopedTo
    <3>. QED
      BY <3>1, <3>2, <2>1, <2>2, <2>5, <1>5
  <2>. QED
    BY <2>4, <2>5
<1>10. SnoopAsserts(column, de, s, l, isW)
  <2>. SUFFICES ASSUME OwnedElsewhere(de, s), NEW x \in HitWay(column[de.owner], l)
                PROVE  /\ s \notin de.sharers
                       /\ de.owner \in de.sharers
                       /\ column[de.owner][x].cstate = de.state
                       /\ column[de.owner][x].dirty = (de.state = "M")
    BY <1>3, <1>5 DEF SnoopAsserts
  <2>1. de.owner \in Sockets /\ de.owner # s /\ x \in Ways
    BY <1>3 DEF DirectoryEntry, OwnedElsewhere, HitWay
  <2>2. vac[de.owner][x] = column[de.owner][x]
    BY <2>1, <1>1
  <2>3. EntryAgrees(vac[de.owner][x], dir, h)
    BY <2>1 DEF SetAgrees
  <2>4. Holds(column[de.owner], l, x)
    BY DEF HitWay
  <2>. QED
    BY <2>2, <2>3, <2>4, <1>3, <1>5 DEF EntryAgrees, Holds
<1>11. \A m \in Lines : dir1[m] = IF m = l THEN after ELSE dir[m]
  BY <1>5
<1>12. /\ \A t \in Sockets, x \in Ways, m \in Lines :
            m # l => (Holds(final[t], m, x) <=> Holds(vac[t], m, x))
       /\ \A t \in Sockets, x \in Ways :
            Holds(final[t], l, x) <=>
              (t = s /\ x = w) \/ (~isW /\ Holds(vac[t], l, x))
  <2>1. ASSUME NEW t \in Sockets, NEW x \in Ways, NEW m \in Lines
        PROVE  Holds(final[t], m, x) <=>
                 IF m = l THEN (t = s /\ x = w) \/ (~isW /\ Holds(vac[t], l, x))
                 ELSE Holds(vac[t], m, x)
    <3>1. CASE t = s /\ x = w
      BY <3>1, <1>1, <1>6, <1>8 DEF Holds
    <3>2. CASE ~(t = s /\ x = w)
      <4>1. Holds(vac[t], l, x) => t \in de.sharers
        BY <1>3
      <4>2. Holds(vac[t], m, x) <=> (vac[t][x].valid /\ vac[t][x].tag = m)
        BY DEF Holds
      <4>3. Holds(final[t], m, x) <=> (final[t][x].valid /\ final[t][x].tag = m)
        BY DEF Holds
      <4>4. Holds(vac[t], l, x) <=> (vac[t][x].valid /\ vac[t][x].tag = l)
        BY DEF Holds
      <4>. QED
        BY <3>2, <4>1, <4>2, <4>3, <4>4, <1>9
    <3>. QED
      BY <3>1, <3>2
  <2>. QED
    BY <2>1
<1>13. ASSUME NEW t \in Sockets, NEW x \in Ways
       PROVE  EntryAgrees(final[t][x], dir1, h)
  <2>1. CASE t = s /\ x = w
    BY <2>1, <1>6, <1>8, <1>11 DEF EntryAgrees
  <2>2. CASE ~(t = s /\ x = w)
    <3>1. EntryAgrees(vac[t][x], dir, h)
      BY DEF SetAgrees
    <3>2. Holds(vac[t], l, x) => t \in de.sharers
      BY <1>3
    <3>3. CASE Holds(vac[t], l, x)
      <4>1. CASE isW
        BY <4>1, <3>2, <3>3, <2>2, <1>9 DEF EntryAgrees
      <4>2. CASE ~isW /\ de.state \in {"E", "M"}
        <5>1. after.state = "S"
          BY <4>2, <1>5
        <5>2. /\ final[t][x].valid /\ final[t][x].tag = l
              /\ final[t][x].cstate = "S" /\ final[t][x].dirty = FALSE
          BY <4>2, <3>3, <2>2, <1>9
        <5>. QED
          BY <5>1, <5>2, <1>11 DEF EntryAgrees
      <4>3. CASE ~isW /\ ~(de.state \in {"E", "M"})
        <5>1. de.state = "S"
          BY <4>3, <3>2, <3>3, <1>3 DEF LineAgrees, DirectoryEntry, CohStates
        <5>2. final[t][x] = vac[t][x] /\ after.state = "S"
          BY <4>3, <5>1, <2>2, <1>5, <1>9
        <5>. QED
          BY <5>1, <5>2, <3>1, <3>3, <1>11 DEF EntryAgrees, Holds
      <4>. QED
        BY <4>1, <4>2, <4>3
    <3>4. CASE ~Holds(vac[t], l, x)
      <4>1. final[t][x] = vac[t][x]
        BY <3>4, <2>2, <1>9
      <4>. QED
        BY <4>1, <3>1, <3>4, <1>11 DEF EntryAgrees, Holds
    <3>. QED
      BY <3>3, <3>4
  <2>. QED
    BY <2>1, <2>2
<1>14. ASSUME NEW t \in Sockets, NEW m \in Lines
       PROVE  UniqueIn(final[t], m)
  <2>1. UniqueIn(vac[t], m)
    BY DEF SetAgrees
  <2>. QED
    BY <2>1, <1>2, <1>12 DEF UniqueIn
<1>15. ASSUME NEW m \in Lines, SetIndex(m) = h
       PROVE  /\ LineAgrees(dir1[m])
              /\ \A t \in Sockets :
                   t \in dir1[m].sharers <=> \E x \in Ways : Holds(final[t], m, x)
  <2>1. /\ LineAgrees(dir[m])
        /\ \A t \in Sockets :
             t \in dir[m].sharers <=> \E x \in Ways : Holds(vac[t], m, x)
    BY <1>15 DEF SetAgrees
  <2>2. CASE m # l
    BY <2>1, <2>2, <1>11, <1>12
  <2>3. CASE m = l
    <3>1. LineAgrees(dir1[m])
      BY <2>3, <1>5, <1>11
    <3>2. ASSUME NEW t \in Sockets
          PROVE  t \in after.sharers <=> \E x \in Ways : Holds(final[t], l, x)
      <4>1. CASE t = s
        BY <4>1, <1>5, <1>12
      <4>2. CASE t # s
        BY <4>2, <1>3, <1>5, <1>12
      <4>. QED
        BY <4>1, <4>2
    <3>. QED
      BY <3>1, <3>2, <2>3, <1>11
  <2>. QED
    BY <2>2, <2>3
<1>16. SetAgrees(final, dir1, h)
  BY <1>13, <1>14, <1>15 DEF SetAgrees
<1>. QED
  BY <1>3, <1>5, <1>6, <1>8, <1>10, <1>16 DEF InstallKeeps

-----------------------------------------------------------------------------
(* Hits.                                                                   *)

\* A hit of a line the directory describes correctly: a read leaves the state
\* and the sharers, a write takes the line from all other sharers.
LEMMA DirectoryAfterHit ==
    ASSUME NEW de \in DirectoryEntry, LineAgrees(de), NEW s \in Sockets,
           NEW isW \in BOOLEAN, s \in de.sharers
    PROVE  /\ LineAgrees(DirectoryAfter(de, s, isW))
           /\ isW => /\ DirectoryAfter(de, s, isW).sharers = {s}
                     /\ DirectoryAfter(de, s, isW).state = "M"
           /\ ~isW => /\ DirectoryAfter(de, s, isW).sharers = de.sharers
                      /\ DirectoryAfter(de, s, isW).state = de.state
           /\ isW => Losers(de, s) = de.sharers \ {s}
           /\ ~OwnedElsewhere(de, s)
           /\ de.state # "I"
<1>1. de.state \in CohStates
  BY DEF DirectoryEntry
<1>2. de.state # "I"
  BY DEF LineAgrees
<1>3. CASE de.state = "S"
  BY <1>3 DEF LineAgrees, DirectoryAfter, Losers, OwnedElsewhere
<1>4. CASE de.state \in {"E", "M"}
  <2>1. de.sharers = {s} /\ de.owner = s
    BY <1>4 DEF LineAgrees
  <2>. QED
    BY <1>4, <2>1 DEF LineAgrees, DirectoryAfter, Losers, OwnedElsewhere
<1>. QED
  BY <1>1, <1>2, <1>3, <1>4 DEF CohStates

\* The touched entry still holds the line and is in the state the directory
\* is about to have.
LEMMA TouchedAgrees ==
    ASSUME NEW e \in Entry, NEW de \in DirectoryEntry, LineAgrees(de),
           NEW s \in Sockets, NEW isW \in BOOLEAN, NEW ts \in Timestamps,
           s \in de.sharers, e.cstate = de.state, e.dirty = (e.cstate = "M"),
           NEW after, after = DirectoryAfter(de, s, isW),
           NEW e1, e1 = TouchedEntry(e, isW, ts)
    PROVE  /\ e1 \in Entry
           /\ e1.valid = e.valid /\ e1.tag = e.tag
           /\ e1.cstate = after.state
           /\ e1.dirty = (e1.cstate = "M")
<1>1. /\ isW => after.state = "M"
      /\ ~isW => after.state = de.state
  BY DirectoryAfterHit
<1>2. CASE isW
  BY <1>1, <1>2 DEF TouchedEntry, Entry, CohStates
<1>3. CASE ~isW
  BY <1>1, <1>3 DEF TouchedEntry, Entry, CohStates
<1>. QED
  BY <1>2, <1>3

\* What a hit of way w of socket s makes of a set of the caches and a directory
HitKeeps(h, column, dir, s, w, l, isW, ts) ==
    LET de      == dir[l]
        after   == DirectoryAfter(de, s, isW)
        touched == [column EXCEPT ![s] =
                      [@ EXCEPT ![w] = TouchedEntry(column[s][w], isW, ts)]]
        final   == Snooped(touched, de, s, l, isW)
    IN /\ final \in Column
       /\ after \in DirectoryEntry
       /\ SnoopAsserts(touched, de, s, l, isW)
       /\ SetAgrees(final, [dir EXCEPT ![l] = after], h)
       /\ s \in de.sharers
       /\ LineAgrees(de)

\* A hit keeps the set in agreement with the directory and fails no assert.
LEMMA HitAgrees ==
    ASSUME NEW h \in Sets, NEW column \in Column,
           NEW dir \in [Lines -> DirectoryEntry], SetAgrees(column, dir, h),
           NEW s \in Sockets, NEW w \in Ways,
           NEW l \in Lines, SetIndex(l) = h, Holds(column[s], l, w),
           NEW isW \in BOOLEAN, NEW ts \in Timestamps,
           NEW de, de = dir[l],
           NEW after, after = DirectoryAfter(de, s, isW),
           NEW dir1, dir1 = [dir EXCEPT ![l] = after],
           NEW touched,
           touched = [column EXCEPT ![s] =
                        [@ EXCEPT ![w] = TouchedEntry(column[s][w], isW, ts)]],
           NEW final, final = Snooped(touched, de, s, l, isW)
    PROVE  HitKeeps(h, column, dir, s, w, l, isW, ts)
<1>. DEFINE e1 == TouchedEntry(column[s][w], isW, ts)
<1>1. /\ de \in DirectoryEntry
      /\ LineAgrees(de)
      /\ s \in de.sharers
      /\ \A t \in Sockets : t \in de.sharers <=> \E x \in Ways : Holds(column[t], l, x)
  BY DEF SetAgrees
<1>2. /\ after \in DirectoryEntry
      /\ LineAgrees(after)
      /\ isW => after.sharers = {s} /\ after.state = "M"
      /\ ~isW => after.sharers = de.sharers /\ after.state = de.state
      /\ isW => Losers(de, s) = de.sharers \ {s}
      /\ ~OwnedElsewhere(de, s)
      /\ de.state # "I"
  BY <1>1, DirectoryAfterType, DirectoryAfterHit
<1>3. /\ column[s][w] \in Entry
      /\ column[s][w].valid /\ column[s][w].tag = l
      /\ column[s][w].cstate = de.state
      /\ column[s][w].dirty = (column[s][w].cstate = "M")
  BY DEF Column, SetAgrees, EntryAgrees, Holds
<1>4. /\ e1 \in Entry
      /\ e1.valid /\ e1.tag = l
      /\ e1.cstate = after.state
      /\ e1.dirty = (e1.cstate = "M")
  BY <1>1, <1>3, TouchedAgrees
<1>. HIDE DEF e1
<1>5. /\ touched \in Column
      /\ touched[s][w] = e1
      /\ \A t \in Sockets, x \in Ways : ~(t = s /\ x = w) => touched[t][x] = column[t][x]
  <2>. DEFINE ways == [column[s] EXCEPT ![w] = e1]
  <2>1. column[s] \in [Ways -> Entry]
    BY DEF Column
  <2>2. ways \in [Ways -> Entry] /\ ways[w] = e1
        /\ \A x \in Ways : x # w => ways[x] = column[s][x]
    BY <2>1, <1>4
  <2>. HIDE DEF ways
  <2>3. touched = [column EXCEPT ![s] = ways]
    BY DEF ways, e1
  <2>. QED
    BY <2>2, <2>3 DEF Column
<1>6. \A t \in Sockets, x \in Ways, m \in Lines :
        Holds(touched[t], m, x) <=> Holds(column[t], m, x)
  BY <1>3, <1>4, <1>5 DEF Holds
<1>7. \A t \in Sockets : UniqueIn(touched[t], l)
  BY <1>6 DEF UniqueIn, SetAgrees
<1>8. final \in Column /\ SnoopedTo(final, touched, de, s, l, isW)
  <2>1. touched \in Column /\ de \in DirectoryEntry
    BY <1>1, <1>5
  <2>. QED
    BY <2>1, <1>7, SnoopEffect
<1>9. /\ final[s][w] = e1
      /\ \A t \in Sockets, x \in Ways : ~(t = s /\ x = w) =>
           /\ isW /\ t # s /\ Holds(column[t], l, x) => ~final[t][x].valid
           /\ ~isW \/ t = s \/ ~Holds(column[t], l, x) => final[t][x] = column[t][x]
  <2>1. final[s][w] = e1
    BY <1>2, <1>5, <1>8 DEF SnoopedTo
  <2>2. ASSUME NEW t \in Sockets, NEW x \in Ways, ~(t = s /\ x = w)
        PROVE  /\ isW /\ t # s /\ Holds(column[t], l, x) => ~final[t][x].valid
               /\ ~isW \/ t = s \/ ~Holds(column[t], l, x) => final[t][x] = column[t][x]
    <3>1. touched[t][x] = column[t][x] /\ (Holds(touched[t], l, x) <=> Holds(column[t], l, x))
      BY <2>2, <1>5, <1>6
    <3>2. Holds(column[t], l, x) => t \in de.sharers
      BY <1>1
    <3>. QED
      BY <3>1, <3>2, <1>2, <1>8 DEF SnoopedTo
  <2>. QED
    BY <2>1, <2>2
<1>10. SnoopAsserts(touched, de, s, l, isW)
  BY <1>2 DEF SnoopAsserts
<1>11. \A m \in Lines : dir1[m] = IF m = l THEN after ELSE dir[m]
  BY <1>2
<1>12. \A t \in Sockets, x \in Ways, m \in Lines :
         Holds(final[t], m, x) <=>
           Holds(column[t], m, x) /\ (m = l /\ isW => t = s)
  <2>. TAKE t \in Sockets, x \in Ways, m \in Lines
  <2>1. CASE t = s /\ x = w
    BY <2>1, <1>3, <1>4, <1>9 DEF Holds
  <2>2. CASE ~(t = s /\ x = w)
    <3>1. /\ Holds(final[t], m, x) <=> (final[t][x].valid /\ final[t][x].tag = m)
          /\ Holds(column[t], m, x) <=> (column[t][x].valid /\ column[t][x].tag = m)
          /\ Holds(column[t], l, x) <=> (column[t][x].valid /\ column[t][x].tag = l)
      BY DEF Holds
    <3>. QED
      BY <3>1, <2>2, <1>9
  <2>. QED
    BY <2>1, <2>2
<1>13. ASSUME NEW t \in Sockets, NEW x \in Ways
       PROVE  EntryAgrees(final[t][x], dir1, h)
  <2>1. CASE t = s /\ x = w
    BY <2>1, <1>4, <1>9, <1>11 DEF EntryAgrees
  <2>2. CASE ~(t = s /\ x = w)
    <3>1. EntryAgrees(column[t][x], dir, h)
      BY DEF SetAgrees
    <3>2. t = s => ~Holds(column[t], l, x)
      BY <2>2 DEF SetAgrees, UniqueIn
    <3>3. CASE Holds(column[t], l, x)
      <4>1. CASE isW
        <5>1. ~final[t][x].valid
          BY <4>1, <3>2, <3>3, <2>2, <1>9
        <5>. QED
          BY <5>1 DEF EntryAgrees
      <4>2. CASE ~isW
        <5>1. final[t][x] = column[t][x]
          BY <4>2, <2>2, <1>9
        <5>2. dir1[l].state = dir[l].state
          BY <4>2, <1>2, <1>11
        <5>3. column[t][x].tag = l
          BY <3>3 DEF Holds
        <5>. QED
          BY <5>1, <5>2, <5>3, <3>1 DEF EntryAgrees
      <4>. QED
        BY <4>1, <4>2
    <3>4. CASE ~Holds(column[t], l, x)
      <4>1. final[t][x] = column[t][x]
        BY <3>4, <2>2, <1>9
      <4>. QED
        BY <4>1, <3>1, <3>4, <1>11 DEF EntryAgrees, Holds
    <3>. QED
      BY <3>3, <3>4
  <2>. QED
    BY <2>1, <2>2
<1>14. ASSUME NEW t \in Sockets, NEW m \in Lines
       PROVE  UniqueIn(final[t], m)
  BY <1>12 DEF UniqueIn, SetAgrees
<1>15. ASSUME NEW m \in Lines, SetIndex(m) = h
       PROVE  /\ LineAgrees(dir1[m])
              /\ \A t \in Sockets :
                   t \in dir1[m].sharers <=> \E x \in Ways : Holds(final[t], m, x)
  <2>1. /\ LineAgrees(dir[m])
        /\ \A t \in Sockets :
             t \in dir[m].sharers <=> \E x \in Ways : Holds(column[t], m, x)
    BY <1>15 DEF SetAgrees
  <2>2. CASE m # l
    BY <2>1, <2>2, <1>11, <1>12
  <2>3. CASE m = l
    BY <2>3, <1>1, <1>2, <1>11, <1>12
  <2>. QED
    BY <2>2, <2>3
<1>16. SetAgrees(final, dir1, h)
  BY <1>13, <1>14, <1>15 DEF SetAgrees
<1>. QED
  BY <1>1, <1>2, <1>8, <1>10, <1>16 DEF HitKeeps

-----------------------------------------------------------------------------
(* The counters.                                                           *)

\* What an access adds to the counters the miss accounting is about.
LEMMA CountedEffect ==
    ASSUME NEW st \in Stats, NEW hit \in BOOLEAN, NEW wroteBack \in BOOLEAN,
           NEW de, NEW s, NEW isW \in BOOLEAN,
           NEW st1, st1 = Counted(st, hit, wroteBack, de, s, isW)
    PROVE  /\ st1 \in Stats
           /\ st1.llc_misses = st.llc_misses + Count(~hit)
           /\ st1.m_reads = st.m_reads + Count(ReadsMemory(de, s))
           /\ st1.c_block_trans = st.c_block_trans + Count(OwnedElsewhere(de, s))
<1>1. \A b \in BOOLEAN : Count(b) \in Nat
  BY DEF Count
<1>2. /\ Count(hit) \in Nat /\ Count(~hit) \in Nat /\ Count(wroteBack) \in Nat
      /\ Count(ReadsMemory(de, s)) \in Nat
      /\ Count(WritesBackForSharing(de, s, isW)) \in Nat
      /\ Count(isW /\ de.state = "S") \in Nat
      /\ Count(OwnedElsewhere(de, s)) \in Nat
  BY DEF Count
<1>. QED
  BY <1>2 DEF Counted, Stats

\* A socket with a copy is served by nobody, one without by either the memory
\* or another socket and never by both.
LEMMA MissIsServedOnce ==
    ASSUME NEW de \in DirectoryEntry, LineAgrees(de), NEW s \in Sockets
    PROVE  /\ s \in de.sharers => ~ReadsMemory(de, s) /\ ~OwnedElsewhere(de, s)
           /\ s \notin de.sharers => (ReadsMemory(de, s) <=> ~OwnedElsewhere(de, s))
BY DEF LineAgrees, ReadsMemory, OwnedElsewhere, DirectoryEntry, CohStates

\* A set of counters of the right type in which every miss was served once
MissesServed(st) == st \in Stats /\ st.llc_misses = st.m_reads + st.c_block_trans

\* MissAccounting is kept by the counters of one access.
LEMMA AccountingKept ==
    ASSUME NEW st, MissesServed(st), NEW hit \in BOOLEAN, NEW wroteBack \in BOOLEAN,
           NEW de \in DirectoryEntry, LineAgrees(de), NEW s \in Sockets,
           NEW isW \in BOOLEAN, hit <=> s \in de.sharers
    PROVE  MissesServed(Counted(st, hit, wroteBack, de, s, isW))
<1>. DEFINE st1 == Counted(st, hit, wroteBack, de, s, isW)
<1>0. st \in Stats /\ st.llc_misses = st.m_reads + st.c_block_trans
  BY DEF MissesServed
<1>1. /\ st1 \in Stats
      /\ st1.llc_misses = st.llc_misses + Count(~hit)
      /\ st1.m_reads = st.m_reads + Count(ReadsMemory(de, s))
      /\ st1.c_block_trans = st.c_block_trans + Count(OwnedElsewhere(de, s))
  BY <1>0, CountedEffect
<1>2. st.llc_misses \in Nat /\ st.m_reads \in Nat /\ st.c_block_trans \in Nat
  BY <1>0 DEF Stats
<1>. HIDE DEF st1
<1>3. ASSUME hit PROVE MissesServed(st1)
  <2>1. ~ReadsMemory(de, s) /\ ~OwnedElsewhere(de, s)
    BY <1>3, MissIsServedOnce
  <2>2. Count(~hit) = 0 /\ Count(ReadsMemory(de, s)) = 0 /\ Count(OwnedElsewhere(de, s)) = 0
    BY <2>1, <1>3 DEF Count
  <2>. QED
    BY <2>2, <1>0, <1>1, <1>2 DEF MissesServed
<1>4. ASSUME ~hit PROVE MissesServed(st1)
  <2>1. ReadsMemory(de, s) <=> ~OwnedElsewhere(de, s)
    BY <1>4, MissIsServedOnce
  <2>2. Count(~hit) = 1 /\ Count(ReadsMemory(de, s)) + Count(OwnedElsewhere(de, s)) = 1
        /\ Count(ReadsMemory(de, s)) \in Nat /\ Count(OwnedElsewhere(de, s)) \in Nat
    BY <2>1, <1>4 DEF Count
  <2>. QED
    BY <2>2, <1>0, <1>1, <1>2 DEF MissesServed
<1>5. MissesServed(st1)
  BY <1>3, <1>4
<1>. QED
  BY <1>5 DEF st1

-----------------------------------------------------------------------------
(* The inductive invariant.                                                *)

IInv ==
    /\ TypeOK
    /\ NoAssertFails
    /\ MissAccounting
    /\ \A h \in Sets : SetAgrees(caches[h], CCD, h)

\* A set is unaffected by changes to the directory entries of other sets' lines.
LEMMA OtherSetsAgree ==
    ASSUME NEW g, NEW column, NEW dir, NEW dir1, SetAgrees(column, dir, g),
           \A m \in Lines : SetIndex(m) = g => dir1[m] = dir[m]
    PROVE  SetAgrees(column, dir1, g)
BY DEF SetAgrees, EntryAgrees

\* The whole state is in agreement after a step that replaces one set and the
\* directory entries of lines of that set by ones that agree.
LEMMA AccessAgrees ==
    ASSUME IInv, NEW h \in Sets, NEW final \in Column,
           caches' = [caches EXCEPT ![h] = final],
           CCD' \in [Lines -> DirectoryEntry],
           \A m \in Lines : SetIndex(m) # h => CCD'[m] = CCD[m],
           SetAgrees(final, CCD', h),
           ccdKeys' \subseteq Lines,
           MissesServed(simstats'),
           aborted' = FALSE
    PROVE  IInv'
<1>1. caches \in [Sets -> Column]
  BY DEF IInv, TypeOK, Column
<1>2. caches' \in [Sets -> Column]
  BY <1>1
<1>3. TypeOK'
  BY <1>2 DEF TypeOK, Column, MissesServed
<1>4. ASSUME NEW g \in Sets
      PROVE  SetAgrees(caches'[g], CCD', g)
  <2>1. CASE g = h
    BY <2>1, <1>1
  <2>2. CASE g # h
    <3>1. SetAgrees(caches[g], CCD, g)
      BY DEF IInv
    <3>2. SetAgrees(caches[g], CCD', g)
      BY <3>1, <2>2, OtherSetsAgree
    <3>. QED
      BY <3>2, <2>2, <1>1
  <2>. QED
    BY <2>1, <2>2
<1>. QED
  BY <1>3, <1>4 DEF IInv, NoAssertFails, MissAccounting, MissesServed

\* A hit preserves the invariant.
LEMMA HitKeepsIInv ==
    ASSUME IInv, NEW s \in Sockets, NEW l \in Lines, NEW isW \in BOOLEAN,
           NEW ts \in Timestamps, Hit(s, l, isW, ts)
    PROVE  IInv'
<1>1. PICK h \in Sets : h = SetIndex(l)
  BY SetIndexType
<1>2. PICK column \in Column : column = caches[h]
  BY DEF IInv, TypeOK, Column
<1>3. PICK de \in DirectoryEntry : de = CCD[l]
  BY DEF IInv, TypeOK
<1>4. PICK after : after = DirectoryAfter(de, s, isW)
  OBVIOUS
<1>5. PICK w \in HitWay(column[s], l) :
        LET touched == [column EXCEPT ![s] =
                          [@ EXCEPT ![w] = TouchedEntry(column[s][w], isW, ts)]]
        IN /\ caches' = [caches EXCEPT ![h] = Snooped(touched, de, s, l, isW)]
           /\ aborted' = ~SnoopAsserts(touched, de, s, l, isW)
  BY <1>1, <1>2, <1>3 DEF Hit
<1>6. PICK touched : touched = [column EXCEPT ![s] =
                         [@ EXCEPT ![w] = TouchedEntry(column[s][w], isW, ts)]]
  OBVIOUS
<1>7. PICK final : final = Snooped(touched, de, s, l, isW)
  OBVIOUS
<1>8. PICK dir1 : dir1 = [CCD EXCEPT ![l] = after]
  OBVIOUS
<1>9. /\ CCD \in [Lines -> DirectoryEntry]
      /\ SetAgrees(column, CCD, h)
      /\ w \in Ways
      /\ Holds(column[s], l, w)
      /\ MissesServed(simstats)
  BY <1>2 DEF IInv, TypeOK, HitWay, MissAccounting, MissesServed
<1>10. /\ final \in Column
       /\ after \in DirectoryEntry
       /\ SnoopAsserts(touched, de, s, l, isW)
       /\ SetAgrees(final, dir1, h)
       /\ s \in de.sharers
       /\ LineAgrees(de)
  <2>1. HitKeeps(h, column, CCD, s, w, l, isW, ts)
    BY <1>1, <1>9, HitAgrees
  <2>. QED
    BY <2>1, <1>3, <1>4, <1>6, <1>7, <1>8 DEF HitKeeps
<1>11. /\ caches' = [caches EXCEPT ![h] = final]
       /\ aborted' = FALSE
  BY <1>5, <1>6, <1>7, <1>10
<1>12. /\ CCD' = dir1
       /\ ccdKeys' = ccdKeys \cup {l}
       /\ simstats' = Counted(simstats, TRUE, FALSE, de, s, isW)
  BY <1>3, <1>4, <1>8 DEF Hit
<1>13. MissesServed(simstats')
  BY <1>9, <1>10, <1>12, AccountingKept
<1>14. /\ dir1 \in [Lines -> DirectoryEntry]
       /\ \A m \in Lines : SetIndex(m) # h => dir1[m] = CCD[m]
  BY <1>1, <1>8, <1>9, <1>10
<1>15. ccdKeys' \subseteq Lines
  BY <1>12 DEF IInv, TypeOK
<1>. QED
  BY <1>10, <1>11, <1>12, <1>13, <1>14, <1>15, AccessAgrees

\* Installing the line in a way that is free, or that an eviction has just
\* emptied, preserves the invariant.
LEMMA InstallKeepsIInv ==
    ASSUME IInv, NEW s \in Sockets, NEW l \in Lines, NEW isW \in BOOLEAN,
           NEW ts \in Timestamps, NEW w \in Ways,
           NEW h \in Sets, h = SetIndex(l),
           NEW column \in Column, NEW dir \in [Lines -> DirectoryEntry],
           \A m \in Lines : SetIndex(m) # h => dir[m] = CCD[m],
           SetAgrees(Vacated(column, s, w), dir, h),
           \A x \in Ways : ~Holds(column[s], l, x),
           NEW wroteBack \in BOOLEAN,
           Install(s, l, isW, ts, w, column, dir, wroteBack, TRUE)
    PROVE  IInv'
<1>1. PICK vac : vac = Vacated(column, s, w)
  OBVIOUS
<1>2. PICK de \in DirectoryEntry : de = dir[l]
  OBVIOUS
<1>3. PICK after : after = DirectoryAfter(de, s, isW)
  OBVIOUS
<1>4. PICK e : e = Settled(NewEntry(l, isW, ts), after)
  OBVIOUS
<1>5. PICK snooped : snooped = Snooped(column, de, s, l, isW)
  OBVIOUS
<1>6. PICK final : final = [snooped EXCEPT ![s] = [@ EXCEPT ![w] = e]]
  OBVIOUS
<1>7. PICK dir1 : dir1 = [dir EXCEPT ![l] = after]
  OBVIOUS
<1>8. /\ final \in Column
      /\ after \in DirectoryEntry
      /\ SnoopAsserts(column, de, s, l, isW)
      /\ InstallAsserts(e, after, isW)
      /\ SetAgrees(final, dir1, h)
      /\ s \notin de.sharers
      /\ LineAgrees(de)
  <2>1. InstallKeeps(h, column, dir, s, w, l, isW, ts)
    BY InstallAgrees
  <2>. QED
    BY <2>1, <1>2, <1>3, <1>4, <1>5, <1>6, <1>7 DEF InstallKeeps
<1>9. /\ caches' = [caches EXCEPT ![h] = final]
      /\ CCD' = dir1
      /\ ccdKeys' = ccdKeys \cup {l}
      /\ simstats' = Counted(simstats, FALSE, wroteBack, de, s, isW)
      /\ aborted' = FALSE
  BY <1>2, <1>3, <1>4, <1>5, <1>6, <1>7, <1>8 DEF Install
<1>10. MissesServed(simstats')
  <2>1. MissesServed(simstats)
    BY DEF IInv, TypeOK, MissAccounting, MissesServed
  <2>. QED
    BY <2>1, <1>8, <1>9, AccountingKept
<1>11. /\ dir1 \in [Lines -> DirectoryEntry]
       /\ \A m \in Lines : SetIndex(m) # h => dir1[m] = CCD[m]
  BY <1>7, <1>8
<1>12. ccdKeys' \subseteq Lines
  BY <1>9 DEF IInv, TypeOK
<1>. QED
  BY <1>8, <1>9, <1>10, <1>11, <1>12, AccessAgrees

\* A miss filled into an invalid way preserves the invariant.
LEMMA FillInvalidKeepsIInv ==
    ASSUME IInv, NEW s \in Sockets, NEW l \in Lines, NEW isW \in BOOLEAN,
           NEW ts \in Timestamps, FillInvalid(s, l, isW, ts)
    PROVE  IInv'
<1>1. PICK h \in Sets : h = SetIndex(l)
  BY SetIndexType
<1>2. PICK column \in Column : column = caches[h]
  BY DEF IInv, TypeOK, Column
<1>3. PICK w \in InvalidWay(column[s]) :
        Install(s, l, isW, ts, w, column, CCD, FALSE, TRUE)
  BY <1>1, <1>2 DEF FillInvalid
<1>4. w \in Ways /\ ~column[s][w].valid
  BY <1>3 DEF InvalidWay
<1>5. SetAgrees(column, CCD, h) /\ CCD \in [Lines -> DirectoryEntry]
  BY <1>2 DEF IInv, TypeOK
<1>6. \A x \in Ways : ~Holds(column[s], l, x)
  BY <1>1, <1>2, <1>5, HitWayIsHolder DEF FillInvalid, SetAgrees
<1>7. SetAgrees(Vacated(column, s, w), CCD, h)
  <2>1. /\ ~Vacated(column, s, w)[s][w].valid
        /\ \A t \in Sockets, x \in Ways :
             ~(t = s /\ x = w) => Vacated(column, s, w)[t][x] = column[t][x]
    BY <1>4, VacatedEffect
  <2>2. \A t \in Sockets, x \in Ways, m \in Lines :
          Holds(Vacated(column, s, w)[t], m, x) <=> Holds(column[t], m, x)
    BY <2>1, <1>4 DEF Holds
  <2>3. \A t \in Sockets, x \in Ways : EntryAgrees(Vacated(column, s, w)[t][x], CCD, h)
    BY <2>1, <1>4, <1>5 DEF SetAgrees, EntryAgrees
  <2>. QED
    BY <2>2, <2>3, <1>5 DEF SetAgrees, UniqueIn
<1>. QED
  BY <1>1, <1>3, <1>4, <1>5, <1>6, <1>7, InstallKeepsIInv

\* A miss that evicts the oldest way preserves the invariant: the promotion of
\* a last sharer happens before the new line is installed.
LEMMA EvictAndFillKeepsIInv ==
    ASSUME IInv, NEW s \in Sockets, NEW l \in Lines, NEW isW \in BOOLEAN,
           NEW ts \in Timestamps, EvictAndFill(s, l, isW, ts)
    PROVE  IInv'
<1>1. PICK h \in Sets : h = SetIndex(l)
  BY SetIndexType
<1>2. PICK column \in Column : column = caches[h]
  BY DEF IInv, TypeOK, Column
<1>3. PICK w \in LruWay(column[s]) :
        \E o \in OwnerAfterEviction(CCD[column[s][w].tag], s) :
          Install(s, l, isW, ts, w,
                  EvictedColumn(column, column[s][w], CCD[column[s][w].tag], s, o),
                  [CCD EXCEPT ![column[s][w].tag] =
                     EvictedDirectory(column[s][w], CCD[column[s][w].tag], s, o)],
                  column[s][w].dirty,
                  EvictionAsserts(column[s][w], CCD[column[s][w].tag], s, o))
  BY <1>1, <1>2 DEF EvictAndFill
<1>4. w \in Ways /\ column[s][w].valid
  BY <1>1, <1>2, <1>3 DEF EvictAndFill, LruWay
<1>5. PICK e \in Entry : e = column[s][w]
  BY <1>4 DEF Column
<1>6. PICK de : de = CCD[e.tag]
  OBVIOUS
<1>7. PICK o \in OwnerAfterEviction(de, s) :
        Install(s, l, isW, ts, w, EvictedColumn(column, e, de, s, o),
                [CCD EXCEPT ![e.tag] = EvictedDirectory(e, de, s, o)],
                e.dirty, EvictionAsserts(e, de, s, o))
  BY <1>3, <1>5, <1>6
<1>8. PICK col1 : col1 = EvictedColumn(column, e, de, s, o)
  OBVIOUS
<1>9. PICK de1 : de1 = EvictedDirectory(e, de, s, o)
  OBVIOUS
<1>10. PICK dir1 : dir1 = [CCD EXCEPT ![e.tag] = de1]
  OBVIOUS
<1>11. SetAgrees(column, CCD, h) /\ CCD \in [Lines -> DirectoryEntry]
  BY <1>2 DEF IInv, TypeOK
<1>12. \A x \in Ways : ~Holds(column[s], l, x)
  BY <1>1, <1>2, <1>11, HitWayIsHolder DEF EvictAndFill, SetAgrees
<1>13. /\ e.tag \in Lines /\ SetIndex(e.tag) = h
       /\ EvictionAsserts(e, de, s, o)
       /\ LeavesOneSharer(e, de, s, o) => o # s
  <2>1. /\ e.tag \in Lines /\ SetIndex(e.tag) = h
        /\ EvictionAsserts(e, de, s, o)
        /\ ~(e.dirty \/ de.state = "E") => o # s
    <3>1. EvictionKnown(h, e, de, s, o)
      BY <1>4, <1>5, <1>6, <1>11, EvictionIsKnown
    <3>. QED
      BY <3>1 DEF EvictionKnown
  <2>. QED
    BY <2>1 DEF LeavesOneSharer
<1>14. /\ col1 \in Column
       /\ de1 \in DirectoryEntry
       /\ SetAgrees(Vacated(col1, s, w), dir1, h)
  BY <1>4, <1>5, <1>6, <1>8, <1>9, <1>10, <1>11, EvictionAgrees
<1>15. \A x \in Ways : ~Holds(col1[s], l, x)
  BY <1>8, <1>12, <1>13 DEF EvictedColumn, Column
<1>16. /\ dir1 \in [Lines -> DirectoryEntry]
       /\ \A m \in Lines : SetIndex(m) # h => dir1[m] = CCD[m]
  BY <1>10, <1>11, <1>13, <1>14
<1>17. Install(s, l, isW, ts, w, col1, dir1, e.dirty, TRUE)
  BY <1>7, <1>8, <1>9, <1>10, <1>13 DEF Install
<1>18. e.dirty \in BOOLEAN
  BY DEF Entry
<1>. QED
  BY <1>1, <1>4, <1>12, <1>14, <1>15, <1>16, <1>17, <1>18, InstallKeepsIInv

\* The empty caches and directory of init_caches agree.
LEMMA InitIInv == Init => IInv
<1>. SUFFICES ASSUME Init PROVE IInv
  OBVIOUS
<1>1. TypeOK
  <2>1. [tag |-> NoTag, valid |-> FALSE, dirty |-> FALSE, cstate |-> "I", ts |-> 0] \in Entry
    BY ConstantsAssumption DEF Entry, CohStates
  <2>2. [state |-> "I", owner |-> 0, sharers |-> {}] \in DirectoryEntry
    BY ConstantsAssumption DEF DirectoryEntry, CohStates, Sockets
  <2>3. simstats \in Stats
    BY DEF Init, Stats
  <2>. QED
    BY <2>1, <2>2, <2>3 DEF Init, TypeOK
<1>2. NoAssertFails /\ MissAccounting
  BY DEF Init, NoAssertFails, MissAccounting
<1>3. ASSUME NEW h \in Sets PROVE SetAgrees(caches[h], CCD, h)
  <2>1. \A s \in Sockets, w \in Ways : caches[h][s][w].valid = FALSE
    BY DEF Init
  <2>2. \A l \in Lines : CCD[l].state = "I" /\ CCD[l].sharers = {}
    BY DEF Init
  <2>. QED
    BY <2>1, <2>2 DEF SetAgrees, EntryAgrees, UniqueIn, Holds, LineAgrees
<1>. QED
  BY <1>1, <1>2, <1>3 DEF IInv

\* One access by any socket preserves the invariant.
LEMMA NextKeepsIInv == IInv /\ [Next]_vars => IInv'
<1>. SUFFICES ASSUME IInv, [Next]_vars PROVE IInv'
  OBVIOUS
<1>1. CASE UNCHANGED vars
  BY <1>1 DEF vars, IInv, TypeOK, NoAssertFails, MissAccounting, SetAgrees,
              EntryAgrees, UniqueIn, Holds
<1>2. CASE Next
  <2>1. PICK s \in Sockets, l \in Lines, isW \in BOOLEAN, ts \in Timestamps :
          Access(s, l, isW, ts)
    BY <1>2 DEF Next
  <2>2. CASE Hit(s, l, isW, ts)
    BY <2>2, HitKeepsIInv
  <2>3. CASE FillInvalid(s, l, isW, ts)
    BY <2>3, FillInvalidKeepsIInv
  <2>4. CASE EvictAndFill(s, l, isW, ts)
    BY <2>4, EvictAndFillKeepsIInv
  <2>. QED
    BY <2>1, <2>2, <2>3, <2>4 DEF Access
<1>. QED
  BY <1>1, <1>2

\* The inductive invariant holds of every reachable state.
LEMMA IInvHolds == Spec => []IInv
BY InitIInv, NextKeepsIInv, PTL DEF Spec

-----------------------------------------------------------------------------
(* The theorems.                                                           *)

\* Whatever the sockets access, owner stays a socket, tags stay lines and the
\* counters natural numbers.
THEOREM TypeCorrect == Spec => []TypeOK
<1>1. IInv => TypeOK
  BY DEF IInv
<1>. QED
  BY <1>1, IInvHolds, PTL

\* No assert of access_cache or update_directory can fail: those about the
\* owner's copy (coherence_replay.hpp 137, 158, 211, 234), about the evicted
\* entry and the sharer it leaves, and the closing ones.
THEOREM AssertsHold == Spec => []NoAssertFails
<1>1. IInv => NoAssertFails
  BY DEF IInv
<1>. QED
  BY <1>1, IInvHolds, PTL

\* The directory's sharers of a line are exactly the sockets with a valid copy.
THEOREM DirectoryExact == Spec => []DirectoryMatchesCaches
<1>1. IInv => DirectoryMatchesCaches
  <2>. SUFFICES ASSUME IInv, NEW l \in Lines, NEW s \in Sockets
                PROVE  s \in CCD[l].sharers <=> HitWay(caches[SetIndex(l)][s], l) # {}
    BY DEF DirectoryMatchesCaches
  <2>1. SetIndex(l) \in Sets
    BY SetIndexType
  <2>2. /\ UniqueIn(caches[SetIndex(l)][s], l)
        /\ s \in CCD[l].sharers <=> \E w \in Ways : Holds(caches[SetIndex(l)][s], l, w)
    BY <2>1 DEF IInv, SetAgrees
  <2>3. \A w \in Ways : w \in HitWay(caches[SetIndex(l)][s], l)
                          <=> Holds(caches[SetIndex(l)][s], l, w)
    BY <2>2, HitWayIsHolder
  <2>4. HitWay(caches[SetIndex(l)][s], l) \subseteq Ways
    BY DEF HitWay
  <2>. QED
    BY <2>2, <2>3, <2>4
<1>. QED
  BY <1>1, IInvHolds, PTL

\* Every valid entry has its line's directory state, is dirty exactly in M and
\* is the only copy of the line its socket has.
THEOREM EntriesExact == Spec => []EntriesMatchDirectory
<1>1. IInv => EntriesMatchDirectory
  <2>. SUFFICES ASSUME IInv, NEW h \in Sets, NEW s \in Sockets, NEW w \in Ways,
                       caches[h][s][w].valid
                PROVE  /\ caches[h][s][w].tag \in Lines
                       /\ SetIndex(caches[h][s][w].tag) = h
                       /\ caches[h][s][w].cstate = CCD[caches[h][s][w].tag].state
                       /\ caches[h][s][w].dirty = (caches[h][s][w].cstate = "M")
                       /\ \A v \in Ways : Holds(caches[h][s], caches[h][s][w].tag, v) => v = w
    BY DEF EntriesMatchDirectory
  <2>1. SetAgrees(caches[h], CCD, h)
    BY DEF IInv
  <2>2. EntryAgrees(caches[h][s][w], CCD, h)
    BY <2>1 DEF SetAgrees
  <2>3. UniqueIn(caches[h][s], caches[h][s][w].tag)
    BY <2>1, <2>2 DEF SetAgrees, EntryAgrees
  <2>4. Holds(caches[h][s], caches[h][s][w].tag, w)
    BY DEF Holds
  <2>. QED
    BY <2>2, <2>3, <2>4 DEF EntryAgrees, UniqueIn
<1>. QED
  BY <1>1, IInvHolds, PTL

\* The directory state tells how many sharers a line has.
THEOREM SharersExact == Spec => []SharersMatchState
<1>1. IInv => SharersMatchState
  BY SetIndexType DEF IInv, SetAgrees, LineAgrees, SharersMatchState
<1>. QED
  BY <1>1, IInvHolds, PTL

\* While a socket has a line dirty no other socket has a valid copy of it.
THEOREM SingleWriterHolds == Spec => []SingleWriter
<1>1. IInv => SingleWriter
  <2>. SUFFICES ASSUME IInv, NEW h \in Sets, NEW s \in Sockets, NEW t \in Sockets,
                       NEW w \in Ways, NEW v \in Ways,
                       caches[h][s][w].valid, caches[h][s][w].dirty,
                       Holds(caches[h][t], caches[h][s][w].tag, v)
                PROVE  s = t
    BY DEF SingleWriter
  <2>1. SetAgrees(caches[h], CCD, h)
    BY DEF IInv
  <2>2. PICK l \in Lines : /\ l = caches[h][s][w].tag
                           /\ SetIndex(l) = h
                           /\ CCD[l].state = "M"
    <3>1. EntryAgrees(caches[h][s][w], CCD, h)
      BY <2>1 DEF SetAgrees
    <3>2. caches[h][s][w].dirty \in BOOLEAN
      BY DEF IInv, TypeOK, Entry
    <3>3. caches[h][s][w].cstate = "M"
      BY <3>1, <3>2 DEF EntryAgrees
    <3>. QED
      BY <3>1, <3>3 DEF EntryAgrees
  <2>3. CCD[l].sharers = {CCD[l].owner}
    BY <2>1, <2>2 DEF SetAgrees, LineAgrees
  <2>4. s \in CCD[l].sharers /\ t \in CCD[l].sharers
    BY <2>1, <2>2 DEF SetAgrees, Holds
  <2>. QED
    BY <2>3, <2>4
<1>. QED
  BY <1>1, IInvHolds, PTL

\* Mem Reads and C Block Transfer add up to LLC misses.
THEOREM MissesServedOnce == Spec => []MissAccounting
<1>1. IInv => MissAccounting
  BY DEF IInv
<1>. QED
  BY <1>1, IInvHolds, PTL

-----------------------------------------------------------------------------
(* The promise of CoherentSockets.  In a state of the invariant the        *)
(* directory alone tells the holders of a line and whether it is modified, *)
(* so a step refines the promise when its effect on the directory and the  *)
(* counters does.                                                          *)

\* Where a set agrees with the directory, the sockets that hold a line are its
\* sharers and a dirty copy exists exactly in state M.
LEMMA SetIsDirectory ==
    ASSUME NEW h, NEW column \in Column, NEW dir \in [Lines -> DirectoryEntry],
           SetAgrees(column, dir, h), NEW l \in Lines, SetIndex(l) = h
    PROVE  /\ {s \in Sockets : HitWay(column[s], l) # {}} = dir[l].sharers
           /\ (\E s \in Sockets, w \in Ways :
                 Holds(column[s], l, w) /\ column[s][w].dirty) <=> dir[l].state = "M"
<1>1. /\ dir[l] \in DirectoryEntry
      /\ LineAgrees(dir[l])
      /\ \A s \in Sockets : s \in dir[l].sharers <=> \E w \in Ways : Holds(column[s], l, w)
  BY DEF SetAgrees
<1>2. dir[l].sharers \subseteq Sockets
  BY <1>1 DEF DirectoryEntry
<1>3. ASSUME NEW s \in Sockets
      PROVE  HitWay(column[s], l) # {} <=> s \in dir[l].sharers
  <2>1. UniqueIn(column[s], l)
    BY DEF SetAgrees
  <2>2. \A w \in Ways : w \in HitWay(column[s], l) <=> Holds(column[s], l, w)
    BY <2>1, HitWayIsHolder
  <2>3. HitWay(column[s], l) \subseteq Ways
    BY DEF HitWay
  <2>. QED
    BY <1>1, <2>2, <2>3
<1>4. \A s \in Sockets, w \in Ways : Holds(column[s], l, w) =>
        /\ column[s][w].dirty = (column[s][w].cstate = "M")
        /\ column[s][w].cstate = dir[l].state
  BY DEF SetAgrees, EntryAgrees, Holds
<1>5. ASSUME dir[l].state = "M"
      PROVE  \E s \in Sockets, w \in Ways : Holds(column[s], l, w) /\ column[s][w].dirty
  <2>1. PICK s \in Sockets : s \in dir[l].sharers
    BY <1>1, <1>2, <1>5 DEF LineAgrees
  <2>2. PICK w \in Ways : Holds(column[s], l, w)
    BY <1>1, <2>1
  <2>3. column[s][w].dirty = (column[s][w].cstate = "M") /\ column[s][w].cstate = "M"
    BY <1>4, <1>5, <2>2
  <2>4. column[s][w].dirty
    BY <2>3, Zenon
  <2>. QED
    BY <2>2, <2>4
<1>6. ASSUME NEW s \in Sockets, NEW w \in Ways, Holds(column[s], l, w), column[s][w].dirty
      PROVE  dir[l].state = "M"
  BY <1>4, <1>6
<1>. QED
  BY <1>2, <1>3, <1>5, <1>6

\* The mapped state, read off the directory.
DirectoryTells ==
    /\ \A l \in Lines :
         /\ {s \in Sockets : HitWay(caches[SetIndex(l)][s], l) # {}} = CCD[l].sharers
         /\ (\E s \in Sockets, w \in Ways :
               Holds(caches[SetIndex(l)][s], l, w) /\ caches[SetIndex(l)][s][w].dirty)
              <=> CCD[l].state = "M"
         /\ LineAgrees(CCD[l])
    /\ CCD \in [Lines -> DirectoryEntry]
    /\ simstats \in Stats

\* In every state of the invariant the directory tells the mapped state.
LEMMA IInvTells == IInv => DirectoryTells
<1>. SUFFICES ASSUME IInv PROVE DirectoryTells
  OBVIOUS
<1>1. CCD \in [Lines -> DirectoryEntry] /\ simstats \in Stats
  BY DEF IInv, TypeOK
<1>2. ASSUME NEW l \in Lines
      PROVE  /\ {s \in Sockets : HitWay(caches[SetIndex(l)][s], l) # {}} = CCD[l].sharers
             /\ (\E s \in Sockets, w \in Ways :
                   Holds(caches[SetIndex(l)][s], l, w) /\ caches[SetIndex(l)][s][w].dirty)
                  <=> CCD[l].state = "M"
             /\ LineAgrees(CCD[l])
  <2>1. PICK h \in Sets : h = SetIndex(l)
    BY SetIndexType
  <2>2. PICK column \in Column : column = caches[h]
    BY DEF IInv, TypeOK, Column
  <2>3. SetAgrees(column, CCD, h)
    BY <2>2 DEF IInv
  <2>4. LineAgrees(CCD[l])
    BY <2>1, <2>3 DEF SetAgrees
  <2>5. /\ {s \in Sockets : HitWay(column[s], l) # {}} = CCD[l].sharers
        /\ (\E s \in Sockets, w \in Ways :
              Holds(column[s], l, w) /\ column[s][w].dirty) <=> CCD[l].state = "M"
    BY <1>1, <2>1, <2>3, SetIsDirectory
  <2>. QED
    BY <2>1, <2>2, <2>4, <2>5
<1>. QED
  BY <1>1, <1>2 DEF DirectoryTells

\* The number of holders, counted, tells the same as the directory's state.
LEMMA StateCountsSharers ==
    ASSUME NEW de \in DirectoryEntry, LineAgrees(de)
    PROVE  /\ Cardinality(de.sharers) \in Nat
           /\ de.state = "I" => Cardinality(de.sharers) = 0
           /\ de.state \in {"E", "M"} => Cardinality(de.sharers) = 1
           /\ de.state = "S" => Cardinality(de.sharers) > 1
<1>1. IsFiniteSet(Sockets)
  BY FS_Interval, ConstantsAssumption DEF Sockets
<1>2. de.sharers \in SUBSET Sockets
  BY DEF DirectoryEntry
<1>3. IsFiniteSet(de.sharers) /\ Cardinality(de.sharers) \in Nat
  BY <1>1, <1>2, FS_Subset, FS_CardinalityType
<1>4. de.state = "S" => Cardinality(de.sharers) > 1
  <2>. SUFFICES ASSUME de.state = "S" PROVE Cardinality(de.sharers) > 1
    OBVIOUS
  <2>1. de.owner \in de.sharers /\ de.sharers # {de.owner}
    BY DEF LineAgrees
  <2>2. \A x : de.sharers # {x}
    BY <2>1
  <2>3. Cardinality(de.sharers) # 1
    BY <2>2, <1>3, FS_Singleton
  <2>4. Cardinality(de.sharers) # 0
    BY <2>1, <1>3, FS_EmptySet
  <2>. QED
    BY <2>3, <2>4, <1>3
<1>. QED
  BY <1>3, <1>4, FS_EmptySet, FS_Singleton DEF LineAgrees

\* What an access costs, told from the directory entry, is what it costs told
\* from the number of holders and from whether the line is modified.
LEMMA CostsAgree ==
    ASSUME NEW de \in DirectoryEntry, LineAgrees(de), NEW s \in Sockets,
           NEW isW \in BOOLEAN
    PROVE  LET miss == s \notin de.sharers
               held == Cardinality(de.sharers)
           IN /\ ReadsMemory(de, s) <=> miss /\ held # 1
              /\ OwnedElsewhere(de, s) <=> miss /\ held = 1
              /\ de.state = "S" <=> held > 1
              /\ WritesBackForSharing(de, s, isW) <=> ~isW /\ miss /\ de.state = "M"
<1>1. de.state \in CohStates
  BY DEF DirectoryEntry
<1>2. /\ Cardinality(de.sharers) \in Nat
      /\ de.state = "I" => Cardinality(de.sharers) = 0
      /\ de.state \in {"E", "M"} => Cardinality(de.sharers) = 1
      /\ de.state = "S" => Cardinality(de.sharers) > 1
  BY StateCountsSharers
<1>3. PICK held \in Nat : held = Cardinality(de.sharers)
  BY <1>2
<1>4. CASE de.state = "I"
  <2>1. held = 0 /\ s \notin de.sharers
    BY <1>2, <1>3, <1>4 DEF LineAgrees
  <2>. QED
    BY <2>1, <1>3, <1>4 DEF ReadsMemory, OwnedElsewhere, WritesBackForSharing
<1>5. CASE de.state = "S"
  <2>1. held > 1
    BY <1>2, <1>3, <1>5
  <2>2. held # 1
    BY <2>1
  <2>. QED
    BY <2>1, <2>2, <1>3, <1>5 DEF ReadsMemory, OwnedElsewhere, WritesBackForSharing
<1>6. CASE de.state \in {"E", "M"}
  <2>1. held = 1 /\ de.sharers = {de.owner}
    BY <1>2, <1>3, <1>6 DEF LineAgrees
  <2>2. ~(held > 1)
    BY <2>1
  <2>. QED
    BY <2>1, <2>2, <1>3, <1>6 DEF ReadsMemory, OwnedElsewhere, WritesBackForSharing
<1>. QED
  BY <1>1, <1>4, <1>5, <1>6 DEF CohStates

\* What an access makes of the directory, apart from the new owner of a line
\* it evicts: the accessed line gets the entry of update_directory, the evicted
\* ones lose the socket, and are no longer modified
DirectoryStep(dir, dir1, s, l, isW, victims) ==
    /\ dir1[l] = DirectoryAfter(dir[l], s, isW)
    /\ \A m \in Lines \ {l} :
         /\ dir1[m].sharers = IF m \in victims THEN dir[m].sharers \ {s} ELSE dir[m].sharers
         /\ dir1[m].state = "M" <=> dir[m].state = "M" /\ m \notin victims

VictimsOf(dir, s, l, victims) ==
    \/ victims = {}
    \/ /\ s \notin dir[l].sharers
       /\ \E v \in Lines \ {l} : victims = {v} /\ s \in dir[v].sharers

ModifiedIn(dir) == {m \in Lines : dir[m].state = "M"}

HoldersChange(dir, dir1, s, l, isW, victims) ==
    /\ [m \in Lines |-> dir1[m].sharers] =
       [m \in Lines |->
          IF m = l THEN (IF isW THEN {} ELSE dir[l].sharers) \cup {s}
          ELSE IF m \in victims THEN dir[m].sharers \ {s}
          ELSE dir[m].sharers]
    /\ ModifiedIn(dir1) =
       IF isW THEN (ModifiedIn(dir) \ victims) \cup {l}
       ELSE IF s \notin dir[l].sharers THEN (ModifiedIn(dir) \ victims) \ {l}
       ELSE ModifiedIn(dir)

\* The holders and the modified lines change as AccessLine says.
LEMMA DirectoryStepEffect ==
    ASSUME NEW dir \in [Lines -> DirectoryEntry], NEW dir1 \in [Lines -> DirectoryEntry],
           NEW s \in Sockets, NEW l \in Lines, NEW isW \in BOOLEAN,
           LineAgrees(dir[l]), NEW victims, VictimsOf(dir, s, l, victims),
           DirectoryStep(dir, dir1, s, l, isW, victims)
    PROVE  HoldersChange(dir, dir1, s, l, isW, victims)
<1>1. PICK de \in DirectoryEntry : de = dir[l]
  OBVIOUS
<1>2. PICK after : after = DirectoryAfter(de, s, isW)
  OBVIOUS
<1>3. /\ after.sharers = (IF isW THEN {} ELSE de.sharers) \cup {s}
      /\ after.state = "M" <=> isW \/ (s \in de.sharers /\ de.state = "M")
  <2>1. CASE s \in de.sharers
    <3>1. /\ isW => after.sharers = {s} /\ after.state = "M"
          /\ ~isW => after.sharers = de.sharers /\ after.state = de.state
      BY <1>1, <1>2, <2>1, DirectoryAfterHit
    <3>. QED
      BY <3>1, <2>1
  <2>2. CASE s \notin de.sharers
    <3>1. /\ isW => after.sharers = {s} /\ after.state = "M"
          /\ ~isW => after.sharers = de.sharers \cup {s}
          /\ ~isW /\ de.state = "I" => after.state = "E"
          /\ ~isW /\ de.state # "I" => after.state = "S"
      BY <1>1, <1>2, <2>2, DirectoryAfterMiss
    <3>. QED
      BY <3>1, <2>2
  <2>. QED
    BY <2>1, <2>2
<1>4. dir1[l] = after
  BY <1>1, <1>2 DEF DirectoryStep
<1>5. \A m \in Lines \ {l} :
        /\ dir1[m].sharers = IF m \in victims THEN dir[m].sharers \ {s} ELSE dir[m].sharers
        /\ dir1[m].state = "M" <=> dir[m].state = "M" /\ m \notin victims
  BY DEF DirectoryStep
<1>6. l \notin victims /\ (s \in de.sharers => victims = {})
  BY <1>1 DEF VictimsOf
<1>7. ASSUME NEW m \in Lines
      PROVE  dir1[m].sharers = IF m = l THEN (IF isW THEN {} ELSE dir[l].sharers) \cup {s}
                               ELSE IF m \in victims THEN dir[m].sharers \ {s}
                               ELSE dir[m].sharers
  BY <1>1, <1>3, <1>4, <1>5
<1>8. ASSUME NEW m \in Lines
      PROVE  dir1[m].state = "M" <=>
               m \in IF isW THEN (ModifiedIn(dir) \ victims) \cup {l}
                     ELSE IF s \notin dir[l].sharers THEN (ModifiedIn(dir) \ victims) \ {l}
                     ELSE ModifiedIn(dir)
  <2>1. CASE m = l
    BY <2>1, <1>1, <1>3, <1>4, <1>6 DEF ModifiedIn
  <2>2. CASE m # l
    BY <2>2, <1>1, <1>5, <1>6 DEF ModifiedIn
  <2>. QED
    BY <2>1, <2>2
<1>9. ModifiedIn(dir) \subseteq Lines
  BY DEF ModifiedIn
<1>10. ModifiedIn(dir1) =
         IF isW THEN (ModifiedIn(dir) \ victims) \cup {l}
         ELSE IF s \notin dir[l].sharers THEN (ModifiedIn(dir) \ victims) \ {l}
         ELSE ModifiedIn(dir)
  BY <1>8, <1>9 DEF ModifiedIn
<1>. QED
  BY <1>7, <1>10 DEF HoldersChange

\* An access by socket s of line l, said of the directory and the counters
DirectoryAccess(s, l, isW, victims) ==
    \E hit \in BOOLEAN, wroteBack \in BOOLEAN :
        /\ VictimsOf(CCD, s, l, victims)
        /\ DirectoryStep(CCD, CCD', s, l, isW, victims)
        /\ wroteBack <=> \E v \in victims : CCD[v].state = "M"
        /\ simstats' = Counted(simstats, hit, wroteBack, CCD[l], s, isW)

\* A hit is such an access, without victims.
LEMMA HitDirectory ==
    ASSUME IInv, NEW s \in Sockets, NEW l \in Lines, NEW isW \in BOOLEAN,
           NEW ts \in Timestamps, Hit(s, l, isW, ts)
    PROVE  DirectoryAccess(s, l, isW, {})
<1>1. CCD \in [Lines -> DirectoryEntry]
  BY DEF IInv, TypeOK
<1>2. /\ CCD' = [CCD EXCEPT ![l] = DirectoryAfter(CCD[l], s, isW)]
      /\ simstats' = Counted(simstats, TRUE, FALSE, CCD[l], s, isW)
  BY DEF Hit
<1>3. DirectoryStep(CCD, CCD', s, l, isW, {})
  BY <1>1, <1>2 DEF DirectoryStep
<1>4. VictimsOf(CCD, s, l, {})
  BY DEF VictimsOf
<1>. QED
  BY <1>2, <1>3, <1>4 DEF DirectoryAccess

\* So is a miss filled into an invalid way.
LEMMA FillInvalidDirectory ==
    ASSUME IInv, NEW s \in Sockets, NEW l \in Lines, NEW isW \in BOOLEAN,
           NEW ts \in Timestamps, FillInvalid(s, l, isW, ts)
    PROVE  DirectoryAccess(s, l, isW, {})
<1>1. CCD \in [Lines -> DirectoryEntry]
  BY DEF IInv, TypeOK
<1>2. /\ CCD' = [CCD EXCEPT ![l] = DirectoryAfter(CCD[l], s, isW)]
      /\ simstats' = Counted(simstats, FALSE, FALSE, CCD[l], s, isW)
  BY DEF FillInvalid, Install
<1>3. DirectoryStep(CCD, CCD', s, l, isW, {})
  BY <1>1, <1>2 DEF DirectoryStep
<1>4. VictimsOf(CCD, s, l, {})
  BY DEF VictimsOf
<1>. QED
  BY <1>2, <1>3, <1>4 DEF DirectoryAccess

\* A miss that evicts has the line of the oldest way as its victim, and writes
\* it back exactly when the directory has it as modified.
LEMMA EvictAndFillDirectory ==
    ASSUME IInv, NEW s \in Sockets, NEW l \in Lines, NEW isW \in BOOLEAN,
           NEW ts \in Timestamps, EvictAndFill(s, l, isW, ts)
    PROVE  \E v \in Lines : DirectoryAccess(s, l, isW, {v})
<1>1. PICK h \in Sets : h = SetIndex(l)
  BY SetIndexType
<1>2. PICK column \in Column : column = caches[h]
  BY DEF IInv, TypeOK, Column
<1>3. PICK w \in LruWay(column[s]) :
        \E o \in OwnerAfterEviction(CCD[column[s][w].tag], s) :
          Install(s, l, isW, ts, w,
                  EvictedColumn(column, column[s][w], CCD[column[s][w].tag], s, o),
                  [CCD EXCEPT ![column[s][w].tag] =
                     EvictedDirectory(column[s][w], CCD[column[s][w].tag], s, o)],
                  column[s][w].dirty,
                  EvictionAsserts(column[s][w], CCD[column[s][w].tag], s, o))
  BY <1>1, <1>2 DEF EvictAndFill
<1>4. w \in Ways /\ column[s][w].valid
  BY <1>1, <1>2, <1>3 DEF EvictAndFill, LruWay
<1>5. PICK e \in Entry : e = column[s][w]
  BY <1>4 DEF Column
<1>6. PICK de : de = CCD[e.tag]
  OBVIOUS
<1>7. PICK o \in OwnerAfterEviction(de, s) :
        Install(s, l, isW, ts, w, EvictedColumn(column, e, de, s, o),
                [CCD EXCEPT ![e.tag] = EvictedDirectory(e, de, s, o)],
                e.dirty, EvictionAsserts(e, de, s, o))
  BY <1>3, <1>5, <1>6
<1>8. PICK de1 : de1 = EvictedDirectory(e, de, s, o)
  OBVIOUS
<1>9. PICK dir1 : dir1 = [CCD EXCEPT ![e.tag] = de1]
  OBVIOUS
<1>10. SetAgrees(column, CCD, h) /\ CCD \in [Lines -> DirectoryEntry]
  BY <1>2 DEF IInv, TypeOK
<1>11. \A x \in Ways : ~Holds(column[s], l, x)
  BY <1>1, <1>2, <1>10, HitWayIsHolder DEF EvictAndFill, SetAgrees
<1>12. e.tag \in Lines \ {l}
  <2>1. e.tag \in Lines
    BY <1>4, <1>5, <1>10 DEF SetAgrees, EntryAgrees
  <2>2. e.tag # l
    BY <1>4, <1>5, <1>11 DEF Holds
  <2>. QED
    BY <2>1, <2>2
<1>13. /\ s \in de.sharers
       /\ de1.sharers = de.sharers \ {s}
       /\ de1.state # "M"
       /\ e.dirty <=> de.state = "M"
  <2>1. EvictionKnown(h, e, de, s, o)
    BY <1>4, <1>5, <1>6, <1>10, EvictionIsKnown
  <2>2. e.dirty \in BOOLEAN
    BY DEF Entry
  <2>3. /\ s \in de.sharers
        /\ e.dirty => de.state = "M"
        /\ ~e.dirty => de.state \in {"E", "S"}
    BY <2>1 DEF EvictionKnown, EvictionAsserts
  <2>4. CASE e.dirty \/ de.state = "E"
    <3>1. de1 = [de EXCEPT !.state = "I", !.sharers = @ \ {s}]
      BY <2>4, <1>8 DEF EvictedDirectory
    <3>2. de \in DirectoryEntry
      BY <1>6, <1>10, <1>12
    <3>3. de1.sharers = de.sharers \ {s} /\ de1.state = "I"
      BY <3>1, <3>2 DEF DirectoryEntry
    <3>. QED
      BY <3>3, <2>2, <2>3
  <2>5. CASE ~(e.dirty \/ de.state = "E")
    <3>1. de1 = [state   |-> IF LeavesOneSharer(e, de, s, o) THEN "E" ELSE de.state,
                 owner   |-> o,
                 sharers |-> de.sharers \ {s}]
      BY <2>5, <1>8 DEF EvictedDirectory
    <3>. QED
      BY <3>1, <2>2, <2>3, <2>5
  <2>. QED
    BY <2>4, <2>5
<1>14. Install(s, l, isW, ts, w, EvictedColumn(column, e, de, s, o), dir1,
               e.dirty, EvictionAsserts(e, de, s, o))
  BY <1>7, <1>8, <1>9
<1>15. dir1[l] = CCD[l] /\ dir1 = [CCD EXCEPT ![e.tag] = de1]
  BY <1>9, <1>10, <1>12
<1>16. /\ CCD' = [dir1 EXCEPT ![l] = DirectoryAfter(dir1[l], s, isW)]
       /\ simstats' = Counted(simstats, FALSE, e.dirty, dir1[l], s, isW)
  BY <1>14 DEF Install
<1>17. s \notin CCD[l].sharers
  BY <1>1, <1>10, <1>11 DEF SetAgrees
<1>18. VictimsOf(CCD, s, l, {e.tag})
  BY <1>6, <1>12, <1>13, <1>17 DEF VictimsOf
<1>19. DirectoryStep(CCD, CCD', s, l, isW, {e.tag})
  <2>1. CCD'[l] = DirectoryAfter(CCD[l], s, isW)
    BY <1>10, <1>12, <1>15, <1>16
  <2>2. ASSUME NEW m \in Lines \ {l}
        PROVE  /\ CCD'[m].sharers = IF m \in {e.tag} THEN CCD[m].sharers \ {s}
                                    ELSE CCD[m].sharers
               /\ CCD'[m].state = "M" <=> CCD[m].state = "M" /\ m \notin {e.tag}
    <3>1. CCD'[m] = IF m = e.tag THEN de1 ELSE CCD[m]
      BY <1>10, <1>12, <1>15, <1>16
    <3>. QED
      BY <3>1, <1>6, <1>13
  <2>. QED
    BY <2>1, <2>2 DEF DirectoryStep
<1>20. /\ e.dirty \in BOOLEAN
       /\ e.dirty <=> \E v \in {e.tag} : CCD[v].state = "M"
  BY <1>6, <1>13 DEF Entry
<1>21. DirectoryAccess(s, l, isW, {e.tag})
  <2>1. simstats' = Counted(simstats, FALSE, e.dirty, CCD[l], s, isW)
    BY <1>15, <1>16
  <2>. QED
    BY <2>1, <1>18, <1>19, <1>20 DEF DirectoryAccess
<1>. QED
  BY <1>12, <1>21

\* The mapped state, told by the directory
Mapped ==
    /\ \A l \in Lines : HoldersOf(l) = CCD[l].sharers
    /\ DirtyLines = {l \in Lines : CCD[l].state = "M"}

\* The holders are the directory's sharers, the dirty lines those in state M.
LEMMA IInvMaps == IInv => Mapped
<1>. SUFFICES ASSUME IInv PROVE Mapped
  OBVIOUS
<1>1. DirectoryTells
  BY IInvTells
<1>. QED
  BY <1>1 DEF DirectoryTells, Mapped, HoldersOf, DirtyLines

\* The counters of an access map to the traffic of AccessLine.
LEMMA MappedTraffic ==
    ASSUME NEW st \in Stats, NEW hit \in BOOLEAN, NEW wroteBack \in BOOLEAN,
           NEW de \in DirectoryEntry, LineAgrees(de), NEW s \in Sockets,
           NEW isW \in BOOLEAN, NEW cost, Count(wroteBack) = cost
    PROVE  TrafficOf(Counted(st, hit, wroteBack, de, s, isW)) =
             LET miss == s \notin de.sharers
                 held == Cardinality(de.sharers)
                 t    == TrafficOf(st)
             IN [memReads |-> t.memReads + Promised!One(miss /\ held # 1),
                 transfers |-> t.transfers + Promised!One(miss /\ held = 1),
                 invalidations |-> t.invalidations + Promised!One(isW /\ held > 1),
                 writeBacks |-> t.writeBacks + cost,
                 sharingWriteBacks |-> t.sharingWriteBacks
                                   + Promised!One(~isW /\ miss /\ de.state = "M")]
<1>1. PICK miss : miss = (s \notin de.sharers)
  OBVIOUS
<1>2. PICK held : held = Cardinality(de.sharers)
  OBVIOUS
<1>3. /\ ReadsMemory(de, s) <=> miss /\ held # 1
      /\ OwnedElsewhere(de, s) <=> miss /\ held = 1
      /\ de.state = "S" <=> held > 1
      /\ WritesBackForSharing(de, s, isW) <=> ~isW /\ miss /\ de.state = "M"
  BY <1>1, <1>2, CostsAgree
<1>4. /\ Count(ReadsMemory(de, s)) = Promised!One(miss /\ held # 1)
      /\ Count(OwnedElsewhere(de, s)) = Promised!One(miss /\ held = 1)
      /\ Count(isW /\ de.state = "S") = Promised!One(isW /\ held > 1)
      /\ Count(WritesBackForSharing(de, s, isW))
           = Promised!One(~isW /\ miss /\ de.state = "M")
  BY <1>3 DEF Count, Promised!One
<1>. QED
  BY <1>1, <1>2, <1>4 DEF Counted, TrafficOf

\* An access, said of the directory and the counters, is an AccessLine of the
\* mapped state, with the victims of the code as its victims.
LEMMA DirectoryAccessMaps ==
    ASSUME IInv, IInv', NEW s \in Sockets, NEW l \in Lines, NEW isW \in BOOLEAN,
           NEW victims, DirectoryAccess(s, l, isW, victims)
    PROVE  /\ victims \in Promised!Victims(s, l)
           /\ Promised!AccessLine(s, l, isW, victims)
<1>1. DirectoryTells /\ Mapped
  BY IInvTells, IInvMaps
<1>2. DirectoryTells' /\ Mapped'
  <2>1. IInv' => DirectoryTells'
    BY IInvTells, PTL
  <2>2. IInv' => Mapped'
    BY IInvMaps, PTL
  <2>. QED
    BY <2>1, <2>2
<1>3. PICK hit \in BOOLEAN, wroteBack \in BOOLEAN :
        /\ VictimsOf(CCD, s, l, victims)
        /\ DirectoryStep(CCD, CCD', s, l, isW, victims)
        /\ wroteBack <=> \E v \in victims : CCD[v].state = "M"
        /\ simstats' = Counted(simstats, hit, wroteBack, CCD[l], s, isW)
  BY DEF DirectoryAccess
<1>4. /\ CCD \in [Lines -> DirectoryEntry]
      /\ CCD' \in [Lines -> DirectoryEntry]
      /\ LineAgrees(CCD[l])
      /\ simstats \in Stats
  BY <1>1, <1>2 DEF DirectoryTells
<1>5. PICK dir \in [Lines -> DirectoryEntry], dir1 \in [Lines -> DirectoryEntry] :
        dir = CCD /\ dir1 = CCD'
  BY <1>4
<1>6. PICK dirty : dirty = ModifiedIn(dir)
  OBVIOUS
<1>7. /\ [m \in Lines |-> dir1[m].sharers] =
         [m \in Lines |->
            IF m = l THEN (IF isW THEN {} ELSE dir[l].sharers) \cup {s}
            ELSE IF m \in victims THEN dir[m].sharers \ {s}
            ELSE dir[m].sharers]
      /\ ModifiedIn(dir1) =
         IF isW THEN (dirty \ victims) \cup {l}
         ELSE IF s \notin dir[l].sharers THEN (dirty \ victims) \ {l}
         ELSE dirty
  <2>1. /\ LineAgrees(dir[l])
        /\ VictimsOf(dir, s, l, victims)
        /\ DirectoryStep(dir, dir1, s, l, isW, victims)
    BY <1>3, <1>4, <1>5
  <2>. QED
    <3>1. HoldersChange(dir, dir1, s, l, isW, victims)
      BY <2>1, DirectoryStepEffect
    <3>. QED
      BY <3>1, <1>6 DEF HoldersChange
<1>8. Count(wroteBack) = Cardinality(victims \cap dirty)
  <2>1. wroteBack <=> \E v \in victims : dir[v].state = "M"
    BY <1>3, <1>5
  <2>2. CASE victims = {}
    BY <2>1, <2>2, FS_EmptySet DEF Count
  <2>3. CASE \E v \in Lines : victims = {v}
    <3>1. PICK v \in Lines : victims = {v}
      BY <2>3
    <3>2. CASE v \in dirty
      <4>1. victims \cap dirty = {v} /\ wroteBack
        BY <3>1, <3>2, <2>1, <1>6 DEF ModifiedIn
      <4>. QED
        BY <4>1, FS_Singleton DEF Count
    <3>3. CASE v \notin dirty
      <4>1. victims \cap dirty = {} /\ ~wroteBack
        BY <3>1, <3>3, <2>1, <1>6 DEF ModifiedIn
      <4>. QED
        BY <4>1, FS_EmptySet DEF Count
    <3>. QED
      BY <3>2, <3>3
  <2>. QED
    BY <2>2, <2>3, <1>3 DEF VictimsOf
<1>9. PICK hs, hs1 : /\ hs = [m \in Lines |-> HoldersOf(m)]
                     /\ hs1 = [m \in Lines |-> HoldersOf(m)']
  OBVIOUS
<1>10. /\ hs = [m \in Lines |-> dir[m].sharers]
       /\ hs1 = [m \in Lines |-> dir1[m].sharers]
       /\ DirtyLines = dirty
       /\ DirtyLines' = ModifiedIn(dir1)
  BY <1>1, <1>2, <1>5, <1>6, <1>9 DEF Mapped, ModifiedIn
<1>11. l \in dirty <=> dir[l].state = "M"
  BY <1>6 DEF ModifiedIn
<1>12. victims \in Promised!Victims(s, l)
  <2>1. VictimsOf(dir, s, l, victims)
    BY <1>3, <1>5
  <2>. QED
    BY <2>1, <1>9, <1>10 DEF VictimsOf, Promised!Victims
<1>13. hs1 = [m \in Lines |->
                IF m = l THEN (IF isW THEN {} ELSE hs[l]) \cup {s}
                ELSE IF m \in victims THEN hs[m] \ {s}
                ELSE hs[m]]
  BY <1>7, <1>10
<1>14. DirtyLines' = IF isW THEN (DirtyLines \ victims) \cup {l}
                     ELSE IF s \notin hs[l] THEN (DirtyLines \ victims) \ {l}
                     ELSE DirtyLines
  BY <1>7, <1>10
<1>15. PICK t : t = TrafficOf(simstats)
  OBVIOUS
<1>16. TrafficOf(simstats)' =
         [memReads |-> t.memReads + Promised!One(s \notin hs[l] /\ Cardinality(hs[l]) # 1),
          transfers |-> t.transfers + Promised!One(s \notin hs[l] /\ Cardinality(hs[l]) = 1),
          invalidations |-> t.invalidations + Promised!One(isW /\ Cardinality(hs[l]) > 1),
          writeBacks |-> t.writeBacks + Cardinality(victims \cap DirtyLines),
          sharingWriteBacks |-> t.sharingWriteBacks
                            + Promised!One(~isW /\ s \notin hs[l] /\ l \in DirtyLines)]
  <2>1. PICK de \in DirectoryEntry : de = dir[l]
    OBVIOUS
  <2>2. /\ LineAgrees(de)
        /\ simstats' = Counted(simstats, hit, wroteBack, de, s, isW)
    BY <1>3, <1>4, <1>5, <2>1
  <2>3. TrafficOf(Counted(simstats, hit, wroteBack, de, s, isW)) =
          [memReads |-> t.memReads
              + Promised!One(s \notin de.sharers /\ Cardinality(de.sharers) # 1),
           transfers |-> t.transfers
              + Promised!One(s \notin de.sharers /\ Cardinality(de.sharers) = 1),
           invalidations |-> t.invalidations
              + Promised!One(isW /\ Cardinality(de.sharers) > 1),
           writeBacks |-> t.writeBacks + Cardinality(victims \cap dirty),
           sharingWriteBacks |-> t.sharingWriteBacks
              + Promised!One(~isW /\ s \notin de.sharers /\ de.state = "M")]
    BY <2>2, <1>4, <1>8, <1>15, MappedTraffic
  <2>4. hs[l] = de.sharers /\ (l \in DirtyLines <=> de.state = "M")
    BY <2>1, <1>10, <1>11
  <2>5. Promised!One(~isW /\ s \notin hs[l] /\ l \in DirtyLines)
          = Promised!One(~isW /\ s \notin de.sharers /\ de.state = "M")
    BY <2>4 DEF Promised!One
  <2>6. TrafficOf(simstats)' = TrafficOf(Counted(simstats, hit, wroteBack, de, s, isW))
    BY <2>2 DEF TrafficOf
  <2>. QED
    BY <2>3, <2>4, <2>5, <2>6, <1>10
<1>17. \A S : Promised!Cardinality(S) = Cardinality(S)
  BY DEF Promised!Cardinality, Cardinality
<1>. QED
  BY <1>9, <1>12, <1>13, <1>14, <1>15, <1>16, <1>17 DEF Promised!AccessLine

\* Every access is an AccessLine.
LEMMA NextMaps ==
    ASSUME IInv, IInv', Next
    PROVE  Promised!Next
<1>1. PICK s \in Sockets, l \in Lines, isW \in BOOLEAN, ts \in Timestamps :
        Access(s, l, isW, ts)
  BY DEF Next
<1>2. \E victims : DirectoryAccess(s, l, isW, victims)
  <2>1. CASE Hit(s, l, isW, ts)
    BY <2>1, HitDirectory
  <2>2. CASE FillInvalid(s, l, isW, ts)
    BY <2>2, FillInvalidDirectory
  <2>3. CASE EvictAndFill(s, l, isW, ts)
    BY <2>3, EvictAndFillDirectory
  <2>. QED
    BY <1>1, <2>1, <2>2, <2>3 DEF Access
<1>3. PICK victims : DirectoryAccess(s, l, isW, victims)
  BY <1>2
<1>4. /\ victims \in Promised!Victims(s, l)
      /\ Promised!AccessLine(s, l, isW, victims)
  BY <1>3, DirectoryAccessMaps
<1>. QED
  BY <1>4 DEF Promised!Next

\* The replay keeps the promise of CoherentSockets: whatever the sockets
\* access, each access costs what the holders of the line and the modified
\* lines say it costs, and changes these as promised.
THEOREM ReplayImplementsPromise == Spec => ImplementsCoherentSockets
<1>1. Init => Promised!Init
  <2>. SUFFICES ASSUME Init PROVE Promised!Init
    OBVIOUS
  <2>1. Mapped
    BY InitIInv, IInvMaps
  <2>2. \A l \in Lines : CCD[l].state = "I" /\ CCD[l].sharers = {}
    BY DEF Init
  <2>3. /\ [l \in Lines |-> HoldersOf(l)] = [l \in Lines |-> {}]
        /\ DirtyLines = {}
    BY <2>1, <2>2 DEF Mapped
  <2>4. TrafficOf(simstats) = [memReads |-> 0, transfers |-> 0, invalidations |-> 0,
                               writeBacks |-> 0, sharingWriteBacks |-> 0]
    BY DEF Init, TrafficOf
  <2>. QED
    BY <2>3, <2>4 DEF Promised!Init
<1>2. IInv /\ IInv' /\ [Next]_vars => [Promised!Next]_Promised!vars
  <2>. SUFFICES ASSUME IInv, IInv', [Next]_vars
                PROVE  [Promised!Next]_Promised!vars
    OBVIOUS
  <2>1. CASE Next
    BY <2>1, NextMaps
  <2>2. CASE UNCHANGED vars
    <3>1. caches' = caches /\ simstats' = simstats
      BY <2>2 DEF vars
    <3>2. \A l \in Lines : HoldersOf(l)' = HoldersOf(l)
      BY <3>1 DEF HoldersOf, HitWay, Holds
    <3>3. DirtyLines' = DirtyLines
      BY <3>1 DEF DirtyLines, Holds
    <3>4. TrafficOf(simstats)' = TrafficOf(simstats)
      BY <3>1 DEF TrafficOf
    <3>. QED
      BY <3>2, <3>3, <3>4 DEF Promised!vars
  <2>. QED
    BY <2>1, <2>2
<1>. QED
  BY <1>1, <1>2, IInvHolds, PTL DEF Spec, ImplementsCoherentSockets, Promised!Spec

-----------------------------------------------------------------------------
(* What the promise says of write-backs.                                   *)

AtMostOneOther(victims, l, miss) ==
    \/ victims = {}
    \/ miss /\ \E v : v # l /\ victims = {v}

ModifiedAfter(dirty, l, victims, isW, miss) ==
    IF isW THEN (dirty \ victims) \cup {l}
    ELSE IF miss THEN (dirty \ victims) \ {l}
    ELSE dirty

\* The lines an access takes out of the modified state are its victims, and
\* the accessed line when it starts to be shared.
LEMMA LinesLeaveModified ==
    ASSUME NEW dirty, NEW l, NEW victims, NEW isW \in BOOLEAN, NEW miss \in BOOLEAN,
           AtMostOneOther(victims, l, miss),
           NEW dirty1, dirty1 = ModifiedAfter(dirty, l, victims, isW, miss)
    PROVE  Cardinality(dirty \ dirty1) =
             Cardinality(victims \cap dirty)
             + (IF ~isW /\ miss /\ l \in dirty THEN 1 ELSE 0)
<1>. DEFINE out == victims \cap dirty
<1>1. IsFiniteSet(out) /\ Cardinality(out) \in Nat /\ l \notin out
  <2>1. IsFiniteSet(victims) /\ l \notin victims
    <3>1. CASE victims = {}
      BY <3>1, FS_EmptySet
    <3>2. CASE \E v : v # l /\ victims = {v}
      <4>1. PICK v : v # l /\ victims = {v}
        BY <3>2
      <4>. QED
        BY <4>1, FS_Singleton
    <3>. QED
      BY <3>1, <3>2 DEF AtMostOneOther
  <2>. QED
    BY <2>1, FS_Subset, FS_CardinalityType
<1>. HIDE DEF out
<1>2. CASE ~isW /\ miss /\ l \in dirty
  <2>1. dirty \ dirty1 = out \cup {l}
    BY <1>1, <1>2 DEF out, AtMostOneOther, ModifiedAfter
  <2>. QED
    BY <2>1, <1>1, <1>2, FS_AddElement DEF out
<1>3. CASE ~(~isW /\ miss /\ l \in dirty)
  <2>1. dirty \ dirty1 = out
    BY <1>1, <1>3 DEF out, AtMostOneOther, ModifiedAfter
  <2>. QED
    BY <2>1, <1>1, <1>3 DEF out
<1>. QED
  BY <1>2, <1>3

\* Mem Writes and Mem Writes_coh together grow by the number of lines an access
\* takes out of the modified state: no modified data is dropped, and none is
\* written back twice.
THEOREM WriteBacksExact == Spec => WriteBackAccounting
<1>. DEFINE Accounted ==
       simstats'.m_writes + simstats'.m_writes_from_coh
         = simstats.m_writes + simstats.m_writes_from_coh
           + Cardinality(DirtyLines \ DirtyLines')
<1>1. IInv /\ IInv' /\ [Next]_vars => [Accounted]_vars
  <2>. SUFFICES ASSUME IInv, IInv', Next PROVE Accounted
    OBVIOUS
  <2>0. PICK s \in Sockets, l \in Lines, isW \in BOOLEAN :
          \E victims \in Promised!Victims(s, l) : Promised!AccessLine(s, l, isW, victims)
    <3>1. Promised!Next
      BY NextMaps
    <3>. QED
      BY <3>1 DEF Promised!Next
  <2>1. PICK victims \in Promised!Victims(s, l) :
          Promised!AccessLine(s, l, isW, victims)
    BY <2>0
  <2>2. PICK hs : hs = [m \in Lines |-> HoldersOf(m)]
    OBVIOUS
  <2>3. PICK miss \in BOOLEAN : miss = (s \notin hs[l])
    OBVIOUS
  <2>4. \/ victims = {}
        \/ miss /\ \E v : v # l /\ victims = {v}
    <3>1. CASE s \in hs[l]
      <4>1. victims = {}
        BY <2>1, <2>2, <3>1 DEF Promised!Victims
      <4>. QED
        BY <4>1
    <3>2. CASE s \notin hs[l]
      <4>1. victims = {} \/ \E v : v # l /\ victims = {v}
        BY <2>1, <2>2, <3>2 DEF Promised!Victims
      <4>2. miss
        BY <2>3, <3>2
      <4>. QED
        BY <4>1, <4>2
    <3>. QED
      BY <3>1, <3>2
  <2>5. DirtyLines' = IF isW THEN (DirtyLines \ victims) \cup {l}
                      ELSE IF miss THEN (DirtyLines \ victims) \ {l}
                      ELSE DirtyLines
    BY <2>1, <2>2, <2>3 DEF Promised!AccessLine
  <2>6. Cardinality(DirtyLines \ DirtyLines') =
          Cardinality(victims \cap DirtyLines)
          + (IF ~isW /\ miss /\ l \in DirtyLines THEN 1 ELSE 0)
    <3>1. PICK dirty, dirty1 : dirty = DirtyLines /\ dirty1 = DirtyLines'
      OBVIOUS
    <3>2. dirty1 = ModifiedAfter(dirty, l, victims, isW, miss)
      BY <2>5, <3>1 DEF ModifiedAfter
    <3>0. AtMostOneOther(victims, l, miss)
      BY <2>4 DEF AtMostOneOther
    <3>3. Cardinality(dirty \ dirty1) =
            Cardinality(victims \cap dirty)
            + (IF ~isW /\ miss /\ l \in dirty THEN 1 ELSE 0)
      BY <3>0, <3>2, LinesLeaveModified
    <3>. QED
      BY <3>1, <3>3
  <2>7. /\ simstats'.m_writes = simstats.m_writes + Cardinality(victims \cap DirtyLines)
        /\ simstats'.m_writes_from_coh = simstats.m_writes_from_coh
             + (IF ~isW /\ miss /\ l \in DirtyLines THEN 1 ELSE 0)
    <3>1. \A S : Promised!Cardinality(S) = Cardinality(S)
      BY DEF Promised!Cardinality, Cardinality
    <3>2. /\ TrafficOf(simstats)'.writeBacks = TrafficOf(simstats).writeBacks
               + Cardinality(victims \cap DirtyLines)
          /\ TrafficOf(simstats)'.sharingWriteBacks = TrafficOf(simstats).sharingWriteBacks
               + Promised!One(~isW /\ s \notin hs[l] /\ l \in DirtyLines)
      BY <2>1, <2>2, <3>1 DEF Promised!AccessLine
    <3>3. Promised!One(~isW /\ s \notin hs[l] /\ l \in DirtyLines)
            = IF ~isW /\ miss /\ l \in DirtyLines THEN 1 ELSE 0
      BY <2>3 DEF Promised!One
    <3>. QED
      BY <3>2, <3>3 DEF TrafficOf
  <2>8. /\ simstats.m_writes \in Nat /\ simstats.m_writes_from_coh \in Nat
        /\ simstats'.m_writes \in Nat /\ simstats'.m_writes_from_coh \in Nat
    BY DEF IInv, TypeOK, Stats
  <2>9. PICK n, k, a, b, a1, b1 :
          /\ n = Cardinality(victims \cap DirtyLines)
          /\ k = IF ~isW /\ miss /\ l \in DirtyLines THEN 1 ELSE 0
          /\ a = simstats.m_writes /\ b = simstats.m_writes_from_coh
          /\ a1 = simstats'.m_writes /\ b1 = simstats'.m_writes_from_coh
    OBVIOUS
  <2>10. k \in Nat /\ n \in Nat
    <3>1. IsFiniteSet(victims \cap DirtyLines)
      <4>1. CASE victims = {}
        BY <4>1, FS_EmptySet
      <4>2. CASE \E v : v # l /\ victims = {v}
        <5>1. PICK v : victims = {v}
          BY <4>2
        <5>. QED
          BY <5>1, FS_Singleton, FS_Subset
      <4>. QED
        BY <2>4, <4>1, <4>2
    <3>. QED
      BY <3>1, <2>9, FS_CardinalityType
  <2>11. a1 = a + n /\ b1 = b + k
    BY <2>7, <2>9
  <2>12. a1 + b1 = a + b + (n + k)
    BY <2>8, <2>9, <2>10, <2>11
  <2>. QED
    BY <2>6, <2>9, <2>12
<1>. QED
  BY <1>1, IInvHolds, PTL DEF Spec, WriteBackAccounting

=============================================================================
