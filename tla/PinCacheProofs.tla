--------------------------- MODULE PinCacheProofs ---------------------------
(***************************************************************************)
(* What the caches of a traced thread do, for any number of sets and ways, *)
(* any lines, and whatever the uninitialised bits and times are.  Most of  *)
(* it is about one line of one access (AccessLine); an access is the fold  *)
(* of its lines, and a reference is one access of ul2 and up to two of     *)
(* ul3.  The invariant is the type and the place of every line, by which a *)
(* line is looked for in one set only.                                     *)
(***************************************************************************)
EXTENDS PinCache, SumTheorems

-----------------------------------------------------------------------------
(* One set.                                                                *)

\* The lines that a level is asked for
LinesOf(c) == IF c = "il1" THEN FetchLines ELSE Lines

LEMMA Constants ==
    /\ Lines \subseteq Nat /\ NoTag \notin Lines
    /\ \A c \in Levels : /\ NUM_SETS[c] \in Nat /\ NUM_SETS[c] > 0
                         /\ NUM_WAYS[c] \in Nat /\ NUM_WAYS[c] > 0
    /\ InitialTs \subseteq Nat
    /\ MaxSpan \in Nat /\ MaxSpan >= 1 /\ MaxTime \in Nat
    /\ \A c \in Levels : LinesOf(c) \subseteq Nat /\ NoTag \notin LinesOf(c)
BY CacheAssumption DEF LinesOf, FetchLines, NoTag

\* The oldest way: the least time, then the least number.
LEMMA OldestWay ==
    ASSUME NEW c \in Levels, NEW tags, \A w \in Ways(c) : tags[w].ts \in Nat
    PROVE  \E w \in Ways(c) : \A v \in Ways(c) :
              tags[w].ts < tags[v].ts \/ (tags[w].ts = tags[v].ts /\ w <= v)
<1>1. PICK T : T = {tags[w].ts : w \in Ways(c)}
  OBVIOUS
<1>2. 0 \in Ways(c)
  BY Constants DEF Ways
<1>3. T \in SUBSET Nat /\ T # {}
  BY <1>1, <1>2
<1>4. PICK t \in T : \A u \in T : t <= u
  BY <1>3, LeastNumber
<1>5. PICK S : S = {w \in Ways(c) : tags[w].ts = t}
  OBVIOUS
<1>6. S \in SUBSET Nat /\ S # {}
  BY <1>1, <1>4, <1>5, Constants DEF Ways
<1>7. PICK w \in S : \A v \in S : w <= v
  BY <1>6, LeastNumber
<1>8. w \in Ways(c) /\ tags[w].ts = t
  BY <1>5
<1>9. ASSUME NEW v \in Ways(c)
      PROVE  tags[w].ts < tags[v].ts \/ (tags[w].ts = tags[v].ts /\ w <= v)
  <2>1. tags[v].ts \in T /\ tags[v].ts \in Nat /\ t \in Nat
    BY <1>1, <1>3
  <2>2. t < tags[v].ts \/ t = tags[v].ts
    BY <1>4, <2>1
  <2>3. t = tags[v].ts => w <= v
    BY <1>5, <1>7
  <2>. QED
    BY <1>8, <2>2, <2>3
<1>. QED
  BY <1>8, <1>9

\* What the type of a set says.
LEMMA SetFacts ==
    ASSUME NEW c \in Levels, NEW set \in RoundRobin(c)
    PROVE  /\ set = [tags |-> set.tags, next |-> set.next, curtime |-> set.curtime]
           /\ set.tags = [w \in Ways(c) |-> set.tags[w]]
           /\ \A w \in Ways(c) :
                 /\ set.tags[w] \in CacheTag(c)
                 /\ set.tags[w].tag \in LinesOf(c) \cup {NoTag}
                 /\ set.tags[w].is_dirty \in BOOLEAN
                 /\ set.tags[w].ts \in Nat
           /\ set.next \in Ways(c)
           /\ set.curtime \in 0 .. MaxTime
           /\ set.curtime \in Nat /\ set.curtime <= MaxTime
<1>1. set \in [tags : [Ways(c) -> CacheTag(c)], next : Ways(c), curtime : 0 .. MaxTime]
  BY DEF RoundRobin
<1>2. ASSUME NEW w \in Ways(c)
      PROVE  /\ set.tags[w] \in CacheTag(c)
             /\ set.tags[w].tag \in LinesOf(c) \cup {NoTag}
             /\ set.tags[w].is_dirty \in BOOLEAN
             /\ set.tags[w].ts \in Nat
  <2>1. set.tags[w] \in CacheTag(c)
    BY <1>1
  <2>2. set.tags[w].tag \in LinesOf(c) \cup {NoTag}
    BY <2>1 DEF CacheTag, LinesOf
  <2>3. set.tags[w].is_dirty \in BOOLEAN /\ set.tags[w].ts \in 0 .. MaxTime \cup InitialTs
    BY <2>1 DEF CacheTag
  <2>4. 0 .. MaxTime \cup InitialTs \subseteq Nat
    BY Constants
  <2>. QED
    BY <2>1, <2>2, <2>3, <2>4
<1>3. set.curtime \in 0 .. MaxTime
  BY <1>1
<1>4. set.curtime \in Nat /\ set.curtime <= MaxTime
  BY <1>3, Constants
<1>. QED
  BY <1>1, <1>2, <1>3, <1>4

\* A tag that was found or put now is of the type.
LEMMA TagType ==
    ASSUME NEW c \in Levels, NEW tag \in LinesOf(c) \cup {NoTag}, NEW d \in BOOLEAN,
           NEW ts \in Nat, ts <= MaxTime
    PROVE  [tag |-> tag, is_dirty |-> d, ts |-> ts] \in CacheTag(c)
<1>1. ts \in 0 .. MaxTime
  BY Constants
<1>. QED
  BY <1>1 DEF CacheTag, LinesOf

\* The way that Find stops at.
LEMMA LastWay ==
    ASSUME NEW c \in Levels, NEW S \in SUBSET Ways(c), S # {}
    PROVE  \E w \in S : \A v \in S : v <= w
<1>1. PICK n \in Nat : n = NUM_WAYS[c] /\ S \in SUBSET (0 .. n)
  BY Constants DEF Ways
<1>. QED
  BY <1>1, GreatestNumber

\* Find changes no tag; it may make the line that it finds dirty.
LEMMA FoundSet ==
    ASSUME NEW c \in Levels, NEW set \in RoundRobin(c), NEW l \in LinesOf(c),
           NEW isWrite \in BOOLEAN, NEW f, f = Found(set, l, isWrite)
    PROVE  /\ f \in RoundRobin(c) /\ f.curtime = set.curtime
           /\ \A w \in Ways(c) :
                 /\ f.tags[w].tag = set.tags[w].tag
                 /\ set.tags[w].is_dirty => f.tags[w].is_dirty
                 /\ f.tags[w].is_dirty =>
                       set.tags[w].is_dirty \/ (isWrite /\ set.tags[w].tag = l)
           /\ isWrite /\ WaysWith(set, l) # {} =>
                 \E w \in Ways(c) : f.tags[w].tag = l /\ f.tags[w].is_dirty
<1>1. DOMAIN set.tags = Ways(c)
  BY DEF RoundRobin
<1>. USE SetFacts
<1>2. PICK S : S = WaysWith(set, l)
  OBVIOUS
<1>3. S = {w \in Ways(c) : set.tags[w].tag = l}
  BY <1>1, <1>2 DEF WaysWith
<1>4. PICK t : t = [w \in Ways(c) |->
             IF w \in S /\ \A v \in S : v <= w
             THEN [tag |-> l, is_dirty |-> set.tags[w].is_dirty \/ isWrite, ts |-> set.curtime]
             ELSE set.tags[w]]
  OBVIOUS
<1>5. f = [set EXCEPT !.tags = t]
  BY <1>1, <1>2, <1>4 DEF Found
<1>6. f.tags = t /\ f.next = set.next /\ f.curtime = set.curtime
      /\ f = [tags |-> t, next |-> set.next, curtime |-> set.curtime]
  <2>1. set = [tags |-> set.tags, next |-> set.next, curtime |-> set.curtime]
    OBVIOUS
  <2>. QED
    BY <1>5, <2>1
<1>7. ASSUME NEW w \in Ways(c)
      PROVE  /\ t[w] \in CacheTag(c)
             /\ t[w].tag = set.tags[w].tag
             /\ set.tags[w].is_dirty => t[w].is_dirty
             /\ t[w].is_dirty =>
                   set.tags[w].is_dirty \/ (isWrite /\ set.tags[w].tag = l)
  <2>1. CASE w \in S /\ \A v \in S : v <= w
    <3>1. PICK d \in BOOLEAN : d = (set.tags[w].is_dirty \/ isWrite)
      OBVIOUS
    <3>2. t[w] = [tag |-> l, is_dirty |-> d, ts |-> set.curtime]
      BY <1>4, <2>1, <3>1
    <3>3. set.tags[w].tag = l
      BY <1>3, <2>1
    <3>4. [tag |-> l, is_dirty |-> d, ts |-> set.curtime] \in CacheTag(c)
      BY TagType
    <3>5. t[w].tag = l /\ t[w].is_dirty = d
      BY <3>2
    <3>. QED
      BY <3>1, <3>2, <3>3, <3>4, <3>5
  <2>2. CASE ~(w \in S /\ \A v \in S : v <= w)
    BY <1>4, <2>2
  <2>. QED
    BY <2>1, <2>2
<1>8. f \in RoundRobin(c)
  <2>1. t \in [Ways(c) -> CacheTag(c)]
    BY <1>4, <1>7
  <2>. QED
    BY <1>6, <2>1 DEF RoundRobin
<1>9. ASSUME isWrite, S # {}
      PROVE  \E w \in Ways(c) : t[w].tag = l /\ t[w].is_dirty
  <2>1. PICK w \in S : \A v \in S : v <= w
    BY <1>3, <1>9, LastWay
  <2>2. w \in Ways(c) /\ t[w] = [tag |-> l, is_dirty |-> TRUE, ts |-> set.curtime]
    BY <1>3, <1>4, <1>9, <2>1
  <2>. QED
    BY <2>2
<1>. QED
  BY <1>2, <1>6, <1>7, <1>8, <1>9

\* Replace changes one way, the one chosen before.
LEMMA ReplacedSet ==
    ASSUME NEW c \in Levels, NEW set \in RoundRobin(c), NEW l \in LinesOf(c),
           NEW isWrite \in BOOLEAN, NEW r, r = Replaced(set, l, isWrite)
    PROVE  /\ r \in RoundRobin(c) /\ r.curtime = set.curtime
           /\ r.tags[set.next].tag = l
           /\ r.tags[set.next].is_dirty <=> isWrite
           /\ \A w \in Ways(c) \ {set.next} : r.tags[w] = set.tags[w]
<1>. USE SetFacts
<1>1. PICK n \in Ways(c) : n = set.next
  OBVIOUS
<1>2. PICK e : e = [tag |-> l, is_dirty |-> isWrite, ts |-> set.curtime]
  OBVIOUS
<1>0. PICK t0 \in [Ways(c) -> CacheTag(c)] : t0 = set.tags
  <2>1. [w \in Ways(c) |-> set.tags[w]] \in [Ways(c) -> CacheTag(c)]
    OBVIOUS
  <2>. QED
    BY <2>1
<1>3. PICK t : t = [t0 EXCEPT ![n] = e]
  OBVIOUS
<1>4. e \in CacheTag(c) /\ e.tag = l /\ e.is_dirty = isWrite
  BY <1>2, TagType
<1>5. t \in [Ways(c) -> CacheTag(c)] /\ t[n] = e
      /\ \A w \in Ways(c) \ {n} : t[w] = set.tags[w]
  BY <1>0, <1>3, <1>4
<1>6. DOMAIN t = Ways(c)
  BY <1>5
<1>7. PICK x : x = CHOOSE w \in DOMAIN t : \A v \in DOMAIN t :
                      t[w].ts < t[v].ts \/ (t[w].ts = t[v].ts /\ w <= v)
  OBVIOUS
<1>8. x \in Ways(c)
  <2>1. \A w \in Ways(c) : t[w].ts \in Nat
    BY <1>5, Constants DEF CacheTag
  <2>. QED
    BY <1>6, <1>7, <2>1, OldestWay
<1>9. r = [set EXCEPT !.tags = t, !.next = x]
  BY <1>0, <1>1, <1>2, <1>3, <1>7 DEF Replaced
<1>10. r = [tags |-> t, next |-> x, curtime |-> set.curtime]
  <2>1. set = [tags |-> set.tags, next |-> set.next, curtime |-> set.curtime]
    OBVIOUS
  <2>. QED
    BY <1>9, <2>1
<1>11. r \in RoundRobin(c)
  BY <1>5, <1>8, <1>10 DEF RoundRobin
<1>. QED
  BY <1>1, <1>4, <1>5, <1>10, <1>11

\* What becomes of a set that is asked for a line: a way keeps its tag unless it
\* is replaced, and gets dirty by a write of its line only.
LineAsked(c, set, l, isWrite, fills, new) ==
    /\ new \in RoundRobin(c) /\ new.curtime = set.curtime
    /\ \A w \in Ways(c) :
          /\ new.tags[w].tag = set.tags[w].tag \/ (fills /\ new.tags[w].tag = l)
          /\ new.tags[w].is_dirty =>
                \/ isWrite /\ new.tags[w].tag = l
                \/ set.tags[w].is_dirty /\ new.tags[w].tag = set.tags[w].tag
          /\ set.tags[w].is_dirty =>
                \/ fills /\ w = set.next
                \/ new.tags[w].is_dirty /\ new.tags[w].tag = set.tags[w].tag
    /\ isWrite /\ (fills \/ WaysWith(set, l) # {}) =>
          \E w \in Ways(c) : new.tags[w].tag = l /\ new.tags[w].is_dirty

LEMMA LineInSet ==
    ASSUME NEW c \in Levels, NEW set \in RoundRobin(c), NEW l \in LinesOf(c),
           NEW isWrite \in BOOLEAN, NEW fills \in BOOLEAN,
           NEW new, new = IF fills THEN Replaced(set, l, isWrite) ELSE Found(set, l, isWrite)
    PROVE  LineAsked(c, set, l, isWrite, fills, new)
<1>1. CASE fills
  <2>1. new = Replaced(set, l, isWrite) /\ set.next \in Ways(c)
    BY <1>1, SetFacts
  <2>2. /\ new \in RoundRobin(c) /\ new.curtime = set.curtime
        /\ new.tags[set.next].tag = l
        /\ new.tags[set.next].is_dirty <=> isWrite
        /\ \A w \in Ways(c) \ {set.next} : new.tags[w] = set.tags[w]
    BY <2>1, ReplacedSet
  <2>. QED
    BY <1>1, <2>1, <2>2 DEF LineAsked
<1>2. CASE ~fills
  <2>1. new = Found(set, l, isWrite)
    BY <1>2
  <2>. QED
    BY <1>2, <2>1, FoundSet DEF LineAsked
<1>. QED
  BY <1>1, <1>2

-----------------------------------------------------------------------------
(* One cache.                                                              *)

Placed(c, sets) ==
    \A h \in Sets(c), w \in Ways(c) :
       sets[h].tags[w].tag # NoTag => sets[h].tags[w].tag % NUM_SETS[c] = h

\* The sets of a level, with the lines where they belong and no time after b
SetsOf(c, b) ==
    {sets \in [Sets(c) -> RoundRobin(c)] :
        Placed(c, sets) /\ \A h \in Sets(c) : sets[h].curtime <= b}

Holds(c, sets, l) == \E h \in Sets(c), w \in Ways(c) : sets[h].tags[w].tag = l

HoldsDirty(c, sets, l) ==
    \E h \in Sets(c), w \in Ways(c) : sets[h].tags[w].tag = l /\ sets[h].tags[w].is_dirty

\* A line belongs to one set.
LEMMA SetOfLine ==
    ASSUME NEW c \in Levels, NEW l \in LinesOf(c)
    PROVE  l % NUM_SETS[c] \in Sets(c)
<1>1. PICK n \in Nat : n = NUM_SETS[c] /\ n > 0 /\ l \in Nat
  BY Constants
<1>2. l % n \in 0 .. n - 1
  BY <1>1
<1>. QED
  BY <1>1, <1>2 DEF Sets

\* There it is found, if it is in the cache.
LEMMA FoundWherePlaced ==
    ASSUME NEW c \in Levels, NEW b, NEW sets \in SetsOf(c, b), NEW l \in LinesOf(c),
           l # NoTag
    PROVE  Holds(c, sets, l) <=> WaysWith(sets[l % NUM_SETS[c]], l) # {}
<1>1. PICK h \in Sets(c) : h = l % NUM_SETS[c]
  BY SetOfLine
<1>2. DOMAIN sets[h].tags = Ways(c)
  <2>1. PICK set \in RoundRobin(c) : set = sets[h]
    BY DEF SetsOf
  <2>2. set.tags = [w \in Ways(c) |-> set.tags[w]]
    BY SetFacts
  <2>3. DOMAIN set.tags = Ways(c)
    BY <2>2
  <2>. QED
    BY <2>1, <2>3
<1>3. WaysWith(sets[h], l) = {w \in Ways(c) : sets[h].tags[w].tag = l}
  BY <1>2 DEF WaysWith
<1>4. \A g \in Sets(c), w \in Ways(c) : sets[g].tags[w].tag = l => g = h
  BY <1>1 DEF SetsOf, Placed
<1>. QED
  BY <1>1, <1>3, <1>4 DEF Holds

\* A line is looked for in its set, or put there; set is that one, its clock
\* perhaps advanced.
Asked(c, sets, set, l, isWrite, fills, after) ==
    \E h, new : /\ h = l % NUM_SETS[c]
                /\ set.tags = sets[h].tags
                /\ new = IF fills THEN Replaced(set, l, isWrite) ELSE Found(set, l, isWrite)
                /\ after = [sets EXCEPT ![h] = new]

\* What becomes of a cache one of whose sets is asked for a line.
AskedFor(c, sets, set, l, t, isWrite, fills, after) ==
    /\ after \in SetsOf(c, t)
    /\ \A k : Holds(c, after, k) => Holds(c, sets, k) \/ (fills /\ k = l)
    /\ \A k : HoldsDirty(c, after, k) => HoldsDirty(c, sets, k) \/ (isWrite /\ k = l)
    /\ \A k : HoldsDirty(c, sets, k) =>
          \/ HoldsDirty(c, after, k)
          \/ fills /\ set.tags[set.next].is_dirty /\ k = set.tags[set.next].tag
    /\ isWrite /\ (fills \/ Holds(c, sets, l)) => HoldsDirty(c, after, l)

LEMMA LineInCache ==
    ASSUME NEW c \in Levels, NEW t \in Nat, NEW sets \in SetsOf(c, t),
           NEW l \in LinesOf(c), NEW set \in RoundRobin(c), set.curtime <= t,
           NEW isWrite \in BOOLEAN, NEW fills \in BOOLEAN,
           NEW after, Asked(c, sets, set, l, isWrite, fills, after)
    PROVE  AskedFor(c, sets, set, l, t, isWrite, fills, after)
<1>0. PICK h, new : /\ h = l % NUM_SETS[c]
                    /\ set.tags = sets[h].tags
                    /\ new = IF fills THEN Replaced(set, l, isWrite) ELSE Found(set, l, isWrite)
                    /\ after = [sets EXCEPT ![h] = new]
  BY DEF Asked
<1>1. h \in Sets(c) /\ l # NoTag
  BY <1>0, SetOfLine, Constants
<1>2. /\ \A g \in Sets(c) : sets[g] \in RoundRobin(c) /\ sets[g].curtime <= t
      /\ DOMAIN sets = Sets(c)
  BY DEF SetsOf
<1>3. /\ new \in RoundRobin(c) /\ new.curtime = set.curtime
      /\ \A w \in Ways(c) :
            /\ new.tags[w].tag = sets[h].tags[w].tag \/ (fills /\ new.tags[w].tag = l)
            /\ new.tags[w].is_dirty =>
                  \/ isWrite /\ new.tags[w].tag = l
                  \/ sets[h].tags[w].is_dirty /\ new.tags[w].tag = sets[h].tags[w].tag
            /\ sets[h].tags[w].is_dirty =>
                  \/ fills /\ w = set.next
                  \/ new.tags[w].is_dirty /\ new.tags[w].tag = sets[h].tags[w].tag
      /\ isWrite /\ (fills \/ WaysWith(set, l) # {}) =>
            \E w \in Ways(c) : new.tags[w].tag = l /\ new.tags[w].is_dirty
  <2>1. LineAsked(c, set, l, isWrite, fills, new)
    BY <1>0, LineInSet
  <2>. QED
    BY <1>0, <2>1 DEF LineAsked
<1>4. after \in [Sets(c) -> RoundRobin(c)] /\ after[h] = new
      /\ \A g \in Sets(c) \ {h} : after[g] = sets[g]
  BY <1>0, <1>1, <1>2, <1>3
<1>5. after \in SetsOf(c, t)
  <2>1. Placed(c, after)
    <3>. SUFFICES ASSUME NEW g \in Sets(c), NEW w \in Ways(c), after[g].tags[w].tag # NoTag
                  PROVE  after[g].tags[w].tag % NUM_SETS[c] = g
      BY DEF Placed
    <3>1. sets[g].tags[w].tag # NoTag => sets[g].tags[w].tag % NUM_SETS[c] = g
      BY DEF SetsOf, Placed
    <3>2. CASE g = h
      <4>1. after[g].tags[w].tag = sets[g].tags[w].tag \/ after[g].tags[w].tag = l
        BY <1>3, <1>4, <3>2
      <4>2. l % NUM_SETS[c] = g
        BY <1>0, <3>2
      <4>. QED
        BY <3>1, <4>1, <4>2
    <3>3. CASE g # h
      <4>1. after[g] = sets[g]
        BY <1>4, <3>3
      <4>. QED
        BY <3>1, <4>1
    <3>. QED
      BY <3>2, <3>3
  <2>2. \A g \in Sets(c) : after[g].curtime <= t
    <3>1. \A g \in Sets(c) : after[g].curtime = set.curtime \/ after[g].curtime = sets[g].curtime
      BY <1>3, <1>4
    <3>2. \A g \in Sets(c) : sets[g].curtime \in Nat /\ sets[g].curtime <= t
      BY <1>2, SetFacts
    <3>. QED
      BY <3>1, <3>2
  <2>. QED
    BY <1>4, <2>1, <2>2 DEF SetsOf
<1>6. ASSUME NEW k, Holds(c, after, k)
      PROVE  Holds(c, sets, k) \/ (fills /\ k = l)
  BY <1>3, <1>4, <1>6 DEF Holds
<1>7. ASSUME NEW k, HoldsDirty(c, after, k)
      PROVE  HoldsDirty(c, sets, k) \/ (isWrite /\ k = l)
  BY <1>3, <1>4, <1>7 DEF HoldsDirty
<1>8. ASSUME NEW k, HoldsDirty(c, sets, k)
      PROVE  \/ HoldsDirty(c, after, k)
             \/ fills /\ set.tags[set.next].is_dirty /\ k = set.tags[set.next].tag
  <2>1. PICK g \in Sets(c), w \in Ways(c) :
           sets[g].tags[w].tag = k /\ sets[g].tags[w].is_dirty
    BY <1>8 DEF HoldsDirty
  <2>2. CASE g # h
    BY <1>4, <2>1, <2>2 DEF HoldsDirty
  <2>3. CASE g = h
    <3>1. CASE fills /\ w = set.next
      BY <1>0, <2>1, <2>3, <3>1
    <3>2. CASE new.tags[w].is_dirty /\ new.tags[w].tag = sets[h].tags[w].tag
      BY <1>1, <1>4, <2>1, <2>3, <3>2 DEF HoldsDirty
    <3>. QED
      BY <1>3, <2>1, <2>3, <3>1, <3>2
  <2>. QED
    BY <2>2, <2>3
<1>9. ASSUME isWrite, fills \/ Holds(c, sets, l)
      PROVE  HoldsDirty(c, after, l)
  <2>1. WaysWith(set, l) = WaysWith(sets[h], l)
    BY <1>0 DEF WaysWith
  <2>2. fills \/ WaysWith(set, l) # {}
    BY <1>0, <1>1, <1>9, <2>1, FoundWherePlaced
  <2>3. PICK w \in Ways(c) : new.tags[w].tag = l /\ new.tags[w].is_dirty
    BY <1>3, <1>9, <2>2
  <2>. QED
    BY <1>1, <1>4, <2>3 DEF HoldsDirty
<1>. QED
  BY <1>5, <1>6, <1>7, <1>8, <1>9 DEF AskedFor

-----------------------------------------------------------------------------
(* An access, line by line.                                                *)

Before(sets) == [sets |-> sets, allHit |-> TRUE, evicted_line |-> NoTag]

\* g has what each set of positions of lines makes of base, the last one last
IsFold(c, base, lines, isWrite, S, g) ==
    g = [s \in SUBSET S |-> IF s = {} THEN base
                            ELSE AccessLine(c, g[s \ {Max(s)}], lines[Max(s)], isWrite)]

\* An access is what all positions make of the cache.
LEMMA AccessDef ==
    ASSUME NEW c, NEW sets, NEW lines, NEW isWrite
    PROVE  Access(c, sets, lines, isWrite)
             = (CHOOSE g : IsFold(c, Before(sets), lines, isWrite, DOMAIN lines, g))[DOMAIN lines]
BY DEF Access, FoldLeft, MapThenFoldSet, IsFold, Before

\* The last position is one of them.
LEMMA MaxInSet ==
    ASSUME NEW n \in Nat, NEW s \in SUBSET (1 .. n), s # {}
    PROVE  Max(s) \in s /\ \A v \in s : v <= Max(s)
<1>1. s \in SUBSET (0 .. n)
  OBVIOUS
<1>2. \E w \in s : \A v \in s : w >= v
  <2>1. PICK w \in s : \A v \in s : v <= w
    BY <1>1, GreatestNumber
  <2>2. \A v \in s : w >= v
    BY <2>1
  <2>. QED
    BY <2>2
<1>3. Max(s) \in s /\ \A v \in s : Max(s) >= v
  BY <1>2 DEF Max
<1>4. \A v \in s : v <= Max(s)
  BY <1>3
<1>. QED
  BY <1>3, <1>4

\* The last position of a part of S is one of it.
HasLast(S) == \A s \in SUBSET S : s # {} => Max(s) \in s

LEMMA FirstHasLast ==
    ASSUME NEW n \in Nat
    PROVE  HasLast(1 .. n)
BY MaxInSet DEF HasLast

\* The last of the first k positions is k.
LEMMA MaxOfFirst ==
    ASSUME NEW k \in Nat, k >= 1
    PROVE  Max(1 .. k) = k /\ (1 .. k) \ {k} = 1 .. k - 1
<1>1. k \in 1 .. k /\ (1 .. k) \in SUBSET (1 .. k)
  OBVIOUS
<1>2. Max(1 .. k) \in 1 .. k /\ k <= Max(1 .. k)
  BY <1>1, MaxInSet
<1>. QED
  BY <1>2

\* What a set of positions makes of base does not depend on the others.
LEMMA FoldsAgree ==
    ASSUME NEW c, NEW base, NEW lines, NEW isWrite,
           NEW S, HasLast(S), IsFiniteSet(S),
           NEW g, IsFold(c, base, lines, isWrite, S, g),
           NEW T \in SUBSET S, NEW h, IsFold(c, base, lines, isWrite, T, h)
    PROVE  h[T] = g[T]
<1>. DEFINE P == {s \in SUBSET T : h[s] = g[s]}
<1>1. HasLast(T) /\ IsFiniteSet(T)
  BY FS_Subset DEF HasLast
<1>2. ASSUME NEW s \in SUBSET T, \A u \in SUBSET s : u # s => u \in P
      PROVE  s \in P
  <2>0. s \in SUBSET S
    OBVIOUS
  <2>1. CASE s = {}
    <3>1. h[s] = base
      BY <2>1 DEF IsFold
    <3>2. g[s] = base
      BY <2>0, <2>1 DEF IsFold
    <3>. QED
      BY <3>1, <3>2
  <2>2. CASE s # {}
    <3>1. h[s] = AccessLine(c, h[s \ {Max(s)}], lines[Max(s)], isWrite)
      BY <2>2 DEF IsFold
    <3>2. g[s] = AccessLine(c, g[s \ {Max(s)}], lines[Max(s)], isWrite)
      BY <2>0, <2>2 DEF IsFold
    <3>3. Max(s) \in s
      BY <1>1, <2>2 DEF HasLast
    <3>4. h[s \ {Max(s)}] = g[s \ {Max(s)}]
      BY <1>2, <3>3
    <3>. QED
      BY <3>1, <3>2, <3>4
  <2>. QED
    BY <2>1, <2>2
<1>3. \A s \in SUBSET T : s \in P
  <2>. HIDE DEF P
  <2>. QED
    BY <1>1, <1>2, SubsetInduction
<1>. QED
  BY <1>3

LEMMA FoldExists ==
    ASSUME NEW c, NEW base, NEW lines, NEW isWrite, NEW n \in Nat
    PROVE  \E g : IsFold(c, base, lines, isWrite, 1 .. n, g)
<1>. DEFINE N == 1 .. n
            P == {T \in SUBSET N : \E g : IsFold(c, base, lines, isWrite, T, g)}
            Fold(T) == (CHOOSE g : IsFold(c, base, lines, isWrite, T, g))[T]
<1>0. IsFiniteSet(N) /\ HasLast(N)
  BY FirstHasLast, FS_Interval
<1>1. ASSUME NEW T \in SUBSET N, \A U \in SUBSET T : U # T => U \in P
      PROVE  T \in P
  <2>. DEFINE value(s) == IF s = {} THEN base
                          ELSE AccessLine(c, Fold(s \ {Max(s)}), lines[Max(s)], isWrite)
              G == [s \in SUBSET T |-> value(s)]
  <2>1. ASSUME NEW s \in SUBSET T, s # T
        PROVE  Fold(s) = value(s)
    <3>0. HasLast(s) /\ s \in SUBSET s /\ IsFiniteSet(s)
      BY <1>0, FS_Subset DEF HasLast
    <3>1. PICK g : g = CHOOSE h : IsFold(c, base, lines, isWrite, s, h)
      OBVIOUS
    <3>2. IsFold(c, base, lines, isWrite, s, g) /\ Fold(s) = g[s]
      BY <1>1, <2>1, <3>1
    <3>3. CASE s = {}
      <4>1. g[s] = base
        BY <3>0, <3>2, <3>3 DEF IsFold
      <4>. QED
        BY <3>2, <3>3, <4>1
    <3>4. CASE s # {}
      <4>1. PICK t : t = s \ {Max(s)}
        OBVIOUS
      <4>2. Max(s) \in s /\ t \in SUBSET s
        BY <3>0, <3>4, <4>1 DEF HasLast
      <4>3. g[s] = AccessLine(c, g[t], lines[Max(s)], isWrite)
        BY <3>0, <3>2, <3>4, <4>1 DEF IsFold
      <4>4. t \in SUBSET T /\ t # T
        BY <4>1, <4>2
      <4>5. PICK h : h = CHOOSE k : IsFold(c, base, lines, isWrite, t, k)
        OBVIOUS
      <4>6. IsFold(c, base, lines, isWrite, t, h) /\ Fold(t) = h[t]
        BY <1>1, <4>4, <4>5
      <4>7. h[t] = g[t]
        BY <3>0, <3>2, <4>2, <4>6, FoldsAgree
      <4>. QED
        BY <3>2, <3>4, <4>1, <4>3, <4>6, <4>7
    <3>. QED
      BY <3>3, <3>4
  <2>2. ASSUME NEW s \in SUBSET T
        PROVE  G[s] = IF s = {} THEN base
                      ELSE AccessLine(c, G[s \ {Max(s)}], lines[Max(s)], isWrite)
    <3>1. CASE s = {}
      BY <3>1
    <3>2. CASE s # {}
      <4>1. PICK t : t = s \ {Max(s)}
        OBVIOUS
      <4>2. Max(s) \in s
        BY <1>0, <3>2 DEF HasLast
      <4>3. t \in SUBSET T /\ t # T
        BY <3>2, <4>1, <4>2
      <4>4. G[t] = Fold(t)
        BY <4>3, <2>1
      <4>. QED
        BY <3>2, <4>1, <4>4
    <3>. QED
      BY <3>1, <3>2
  <2>3. IsFold(c, base, lines, isWrite, T, G)
    <3>1. G = [s \in SUBSET T |-> G[s]]
      OBVIOUS
    <3>. HIDE DEF G
    <3>. QED
      BY <2>2, <3>1 DEF IsFold
  <2>. QED
    BY <2>3
<1>2. \A T \in SUBSET N : T \in P
  <2>. HIDE DEF P, N
  <2>. QED
    BY <1>0, <1>1, SubsetInduction
<1>. QED
  BY <1>2

\* An access takes one line after the other.
LineByLine(c, sets, lines, isWrite, n) ==
    \E a : /\ a[0] = Before(sets)
           /\ \A k \in 1 .. n : a[k] = AccessLine(c, a[k - 1], lines[k], isWrite)
           /\ Access(c, sets, lines, isWrite) = a[n]

LEMMA AccessSteps ==
    ASSUME NEW c, NEW sets, NEW n \in Nat, NEW lines, DOMAIN lines = 1 .. n, NEW isWrite
    PROVE  LineByLine(c, sets, lines, isWrite, n)
<1>1. PICK base : base = Before(sets)
  OBVIOUS
<1>2. PICK g : g = CHOOSE h : IsFold(c, base, lines, isWrite, 1 .. n, h)
  OBVIOUS
<1>3. IsFold(c, base, lines, isWrite, 1 .. n, g) /\ Access(c, sets, lines, isWrite) = g[1 .. n]
  BY <1>1, <1>2, AccessDef, FoldExists
<1>4. PICK a : a = [k \in 0 .. n |-> g[1 .. k]]
  OBVIOUS
<1>5. a[0] = base
  <2>1. a[0] = g[{}]
    BY <1>4
  <2>2. {} \in SUBSET (1 .. n) /\ (1 .. n) \in SUBSET (1 .. n)
    OBVIOUS
  <2>. QED
    BY <1>3, <2>1, <2>2 DEF IsFold
<1>6. ASSUME NEW k \in 1 .. n
      PROVE  a[k] = AccessLine(c, a[k - 1], lines[k], isWrite)
  <2>1. (1 .. k) \in SUBSET (1 .. n) /\ (1 .. k) # {}
    <3>1. k \in 1 .. k /\ \A j \in 1 .. k : j \in 1 .. n
      OBVIOUS
    <3>. QED
      BY <3>1
  <2>2. g[1 .. k] = AccessLine(c, g[(1 .. k) \ {Max(1 .. k)}], lines[Max(1 .. k)], isWrite)
    BY <1>3, <2>1 DEF IsFold
  <2>3. Max(1 .. k) = k /\ (1 .. k) \ {k} = 1 .. k - 1
    BY MaxOfFirst
  <2>4. k \in 0 .. n /\ k - 1 \in 0 .. n
    OBVIOUS
  <2>. QED
    BY <1>4, <2>2, <2>3, <2>4
<1>7. a[n] = g[1 .. n]
  BY <1>4
<1>. QED
  BY <1>1, <1>3, <1>5, <1>6, <1>7 DEF LineByLine

\* What Replace returns is no line, or a dirty one.
LEMMA EvictedTagType ==
    ASSUME NEW c \in Levels, NEW set \in RoundRobin(c)
    PROVE  /\ EvictedTag(set) \in LinesOf(c) \cup {NoTag}
           /\ EvictedTag(set) # NoTag =>
                 set.tags[set.next].is_dirty /\ EvictedTag(set) = set.tags[set.next].tag
BY SetFacts DEF EvictedTag

\* The states of an access, with no time after b
Accesses(c, b) ==
    [sets : SetsOf(c, b), allHit : BOOLEAN, evicted_line : LinesOf(c) \cup {NoTag}]

\* What the first line of an access, or the next, makes of the cache and of
\* the answer.
Answered(c, b, acc, l, isWrite, r) ==
    /\ r \in Accesses(c, b + 1)
    /\ r.allHit <=> acc.allHit /\ Holds(c, acc.sets, l)
    /\ \E fills \in BOOLEAN :
          /\ fills <=> ~Holds(c, acc.sets, l) /\ Allocates(c, isWrite)
          /\ ~fills => r.evicted_line = acc.evicted_line
          /\ fills /\ r.evicted_line # NoTag => HoldsDirty(c, acc.sets, r.evicted_line)
          /\ \A k : Holds(c, r.sets, k) => Holds(c, acc.sets, k) \/ (fills /\ k = l)
          /\ \A k : HoldsDirty(c, r.sets, k) =>
                HoldsDirty(c, acc.sets, k) \/ (isWrite /\ k = l)
          /\ \A k : HoldsDirty(c, acc.sets, k) =>
                HoldsDirty(c, r.sets, k) \/ (fills /\ k = r.evicted_line)
          /\ isWrite /\ (fills \/ Holds(c, acc.sets, l)) => HoldsDirty(c, r.sets, l)

LEMMA OneLine ==
    ASSUME NEW c \in Levels, NEW b \in Nat, b + 1 <= MaxTime, NEW acc \in Accesses(c, b),
           NEW l \in LinesOf(c), NEW isWrite \in BOOLEAN
    PROVE  Answered(c, b, acc, l, isWrite, AccessLine(c, acc, l, isWrite))
<1>0. PICK r : r = AccessLine(c, acc, l, isWrite)
  OBVIOUS
<1>1. PICK sets \in SetsOf(c, b) : sets = acc.sets
  BY DEF Accesses
<1>2. PICK h \in Sets(c) : h = l % NUM_SETS[c]
  BY SetOfLine
<1>3. l # NoTag
  BY Constants
<1>4. PICK old \in RoundRobin(c) : old = sets[h] /\ old.curtime <= b
  BY DEF SetsOf
<1>5. PICK timed : timed = [old EXCEPT !.curtime = @ + 1]
  OBVIOUS
<1>6. /\ timed = [tags |-> old.tags, next |-> old.next, curtime |-> old.curtime + 1]
      /\ old.next \in Ways(c) /\ old.curtime \in Nat
  <2>1. /\ old = [tags |-> old.tags, next |-> old.next, curtime |-> old.curtime]
        /\ old.next \in Ways(c) /\ old.curtime \in Nat
    BY SetFacts
  <2>. QED
    BY <1>5, <2>1
<1>7. /\ timed \in RoundRobin(c) /\ timed.tags = old.tags /\ timed.next = old.next
      /\ timed.curtime <= b + 1
  <2>1. old.curtime + 1 \in 0 .. MaxTime /\ old.curtime + 1 <= b + 1
    BY <1>4, <1>6, Constants
  <2>2. old.tags \in [Ways(c) -> CacheTag(c)]
    BY DEF RoundRobin
  <2>. QED
    BY <1>6, <2>1, <2>2 DEF RoundRobin
<1>8. PICK fills \in BOOLEAN : fills <=> WaysWith(timed, l) = {} /\ Allocates(c, isWrite)
  OBVIOUS
<1>9. Holds(c, sets, l) <=> WaysWith(timed, l) # {}
  <2>1. WaysWith(timed, l) = WaysWith(sets[h], l)
    BY <1>4, <1>7 DEF WaysWith
  <2>. QED
    BY <1>2, <1>3, <2>1, FoundWherePlaced
<1>10. PICK new : new = IF fills THEN Replaced(timed, l, isWrite) ELSE Found(timed, l, isWrite)
  OBVIOUS
<1>11. PICK after : after = [sets EXCEPT ![h] = new]
  OBVIOUS
<1>12. PICK hit \in BOOLEAN : hit <=> acc.allHit /\ Holds(c, sets, l)
  OBVIOUS
<1>13. PICK e : e = IF fills THEN EvictedTag(timed) ELSE acc.evicted_line
  OBVIOUS
<1>14. r = [sets |-> after, allHit |-> hit, evicted_line |-> e]
  <2>1. (acc.allHit /\ ~ (WaysWith(timed, l) = {})) = hit
    BY <1>9, <1>12 DEF Accesses
  <2>2. (WaysWith(timed, l) = {} /\ Allocates(c, isWrite)) = fills
    BY <1>8
  <2>. QED
    BY <1>1, <1>2, <1>4, <1>5, <1>10, <1>11, <1>13, <2>1, <2>2, <1>0 DEF AccessLine
<1>15. /\ after \in SetsOf(c, b + 1)
       /\ \A k : Holds(c, after, k) => Holds(c, sets, k) \/ (fills /\ k = l)
       /\ \A k : HoldsDirty(c, after, k) => HoldsDirty(c, sets, k) \/ (isWrite /\ k = l)
       /\ \A k : HoldsDirty(c, sets, k) =>
             \/ HoldsDirty(c, after, k)
             \/ fills /\ timed.tags[timed.next].is_dirty /\ k = timed.tags[timed.next].tag
       /\ isWrite /\ (fills \/ Holds(c, sets, l)) => HoldsDirty(c, after, l)
  <2>1. Asked(c, sets, timed, l, isWrite, fills, after)
    BY <1>2, <1>4, <1>7, <1>10, <1>11 DEF Asked
  <2>2. sets \in SetsOf(c, b + 1)
    <3>1. \A g \in Sets(c) : sets[g].curtime \in Nat /\ sets[g].curtime <= b
      BY SetFacts DEF SetsOf
    <3>. QED
      BY <3>1 DEF SetsOf
  <2>3. AskedFor(c, sets, timed, l, b + 1, isWrite, fills, after)
    BY <1>7, <2>1, <2>2, LineInCache
  <2>. QED
    BY <2>3 DEF AskedFor
<1>16. e \in LinesOf(c) \cup {NoTag}
  BY <1>7, <1>13, EvictedTagType DEF Accesses
<1>17. r \in Accesses(c, b + 1)
  BY <1>14, <1>15, <1>16 DEF Accesses
<1>18. fills /\ e # NoTag => HoldsDirty(c, sets, e)
  <2>. SUFFICES ASSUME fills, e # NoTag PROVE HoldsDirty(c, sets, e)
    OBVIOUS
  <2>1. timed.tags[timed.next].is_dirty /\ e = timed.tags[timed.next].tag
    BY <1>7, <1>13, EvictedTagType
  <2>. QED
    BY <1>4, <1>6, <1>7, <2>1 DEF HoldsDirty
<1>19. ASSUME NEW k, HoldsDirty(c, sets, k)
       PROVE  HoldsDirty(c, after, k) \/ (fills /\ k = e)
  <2>1. CASE fills /\ timed.tags[timed.next].is_dirty /\ k = timed.tags[timed.next].tag
    BY <1>13, <2>1 DEF EvictedTag
  <2>. QED
    BY <1>15, <1>19, <2>1
<1>20. fills <=> ~Holds(c, sets, l) /\ Allocates(c, isWrite)
  BY <1>8, <1>9
<1>21. ~fills => e = acc.evicted_line
  BY <1>13
<1>22. r.sets = after /\ r.allHit = hit /\ r.evicted_line = e
  BY <1>14
<1>23. Answered(c, b, acc, l, isWrite, r)
  BY <1>1, <1>12, <1>15, <1>17, <1>18, <1>19, <1>20, <1>21, <1>22 DEF Answered
<1>. QED
  BY <1>0, <1>23

\* An access that takes less than the time that is left makes sets of the type.
LEMMA AccessType ==
    ASSUME NEW c \in Levels, NEW b \in Nat, NEW n \in Nat, b + n <= MaxTime,
           NEW sets \in SetsOf(c, b), NEW lines \in [1 .. n -> LinesOf(c)],
           NEW isWrite \in BOOLEAN
    PROVE  Access(c, sets, lines, isWrite) \in Accesses(c, b + n)
<1>1. PICK a : /\ a[0] = Before(sets)
               /\ \A k \in 1 .. n : a[k] = AccessLine(c, a[k - 1], lines[k], isWrite)
               /\ Access(c, sets, lines, isWrite) = a[n]
  <2>1. DOMAIN lines = 1 .. n
    OBVIOUS
  <2>2. LineByLine(c, sets, lines, isWrite, n)
    BY <2>1, AccessSteps
  <2>. QED
    BY <2>2 DEF LineByLine
<1>2. PICK P : P = {k \in 0 .. n : a[k] \in Accesses(c, b + k)}
  OBVIOUS
<1>3. 0 \in P
  <2>1. a[0] \in Accesses(c, b)
    BY <1>1 DEF Before, Accesses
  <2>. QED
    BY <1>2, <2>1
<1>4. ASSUME NEW k \in 1 .. n, k - 1 \in P PROVE k \in P
  <2>1. PICK d \in Nat : d = b + (k - 1) /\ d + 1 = b + k /\ d + 1 <= MaxTime
    BY Constants
  <2>2. a[k - 1] \in Accesses(c, d) /\ k \in 0 .. n
    BY <1>2, <1>4, <2>1
  <2>3. a[k] = AccessLine(c, a[k - 1], lines[k], isWrite) /\ lines[k] \in LinesOf(c)
    BY <1>1
  <2>4. Answered(c, d, a[k - 1], lines[k], isWrite, AccessLine(c, a[k - 1], lines[k], isWrite))
    BY <2>1, <2>2, <2>3, OneLine
  <2>5. a[k] \in Accesses(c, d + 1)
    BY <2>3, <2>4 DEF Answered
  <2>. QED
    BY <1>2, <2>1, <2>2, <2>5
<1>5. \A k \in 0 .. n : k \in P
  BY <1>3, <1>4, CountUp
<1>. QED
  BY <1>1, <1>2, <1>5

\* An access of one line.
LEMMA AccessOfOne ==
    ASSUME NEW c, NEW sets, NEW l, NEW isWrite
    PROVE  Access(c, sets, <<l>>, isWrite) = AccessLine(c, Before(sets), l, isWrite)
<1>1. PICK lines : lines = <<l>>
  OBVIOUS
<1>2. DOMAIN lines = 1 .. 1 /\ lines[1] = l
  BY <1>1
<1>3. PICK a : /\ a[0] = Before(sets)
               /\ \A k \in 1 .. 1 : a[k] = AccessLine(c, a[k - 1], lines[k], isWrite)
               /\ Access(c, sets, lines, isWrite) = a[1]
  <2>1. LineByLine(c, sets, lines, isWrite, 1)
    BY <1>2, AccessSteps
  <2>. QED
    BY <2>1 DEF LineByLine
<1>4. a[1] = AccessLine(c, a[0], lines[1], isWrite)
  BY <1>3
<1>. QED
  BY <1>1, <1>2, <1>3, <1>4

\* il1 is asked for one line, as for a write, and its clock stands.
LEMMA SingleLineType ==
    ASSUME NEW c \in Levels, NEW b \in Nat, NEW sets \in SetsOf(c, b), NEW l \in LinesOf(c)
    PROVE  /\ AccessSingleLine(c, sets, l).sets \in SetsOf(c, b)
           /\ AccessSingleLine(c, sets, l).allHit \in BOOLEAN
<1>1. PICK h \in Sets(c) : h = l % NUM_SETS[c]
  BY SetOfLine
<1>2. PICK set \in RoundRobin(c) : set = sets[h] /\ set.curtime <= b
  BY DEF SetsOf
<1>3. PICK fills \in BOOLEAN : fills <=> WaysWith(set, l) = {} /\ Allocates(c, TRUE)
  OBVIOUS
<1>4. PICK new : new = IF fills THEN Replaced(set, l, TRUE) ELSE Found(set, l, TRUE)
  OBVIOUS
<1>5. PICK after : after = [sets EXCEPT ![h] = new]
  OBVIOUS
<1>6. after \in SetsOf(c, b)
  <2>1. Asked(c, sets, set, l, TRUE, fills, after)
    BY <1>1, <1>2, <1>4, <1>5 DEF Asked
  <2>2. AskedFor(c, sets, set, l, b, TRUE, fills, after)
    BY <1>2, <2>1, LineInCache
  <2>. QED
    BY <2>2 DEF AskedFor
<1>7. AccessSingleLine(c, sets, l) = [sets |-> after, allHit |-> ~ (WaysWith(set, l) = {})]
  <2>1. (WaysWith(set, l) = {} /\ Allocates(c, TRUE)) = fills
    BY <1>3
  <2>2. h \in DOMAIN sets
    BY <1>1 DEF SetsOf
  <2>. QED
    BY <1>1, <1>2, <1>4, <1>5, <2>1, <2>2 DEF AccessSingleLine
<1>. QED
  BY <1>6, <1>7

-----------------------------------------------------------------------------
(* What is recorded.                                                       *)

Records == [line : Lines, rw : {"load", "store"}, ts : {0}]

LinesIn(recs, rw) == {recs[k].line : k \in {j \in DOMAIN recs : recs[j].rw = rw}}

\* A record alone, and what two records follow.
LEMMA RecordsInSeq ==
    /\ <<>> \in Seq(Records)
    /\ \A l \in Lines, rw \in {"load", "store"} : <<Rec(l, rw)>> \in Seq(Records)
    /\ \A r, s \in Seq(Records) : r \o s \in Seq(Records)
<1>1. \A l \in Lines, rw \in {"load", "store"} : Rec(l, rw) \in Records
  BY DEF Rec, Records
<1>. QED
  BY <1>1

LEMMA LinesInEmpty ==
    \A rw : LinesIn(<<>>, rw) = {}
BY DEF LinesIn

LEMMA LinesInOne ==
    ASSUME NEW l, NEW x, NEW rw
    PROVE  LinesIn(<<Rec(l, x)>>, rw) = IF x = rw THEN {l} ELSE {}
<1>1. PICK s : s = <<Rec(l, x)>>
  OBVIOUS
<1>2. DOMAIN s = {1} /\ s[1].line = l /\ s[1].rw = x
  BY <1>1 DEF Rec
<1>3. LinesIn(s, rw) = IF x = rw THEN {l} ELSE {}
  BY <1>2 DEF LinesIn
<1>. QED
  BY <1>1, <1>3

LEMMA LinesInBoth ==
    ASSUME NEW r \in Seq(Records), NEW s \in Seq(Records), NEW rw
    PROVE  LinesIn(r \o s, rw) = LinesIn(r, rw) \cup LinesIn(s, rw)
<1>1. PICK t : t = r \o s
  OBVIOUS
<1>2. PICK m \in Nat, n \in Nat : /\ m = Len(r) /\ n = Len(s)
                                  /\ DOMAIN r = 1 .. m /\ DOMAIN s = 1 .. n
                                  /\ DOMAIN t = 1 .. m + n
  BY <1>1
<1>3. \A k \in 1 .. m : t[k] = r[k]
  BY <1>1, <1>2
<1>4. \A k \in 1 .. n : t[m + k] = s[k]
  BY <1>1, <1>2
<1>5. ASSUME NEW x \in LinesIn(t, rw)
      PROVE  x \in LinesIn(r, rw) \cup LinesIn(s, rw)
  <2>1. PICK k \in 1 .. m + n : t[k].rw = rw /\ x = t[k].line
    BY <1>2 DEF LinesIn
  <2>2. CASE k <= m
    <3>1. k \in 1 .. m
      BY <2>2
    <3>. QED
      BY <1>2, <1>3, <2>1, <3>1 DEF LinesIn
  <2>3. CASE ~ (k <= m)
    <3>1. PICK j \in 1 .. n : k = m + j
      <4>1. k - m \in 1 .. n /\ k = m + (k - m)
        BY <2>3
      <4>. QED
        BY <4>1
    <3>. QED
      BY <1>2, <1>4, <2>1, <3>1 DEF LinesIn
  <2>. QED
    BY <2>2, <2>3
<1>6. ASSUME NEW x \in LinesIn(r, rw)
      PROVE  x \in LinesIn(t, rw)
  <2>1. PICK k \in 1 .. m : r[k].rw = rw /\ x = r[k].line
    BY <1>2 DEF LinesIn
  <2>2. k \in 1 .. m + n
    OBVIOUS
  <2>. QED
    BY <1>2, <1>3, <2>1, <2>2 DEF LinesIn
<1>7. ASSUME NEW x \in LinesIn(s, rw)
      PROVE  x \in LinesIn(t, rw)
  <2>1. PICK k \in 1 .. n : s[k].rw = rw /\ x = s[k].line
    BY <1>2 DEF LinesIn
  <2>2. m + k \in 1 .. m + n
    OBVIOUS
  <2>. QED
    BY <1>2, <1>4, <2>1, <2>2 DEF LinesIn
<1>. QED
  BY <1>1, <1>5, <1>6, <1>7

\* What a miss of ul3 writes back
WritePart(e) == IF e = NoTag THEN <<>> ELSE <<Rec(e, "store")>>

LEMMA Parts ==
    ASSUME NEW l \in Lines, NEW dirtyEv_fromL2 \in BOOLEAN, NEW e \in Lines \cup {NoTag}
    PROVE  /\ MissRead(l, dirtyEv_fromL2) \in Seq(Records)
           /\ WritePart(e) \in Seq(Records)
           /\ LinesIn(MissRead(l, dirtyEv_fromL2), "load") = IF dirtyEv_fromL2 THEN {} ELSE {l}
           /\ LinesIn(MissRead(l, dirtyEv_fromL2), "store") = {}
           /\ LinesIn(WritePart(e), "load") = {}
           /\ LinesIn(WritePart(e), "store") = IF e = NoTag THEN {} ELSE {e}
           /\ MissRead(l, dirtyEv_fromL2) \o WritePart(e) \in Ul3Answers(l, 0, dirtyEv_fromL2)
<1>0. "load" # "store"
  OBVIOUS
<1>1. LinesIn(<<Rec(l, "load")>>, "load") = {l} /\ LinesIn(<<Rec(l, "load")>>, "store") = {}
  BY <1>0, LinesInOne
<1>2. LinesIn(<<Rec(e, "store")>>, "store") = {e} /\ LinesIn(<<Rec(e, "store")>>, "load") = {}
  BY <1>0, LinesInOne
<1>3. MissRead(l, dirtyEv_fromL2) \in Seq(Records)
  BY RecordsInSeq DEF MissRead
<1>4. WritePart(e) \in Seq(Records)
  BY RecordsInSeq DEF WritePart
<1>5. MissRead(l, dirtyEv_fromL2) \o WritePart(e) \in Ul3Answers(l, 0, dirtyEv_fromL2)
  <2>1. PICK read \in Seq(Records) : read = MissRead(l, dirtyEv_fromL2)
    BY <1>3
  <2>2. read = IF dirtyEv_fromL2 THEN <<>> ELSE <<[line |-> l, rw |-> "load", ts |-> 0]>>
    BY <2>1 DEF MissRead, Rec
  <2>3. CASE e = NoTag
    <3>1. read \o WritePart(e) = read
      BY <2>3 DEF WritePart
    <3>. QED
      BY <2>1, <2>2, <3>1 DEF Ul3Answers
  <2>4. CASE e # NoTag
    <3>1. read \o WritePart(e) = Append(read, [line |-> e, rw |-> "store", ts |-> 0])
      BY <2>4 DEF WritePart, Rec
    <3>. QED
      BY <2>1, <2>2, <2>4, <3>1 DEF Ul3Answers
  <2>. QED
    BY <2>3, <2>4
<1>6. /\ LinesIn(MissRead(l, dirtyEv_fromL2), "load") = IF dirtyEv_fromL2 THEN {} ELSE {l}
      /\ LinesIn(MissRead(l, dirtyEv_fromL2), "store") = {}
  BY <1>1, LinesInEmpty DEF MissRead
<1>7. /\ LinesIn(WritePart(e), "load") = {}
      /\ LinesIn(WritePart(e), "store") = IF e = NoTag THEN {} ELSE {e}
  BY <1>2, LinesInEmpty DEF WritePart
<1>. QED
  BY <1>3, <1>4, <1>5, <1>6, <1>7

-----------------------------------------------------------------------------
(* The levels of a thread.                                                 *)

\* A look into ul3 leaves it of the type, and gives an answer that Tracer
\* expects.
LEMMA Ul3Type ==
    ASSUME NEW b \in Nat, NEW n \in Nat, n >= 1, b + n <= MaxTime,
           NEW sets \in SetsOf("ul3", b), NEW lines \in [1 .. n -> Lines],
           NEW isWrite \in BOOLEAN, NEW dirtyEv_fromL2 \in BOOLEAN,
           NEW r, r = Ul3Access(sets, lines, isWrite, dirtyEv_fromL2)
    PROVE  /\ r.sets \in SetsOf("ul3", b + n)
           /\ r.recs \in Seq(Records)
           /\ r.recs \in Ul3Answers(lines[1], 0, dirtyEv_fromL2)
<1>1. PICK c \in Levels : c = "ul3" /\ LinesOf(c) = Lines
  BY DEF Levels, LinesOf
<1>2. PICK a \in Accesses(c, b + n) : a = Access(c, sets, lines, isWrite)
  BY <1>1, AccessType
<1>3. a.sets \in SetsOf("ul3", b + n) /\ a.evicted_line \in Lines \cup {NoTag}
  BY <1>1 DEF Accesses
<1>4. PICK l \in Lines : l = lines[1]
  <2>1. 1 \in 1 .. n
    OBVIOUS
  <2>. QED
    BY <2>1
<1>5. PICK p : p = MissRead(l, dirtyEv_fromL2) \o WritePart(a.evicted_line)
  OBVIOUS
<1>6. p \in Seq(Records) /\ p \in Ul3Answers(l, 0, dirtyEv_fromL2)
  <2>1. PICK e \in Lines \cup {NoTag} : e = a.evicted_line
    BY <1>3
  <2>2. MissRead(l, dirtyEv_fromL2) \in Seq(Records) /\ WritePart(e) \in Seq(Records)
    BY Parts
  <2>3. MissRead(l, dirtyEv_fromL2) \o WritePart(e) \in Ul3Answers(l, 0, dirtyEv_fromL2)
    BY Parts
  <2>. QED
    BY <1>5, <2>1, <2>2, <2>3, RecordsInSeq
<1>7. r = [sets |-> a.sets, recs |-> IF a.allHit THEN <<>> ELSE p]
  BY <1>1, <1>2, <1>4, <1>5 DEF Ul3Access, WritePart
<1>8. <<>> \in Seq(Records) /\ <<>> \in Ul3Answers(l, 0, dirtyEv_fromL2)
  BY RecordsInSeq DEF Ul3Answers
<1>. QED
  BY <1>3, <1>4, <1>6, <1>7, <1>8

LEMMA Ul3TypeOfOne ==
    ASSUME NEW b \in Nat, b + 1 <= MaxTime, NEW sets \in SetsOf("ul3", b),
           NEW l \in Lines, NEW isWrite \in BOOLEAN, NEW dirtyEv_fromL2 \in BOOLEAN
    PROVE  /\ Ul3Access(sets, <<l>>, isWrite, dirtyEv_fromL2).sets \in SetsOf("ul3", b + 1)
           /\ Ul3Access(sets, <<l>>, isWrite, dirtyEv_fromL2).recs \in Seq(Records)
           /\ Ul3Access(sets, <<l>>, isWrite, dirtyEv_fromL2).recs
                 \in Ul3Answers(l, 0, dirtyEv_fromL2)
<1>1. PICK n \in Nat : n = 1
  OBVIOUS
<1>2. PICK lines : lines = <<l>>
  OBVIOUS
<1>3. lines = [k \in 1 .. 1 |-> l] /\ lines[1] = l
  BY <1>2
<1>4. lines \in [1 .. n -> Lines]
  BY <1>1, <1>3
<1>5. n >= 1 /\ b + n <= MaxTime
  BY <1>1
<1>6. PICK r : r = Ul3Access(sets, lines, isWrite, dirtyEv_fromL2)
  OBVIOUS
<1>7. /\ r.sets \in SetsOf("ul3", b + n)
      /\ r.recs \in Seq(Records)
      /\ r.recs \in Ul3Answers(lines[1], 0, dirtyEv_fromL2)
  BY <1>4, <1>5, <1>6, Ul3Type
<1>. QED
  BY <1>1, <1>2, <1>3, <1>6, <1>7

\* ul3 and the trace, after ul3 was asked for a line: a line that is missed is
\* read, unless it comes from ul2, and what is pushed out dirty is written.
Ul3Asked(sets, l, isWrite, dirtyEv_fromL2, r) ==
    /\ LinesIn(r.recs, "load") = IF dirtyEv_fromL2 \/ Holds("ul3", sets, l) THEN {} ELSE {l}
    /\ \A k : Holds("ul3", r.sets, k) => Holds("ul3", sets, k) \/ k = l
    /\ \A k : HoldsDirty("ul3", r.sets, k) => HoldsDirty("ul3", sets, k) \/ (isWrite /\ k = l)
    /\ \A k \in Lines : HoldsDirty("ul3", sets, k) =>
          HoldsDirty("ul3", r.sets, k) \/ k \in LinesIn(r.recs, "store")
    /\ \A k \in LinesIn(r.recs, "store") : HoldsDirty("ul3", sets, k)
    /\ isWrite /\ ALLOCATION["ul3"] = "store_allocate" => HoldsDirty("ul3", r.sets, l)

LEMMA Ul3Line ==
    ASSUME NEW b \in Nat, b + 1 <= MaxTime, NEW sets \in SetsOf("ul3", b),
           NEW l \in Lines, NEW isWrite \in BOOLEAN, NEW dirtyEv_fromL2 \in BOOLEAN
    PROVE  Ul3Asked(sets, l, isWrite, dirtyEv_fromL2,
                    Ul3Access(sets, <<l>>, isWrite, dirtyEv_fromL2))
<1>1. PICK c \in Levels : c = "ul3" /\ LinesOf(c) = Lines
  BY DEF Levels, LinesOf
<1>2. PICK acc \in Accesses(c, b) : acc = Before(sets)
  BY <1>1 DEF Accesses, Before
<1>3. acc.sets = sets /\ acc.allHit = TRUE /\ acc.evicted_line = NoTag
  BY <1>2 DEF Before
<1>4. PICK a : a = AccessLine(c, acc, l, isWrite)
  OBVIOUS
<1>5. a = Access(c, sets, <<l>>, isWrite)
  BY <1>2, <1>4, AccessOfOne
<1>6. /\ a \in Accesses(c, b + 1)
      /\ a.allHit <=> Holds(c, sets, l)
      /\ \E fills \in BOOLEAN :
            /\ fills <=> ~Holds(c, sets, l) /\ Allocates(c, isWrite)
            /\ ~fills => a.evicted_line = NoTag
            /\ fills /\ a.evicted_line # NoTag => HoldsDirty(c, sets, a.evicted_line)
            /\ \A k : Holds(c, a.sets, k) => Holds(c, sets, k) \/ (fills /\ k = l)
            /\ \A k : HoldsDirty(c, a.sets, k) => HoldsDirty(c, sets, k) \/ (isWrite /\ k = l)
            /\ \A k : HoldsDirty(c, sets, k) =>
                  HoldsDirty(c, a.sets, k) \/ (fills /\ k = a.evicted_line)
            /\ isWrite /\ (fills \/ Holds(c, sets, l)) => HoldsDirty(c, a.sets, l)
  <2>1. Answered(c, b, acc, l, isWrite, a)
    BY <1>1, <1>4, OneLine
  <2>. QED
    BY <1>3, <2>1 DEF Answered
<1>7. PICK fills \in BOOLEAN :
            /\ fills <=> ~Holds(c, sets, l) /\ Allocates(c, isWrite)
            /\ ~fills => a.evicted_line = NoTag
            /\ fills /\ a.evicted_line # NoTag => HoldsDirty(c, sets, a.evicted_line)
            /\ \A k : Holds(c, a.sets, k) => Holds(c, sets, k) \/ (fills /\ k = l)
            /\ \A k : HoldsDirty(c, a.sets, k) => HoldsDirty(c, sets, k) \/ (isWrite /\ k = l)
            /\ \A k : HoldsDirty(c, sets, k) =>
                  HoldsDirty(c, a.sets, k) \/ (fills /\ k = a.evicted_line)
            /\ isWrite /\ (fills \/ Holds(c, sets, l)) => HoldsDirty(c, a.sets, l)
  BY <1>6
<1>8. PICK e \in Lines \cup {NoTag} : e = a.evicted_line
  BY <1>1, <1>6 DEF Accesses
<1>9. PICK p \in Seq(Records) : p = MissRead(l, dirtyEv_fromL2) \o WritePart(e)
  BY Parts, RecordsInSeq
<1>10. /\ LinesIn(p, "load") = IF dirtyEv_fromL2 THEN {} ELSE {l}
       /\ LinesIn(p, "store") = IF e = NoTag THEN {} ELSE {e}
  <2>1. PICK q \in Seq(Records), s \in Seq(Records) :
           q = MissRead(l, dirtyEv_fromL2) /\ s = WritePart(e)
    BY Parts
  <2>2. LinesIn(p, "load") = LinesIn(q, "load") \cup LinesIn(s, "load")
    BY <1>9, <2>1, LinesInBoth
  <2>3. LinesIn(p, "store") = LinesIn(q, "store") \cup LinesIn(s, "store")
    BY <1>9, <2>1, LinesInBoth
  <2>4. /\ LinesIn(q, "load") = IF dirtyEv_fromL2 THEN {} ELSE {l}
        /\ LinesIn(q, "store") = {}
        /\ LinesIn(s, "load") = {}
        /\ LinesIn(s, "store") = IF e = NoTag THEN {} ELSE {e}
    BY <2>1, Parts
  <2>. QED
    BY <2>2, <2>3, <2>4
<1>11. PICK r : r = Ul3Access(sets, <<l>>, isWrite, dirtyEv_fromL2)
  OBVIOUS
<1>12. r = [sets |-> a.sets, recs |-> IF a.allHit THEN <<>> ELSE p]
  <2>1. PICK lines : lines = <<l>>
    OBVIOUS
  <2>2. lines[1] = l
    BY <2>1
  <2>3. r = Ul3Access(sets, lines, isWrite, dirtyEv_fromL2)
    BY <1>11, <2>1
  <2>4. a = Access("ul3", sets, lines, isWrite)
    BY <1>1, <1>5, <2>1
  <2>. QED
    BY <1>8, <1>9, <2>2, <2>3, <2>4 DEF Ul3Access, WritePart
<1>13. r.sets = a.sets /\ r.recs = IF Holds(c, sets, l) THEN <<>> ELSE p
  BY <1>6, <1>12
<1>14. LinesIn(r.recs, "load") = IF dirtyEv_fromL2 \/ Holds(c, sets, l) THEN {} ELSE {l}
  BY <1>10, <1>13, LinesInEmpty
<1>15. ASSUME NEW k \in Lines, HoldsDirty(c, sets, k)
       PROVE  HoldsDirty(c, r.sets, k) \/ k \in LinesIn(r.recs, "store")
  <2>1. CASE fills /\ k = e
    <3>1. ~Holds(c, sets, l) /\ e # NoTag
      BY <1>7, <2>1, Constants
    <3>. QED
      BY <1>10, <1>13, <2>1, <3>1
  <2>. QED
    BY <1>7, <1>8, <1>13, <1>15, <2>1
<1>16. ASSUME NEW k \in LinesIn(r.recs, "store")
       PROVE  HoldsDirty(c, sets, k)
  <2>1. ~Holds(c, sets, l) /\ e # NoTag /\ k = e
    BY <1>10, <1>13, LinesInEmpty
  <2>. QED
    BY <1>7, <1>8, <2>1
<1>17. ASSUME isWrite, ALLOCATION["ul3"] = "store_allocate"
       PROVE  HoldsDirty(c, r.sets, l)
  <2>1. Allocates(c, isWrite)
    BY <1>1, <1>17 DEF Allocates
  <2>. QED
    BY <1>7, <1>13, <1>17, <2>1
<1>18. Ul3Asked(sets, l, isWrite, dirtyEv_fromL2, r)
  BY <1>1, <1>7, <1>13, <1>14, <1>15, <1>16, <1>17 DEF Ul3Asked
<1>. QED
  BY <1>11, <1>18

LEMMA SetsLater ==
    ASSUME NEW c \in Levels, NEW b \in Nat, NEW t \in Nat, b <= t
    PROVE  SetsOf(c, b) \subseteq SetsOf(c, t)
<1>. SUFFICES ASSUME NEW sets \in SetsOf(c, b) PROVE sets \in SetsOf(c, t)
  OBVIOUS
<1>1. \A h \in Sets(c) : sets[h].curtime \in Nat /\ sets[h].curtime <= b
  BY SetFacts DEF SetsOf
<1>2. \A h \in Sets(c) : sets[h].curtime <= t
  BY <1>1
<1>. QED
  BY <1>2 DEF SetsOf

\* An answer of ul2 is one of ul3, or two.
LEMMA Ul2AnswerOf ==
    ASSUME NEW l \in Lines, NEW x \in Seq(Records), x \in Ul3Answers(l, 0, FALSE)
    PROVE  /\ <<>> \in Ul2Answers(l, 0)
           /\ x \in Ul2Answers(l, 0)
           /\ \A v \in Lines : \A y \in Ul3Answers(v, 0, TRUE) : x \o y \in Ul2Answers(l, 0)
<1>1. PICK E : E = {<<>>} \cup UNION {Ul3Answers(v, 0, TRUE) : v \in Lines}
  OBVIOUS
<1>2. Ul2Answers(l, 0) = {<<>>} \cup {a[1] \o a[2] : a \in Ul3Answers(l, 0, FALSE) \X E}
  BY <1>1 DEF Ul2Answers
<1>3. ASSUME NEW y \in E
      PROVE  x \o y \in Ul2Answers(l, 0)
  <2>1. PICK a \in Ul3Answers(l, 0, FALSE) \X E : a[1] = x /\ a[2] = y
    <3>1. <<x, y>> \in Ul3Answers(l, 0, FALSE) \X E
      OBVIOUS
    <3>. QED
      BY <3>1
  <2>. QED
    BY <1>2, <2>1
<1>4. <<>> \in E /\ x \o <<>> = x
  BY <1>1
<1>5. \A v \in Lines : Ul3Answers(v, 0, TRUE) \subseteq E
  BY <1>1
<1>. QED
  BY <1>2, <1>3, <1>4, <1>5

\* A reference leaves ul2 and ul3 of the type, and records what Tracer expects.
LEMMA Ul2Type ==
    ASSUME NEW b \in Nat, NEW n \in Nat, n >= 1, b + n + 1 <= MaxTime,
           caches["ul2"] \in SetsOf("ul2", b), caches["ul3"] \in SetsOf("ul3", b),
           NEW lines \in [1 .. n -> Lines], NEW isWrite \in BOOLEAN
    PROVE  /\ Ul2Access(lines, isWrite).ul2 \in SetsOf("ul2", MaxTime)
           /\ Ul2Access(lines, isWrite).ul3 \in SetsOf("ul3", MaxTime)
           /\ Ul2Access(lines, isWrite).recs \in Seq(Records)
           /\ Ul2Access(lines, isWrite).recs \in Ul2Answers(lines[1], 0)
<1>1. /\ "ul2" \in Levels /\ "ul3" \in Levels
      /\ LinesOf("ul2") = Lines /\ LinesOf("ul3") = Lines
  BY DEF Levels, LinesOf
<1>2. /\ b + n \in Nat /\ b + n <= MaxTime /\ MaxTime \in Nat /\ b <= MaxTime
      /\ b + n + 1 \in Nat
  BY Constants
<1>3. PICK a2 \in Accesses("ul2", b + n) : a2 = Access("ul2", caches["ul2"], lines, isWrite)
  BY <1>1, <1>2, AccessType
<1>4. a2.sets \in SetsOf("ul2", MaxTime) /\ a2.evicted_line \in Lines \cup {NoTag}
  <2>1. a2.sets \in SetsOf("ul2", b + n) /\ a2.evicted_line \in Lines \cup {NoTag}
    BY <1>1 DEF Accesses
  <2>. QED
    BY <1>1, <1>2, <2>1, SetsLater
<1>5. PICK l \in Lines : l = lines[1]
  <2>1. 1 \in 1 .. n
    OBVIOUS
  <2>. QED
    BY <2>1
<1>6. PICK a3 : a3 = Ul3Access(caches["ul3"], lines, isWrite, FALSE)
  OBVIOUS
<1>7. /\ a3.sets \in SetsOf("ul3", b + n)
      /\ a3.recs \in Seq(Records)
      /\ a3.recs \in Ul3Answers(l, 0, FALSE)
  BY <1>2, <1>5, <1>6, Ul3Type
<1>8. PICK a4 : a4 = Ul3Access(a3.sets, <<a2.evicted_line>>, TRUE, TRUE)
  OBVIOUS
<1>9. PICK r : r = Ul2Access(lines, isWrite)
  OBVIOUS
<1>10. r = IF a2.allHit
           THEN [ul2 |-> a2.sets, ul3 |-> caches["ul3"], recs |-> <<>>]
           ELSE IF a2.evicted_line = NoTag
           THEN [ul2 |-> a2.sets, ul3 |-> a3.sets, recs |-> a3.recs]
           ELSE [ul2 |-> a2.sets, ul3 |-> a4.sets, recs |-> a3.recs \o a4.recs]
  BY <1>3, <1>6, <1>8, <1>9 DEF Ul2Access
<1>11. CASE a2.allHit
  <2>1. caches["ul3"] \in SetsOf("ul3", MaxTime)
    BY <1>1, <1>2, SetsLater
  <2>2. <<>> \in Ul2Answers(l, 0) /\ <<>> \in Seq(Records)
    BY DEF Ul2Answers
  <2>. QED
    BY <1>4, <1>5, <1>9, <1>10, <1>11, <2>1, <2>2
<1>12. CASE ~a2.allHit /\ a2.evicted_line = NoTag
  <2>1. a3.sets \in SetsOf("ul3", MaxTime)
    BY <1>1, <1>2, <1>7, SetsLater
  <2>2. a3.recs \in Ul2Answers(l, 0)
    BY <1>7, Ul2AnswerOf
  <2>. QED
    BY <1>4, <1>5, <1>7, <1>9, <1>10, <1>12, <2>1, <2>2
<1>13. CASE ~a2.allHit /\ a2.evicted_line # NoTag
  <2>1. PICK v \in Lines : v = a2.evicted_line
    BY <1>4, <1>13
  <2>2. PICK d \in Nat : d = b + n /\ d + 1 <= MaxTime /\ d + 1 \in Nat
    BY <1>2
  <2>3. /\ a4.sets \in SetsOf("ul3", d + 1)
        /\ a4.recs \in Seq(Records) /\ a4.recs \in Ul3Answers(v, 0, TRUE)
    BY <1>7, <1>8, <2>1, <2>2, Ul3TypeOfOne
  <2>4. a4.sets \in SetsOf("ul3", MaxTime)
    BY <1>1, <1>2, <2>2, <2>3, SetsLater
  <2>5. a3.recs \o a4.recs \in Seq(Records) /\ a3.recs \o a4.recs \in Ul2Answers(l, 0)
    BY <1>7, <2>3, Ul2AnswerOf, RecordsInSeq
  <2>. QED
    BY <1>4, <1>5, <1>9, <1>10, <1>13, <2>4, <2>5
<1>. QED
  BY <1>11, <1>12, <1>13

InUl2OrUl3(s2, s3, l) == Holds("ul2", s2, l) \/ Holds("ul3", s3, l)

DirtyInUl2OrUl3(s2, s3, l) == HoldsDirty("ul2", s2, l) \/ HoldsDirty("ul3", s3, l)

\* ul2, ul3 and the trace, after a reference to a line
Ul2Asked(s2, s3, l, isWrite, r) ==
    /\ LinesIn(r.recs, "load") = IF InUl2OrUl3(s2, s3, l) THEN {} ELSE {l}
    /\ \A k : InUl2OrUl3(r.ul2, r.ul3, k) => InUl2OrUl3(s2, s3, k) \/ k = l
    /\ ALLOCATION["ul3"] = "store_allocate" =>
          \A k \in Lines : DirtyInUl2OrUl3(s2, s3, k) =>
             DirtyInUl2OrUl3(r.ul2, r.ul3, k) \/ k \in LinesIn(r.recs, "store")
    /\ \A k \in LinesIn(r.recs, "store") :
          DirtyInUl2OrUl3(s2, s3, k) \/ (isWrite /\ k = l)

LEMMA Ul2OfOneLine ==
    ASSUME NEW b \in Nat, b + 2 <= MaxTime,
           caches["ul2"] \in SetsOf("ul2", b), caches["ul3"] \in SetsOf("ul3", b),
           NEW l \in Lines, NEW isWrite \in BOOLEAN
    PROVE  Ul2Asked(caches["ul2"], caches["ul3"], l, isWrite, Ul2Access(<<l>>, isWrite))
<1>0. PICK c \in Levels : c = "ul2" /\ LinesOf(c) = Lines
  BY DEF Levels, LinesOf
<1>1. PICK s2 \in SetsOf(c, b) : c = "ul2" /\ s2 = caches["ul2"] /\ LinesOf(c) = Lines
  BY <1>0
<1>2. PICK s3 \in SetsOf("ul3", b) : s3 = caches["ul3"]
  OBVIOUS
<1>3. PICK acc \in Accesses(c, b) : acc = Before(s2)
  BY <1>1 DEF Accesses, Before
<1>4. acc.sets = s2 /\ acc.allHit = TRUE /\ acc.evicted_line = NoTag
  BY <1>3 DEF Before
<1>5. PICK a2 : a2 = AccessLine(c, acc, l, isWrite)
  OBVIOUS
<1>6. a2 = Access(c, s2, <<l>>, isWrite)
  BY <1>3, <1>5, AccessOfOne
<1>7. Answered(c, b, acc, l, isWrite, a2)
  <2>1. b + 1 <= MaxTime
    BY Constants
  <2>. QED
    BY <1>1, <1>5, <2>1, OneLine
<1>8. PICK fills \in BOOLEAN :
         /\ fills <=> ~Holds(c, s2, l) /\ Allocates(c, isWrite)
         /\ ~fills => a2.evicted_line = NoTag
         /\ fills /\ a2.evicted_line # NoTag => HoldsDirty(c, s2, a2.evicted_line)
         /\ \A k : Holds(c, a2.sets, k) => Holds(c, s2, k) \/ (fills /\ k = l)
         /\ \A k : HoldsDirty(c, a2.sets, k) => HoldsDirty(c, s2, k) \/ (isWrite /\ k = l)
         /\ \A k : HoldsDirty(c, s2, k) =>
               HoldsDirty(c, a2.sets, k) \/ (fills /\ k = a2.evicted_line)
  BY <1>4, <1>7 DEF Answered
<1>9. a2.allHit <=> Holds(c, s2, l)
  BY <1>4, <1>7 DEF Answered
<1>10. a2.evicted_line \in Lines \cup {NoTag}
  BY <1>1, <1>7 DEF Answered, Accesses
<1>11. PICK one : one = <<l>>
  OBVIOUS
<1>12. PICK a3 : a3 = Ul3Access(s3, one, isWrite, FALSE)
  OBVIOUS
<1>13. a3.sets \in SetsOf("ul3", b + 1) /\ a3.recs \in Seq(Records)
  <2>1. b + 1 <= MaxTime
    BY Constants
  <2>. QED
    BY <1>11, <1>12, <2>1, Ul3TypeOfOne
<1>14. Ul3Asked(s3, l, isWrite, FALSE, a3)
  <2>1. b + 1 <= MaxTime
    BY Constants
  <2>. QED
    BY <1>11, <1>12, <2>1, Ul3Line
<1>15. PICK a4 : a4 = Ul3Access(a3.sets, <<a2.evicted_line>>, TRUE, TRUE)
  OBVIOUS
<1>16. PICK r : r = Ul2Access(<<l>>, isWrite)
  OBVIOUS
<1>17. r = IF a2.allHit
           THEN [ul2 |-> a2.sets, ul3 |-> s3, recs |-> <<>>]
           ELSE IF a2.evicted_line = NoTag
           THEN [ul2 |-> a2.sets, ul3 |-> a3.sets, recs |-> a3.recs]
           ELSE [ul2 |-> a2.sets, ul3 |-> a4.sets, recs |-> a3.recs \o a4.recs]
  <2>1. r = Ul2Access(one, isWrite) /\ a2 = Access("ul2", caches["ul2"], one, isWrite)
    BY <1>1, <1>6, <1>11, <1>16
  <2>. QED
    BY <1>2, <1>12, <1>15, <2>1 DEF Ul2Access
<1>18. \A s, k : HoldsDirty("ul2", s, k) => Holds("ul2", s, k)
  BY DEF Holds, HoldsDirty
<1>19. CASE a2.allHit
  <2>1. r.ul2 = a2.sets /\ r.ul3 = s3 /\ r.recs = <<>>
    BY <1>17, <1>19
  <2>2. ~fills /\ Holds("ul2", s2, l)
    BY <1>1, <1>8, <1>9, <1>19
  <2>3. LinesIn(r.recs, "load") = {} /\ LinesIn(r.recs, "store") = {}
    BY <2>1, LinesInEmpty
  <2>. QED
    BY <1>1, <1>2, <1>8, <1>16, <2>1, <2>2, <2>3
       DEF Ul2Asked, InUl2OrUl3, DirtyInUl2OrUl3
<1>20. CASE ~a2.allHit /\ a2.evicted_line = NoTag
  <2>1. r.ul2 = a2.sets /\ r.ul3 = a3.sets /\ r.recs = a3.recs
    BY <1>17, <1>20
  <2>2. ~Holds("ul2", s2, l)
    BY <1>1, <1>9, <1>20
  <2>3. \A k \in Lines : HoldsDirty("ul2", s2, k) => HoldsDirty("ul2", a2.sets, k)
    BY <1>1, <1>8, <1>20, Constants
  <2>. QED
    BY <1>1, <1>2, <1>8, <1>14, <1>16, <2>1, <2>2, <2>3
       DEF Ul2Asked, InUl2OrUl3, DirtyInUl2OrUl3, Ul3Asked
<1>21. CASE ~a2.allHit /\ a2.evicted_line # NoTag
  <2>1. PICK v \in Lines : v = a2.evicted_line
    BY <1>10, <1>21
  <2>2. r.ul2 = a2.sets /\ r.ul3 = a4.sets /\ r.recs = a3.recs \o a4.recs
    BY <1>17, <1>21
  <2>3. ~Holds("ul2", s2, l)
    BY <1>1, <1>9, <1>21
  <2>4. HoldsDirty("ul2", s2, v) /\ Holds("ul2", s2, v)
    BY <1>1, <1>8, <1>18, <1>21, <2>1
  <2>5. PICK d \in Nat : d = b + 1 /\ d + 1 <= MaxTime
    BY Constants
  <2>6. Ul3Asked(a3.sets, v, TRUE, TRUE, a4)
    BY <1>13, <1>15, <2>1, <2>5, Ul3Line
  <2>7. a4.recs \in Seq(Records)
    BY <1>13, <1>15, <2>1, <2>5, Ul3TypeOfOne
  <2>8. /\ LinesIn(r.recs, "load") = LinesIn(a3.recs, "load")
        /\ LinesIn(r.recs, "store") = LinesIn(a3.recs, "store") \cup LinesIn(a4.recs, "store")
    <3>1. LinesIn(a4.recs, "load") = {}
      BY <2>6 DEF Ul3Asked
    <3>2. LinesIn(r.recs, "load") = LinesIn(a3.recs, "load") \cup LinesIn(a4.recs, "load")
      BY <1>13, <2>2, <2>7, LinesInBoth
    <3>3. LinesIn(r.recs, "store") = LinesIn(a3.recs, "store") \cup LinesIn(a4.recs, "store")
      BY <1>13, <2>2, <2>7, LinesInBoth
    <3>. QED
      BY <3>1, <3>2, <3>3
  <2>9. LinesIn(r.recs, "load") = IF InUl2OrUl3(s2, s3, l) THEN {} ELSE {l}
    BY <1>14, <2>3, <2>8 DEF Ul3Asked, InUl2OrUl3
  <2>10. ASSUME NEW k, InUl2OrUl3(r.ul2, r.ul3, k)
         PROVE  InUl2OrUl3(s2, s3, k) \/ k = l
    <3>1. CASE Holds("ul2", r.ul2, k)
      BY <1>1, <1>8, <2>2, <3>1 DEF InUl2OrUl3
    <3>2. CASE Holds("ul3", r.ul3, k)
      <4>1. Holds("ul3", a3.sets, k) \/ k = v
        BY <2>2, <2>6, <3>2 DEF Ul3Asked
      <4>. QED
        BY <1>14, <2>4, <4>1 DEF InUl2OrUl3, Ul3Asked
    <3>. QED
      BY <2>10, <3>1, <3>2 DEF InUl2OrUl3
  <2>11. ASSUME ALLOCATION["ul3"] = "store_allocate",
                NEW k \in Lines, DirtyInUl2OrUl3(s2, s3, k)
         PROVE  DirtyInUl2OrUl3(r.ul2, r.ul3, k) \/ k \in LinesIn(r.recs, "store")
    <3>1. CASE HoldsDirty("ul2", s2, k)
      <4>1. HoldsDirty("ul2", a2.sets, k) \/ k = v
        BY <1>1, <1>8, <2>1, <3>1
      <4>2. HoldsDirty("ul3", a4.sets, v)
        BY <2>6, <2>11 DEF Ul3Asked
      <4>. QED
        BY <2>2, <4>1, <4>2 DEF DirtyInUl2OrUl3
    <3>2. CASE HoldsDirty("ul3", s3, k)
      <4>1. HoldsDirty("ul3", a3.sets, k) \/ k \in LinesIn(a3.recs, "store")
        BY <1>14, <3>2 DEF Ul3Asked
      <4>2. HoldsDirty("ul3", a3.sets, k) =>
               HoldsDirty("ul3", a4.sets, k) \/ k \in LinesIn(a4.recs, "store")
        BY <2>6 DEF Ul3Asked
      <4>. QED
        BY <2>2, <2>8, <4>1, <4>2 DEF DirtyInUl2OrUl3
    <3>. QED
      BY <2>11, <3>1, <3>2 DEF DirtyInUl2OrUl3
  <2>12. ASSUME NEW k \in LinesIn(r.recs, "store")
         PROVE  DirtyInUl2OrUl3(s2, s3, k) \/ (isWrite /\ k = l)
    <3>1. k \in LinesIn(a3.recs, "store") => HoldsDirty("ul3", s3, k)
      BY <1>14 DEF Ul3Asked
    <3>2. k \in LinesIn(a4.recs, "store") => HoldsDirty("ul3", a3.sets, k)
      BY <2>6 DEF Ul3Asked
    <3>3. HoldsDirty("ul3", a3.sets, k) => HoldsDirty("ul3", s3, k) \/ (isWrite /\ k = l)
      BY <1>14 DEF Ul3Asked
    <3>. QED
      BY <2>8, <2>12, <3>1, <3>2, <3>3 DEF DirtyInUl2OrUl3
  <2>13. Ul2Asked(s2, s3, l, isWrite, r)
    BY <2>9, <2>10, <2>11, <2>12 DEF Ul2Asked
  <2>. QED
    BY <1>1, <1>2, <1>16, <2>13
<1>. QED
  BY <1>19, <1>20, <1>21

-----------------------------------------------------------------------------
(* The invariant: every level has its lines where they belong.             *)

Inv ==
    /\ DOMAIN caches = Levels
    /\ \A c \in Levels : caches[c] \in SetsOf(c, MaxTime)

LEMMA InvOfInit == Init => Inv
<1>. SUFFICES ASSUME Init PROVE Inv
  OBVIOUS
<1>1. ASSUME NEW c \in Levels, NEW sets \in [Sets(c) -> EmptySets(c)]
      PROVE  sets \in SetsOf(c, MaxTime)
  <2>1. ASSUME NEW h \in Sets(c)
        PROVE  /\ sets[h] \in RoundRobin(c) /\ sets[h].curtime = 0
               /\ \A w \in Ways(c) : sets[h].tags[w].tag = NoTag
    <3>1. PICK tags \in [Ways(c) -> [tag : {NoTag}, is_dirty : BOOLEAN, ts : InitialTs]] :
             sets[h] = [tags |-> tags, next |-> NUM_WAYS[c] - 1, curtime |-> 0]
      <4>1. sets[h] \in EmptySets(c)
        OBVIOUS
      <4>. QED
        BY <4>1 DEF EmptySets
    <3>2. tags \in [Ways(c) -> CacheTag(c)]
      BY DEF CacheTag
    <3>3. NUM_WAYS[c] - 1 \in Ways(c) /\ 0 \in 0 .. MaxTime
      BY Constants DEF Ways
    <3>4. sets[h] \in RoundRobin(c)
      BY <3>1, <3>2, <3>3 DEF RoundRobin
    <3>. QED
      BY <3>1, <3>4
  <2>2. sets \in [Sets(c) -> RoundRobin(c)] /\ \A h \in Sets(c) : sets[h].curtime <= MaxTime
    BY <2>1, Constants
  <2>. QED
    BY <2>1, <2>2 DEF SetsOf, Placed
<1>2. PICK s1 \in [Sets("il1") -> EmptySets("il1")],
           s2 \in [Sets("ul2") -> EmptySets("ul2")],
           s3 \in [Sets("ul3") -> EmptySets("ul3")] :
              caches = [il1 |-> s1, ul2 |-> s2, ul3 |-> s3]
  BY DEF Init
<1>3. /\ s1 \in SetsOf("il1", MaxTime) /\ s2 \in SetsOf("ul2", MaxTime)
      /\ s3 \in SetsOf("ul3", MaxTime)
  BY <1>1 DEF Levels
<1>. QED
  BY <1>2, <1>3 DEF Inv, Levels

\* A step has time for two accesses of every level.
LEMMA TimeLeft ==
    ASSUME Inv, InTime
    PROVE  \E b \in Nat : b + 2 * MaxSpan = MaxTime /\ \A c \in Levels : caches[c] \in SetsOf(c, b)
<1>1. PICK n \in Nat : n = 2 * MaxSpan
  BY Constants
<1>2. ASSUME NEW c \in Levels, NEW h \in Sets(c)
      PROVE  caches[c][h].curtime \in Nat /\ caches[c][h].curtime + n <= MaxTime
  <2>1. caches[c][h] \in RoundRobin(c)
    BY DEF Inv, SetsOf
  <2>2. caches[c][h].curtime \in Nat
    BY <2>1, SetFacts
  <2>3. caches[c][h].curtime + n <= MaxTime
    BY <1>1 DEF InTime
  <2>. QED
    BY <2>2, <2>3
<1>3. PICK b \in Nat : b + n = MaxTime
  <2>1. "ul2" \in Levels
    BY DEF Levels
  <2>2. 0 \in Sets("ul2")
    BY <2>1, Constants DEF Sets
  <2>3. PICK t \in Nat : t + n <= MaxTime
    BY <1>2, <2>1, <2>2
  <2>4. MaxTime - n \in Nat /\ (MaxTime - n) + n = MaxTime
    BY <2>3, Constants
  <2>. QED
    BY <2>4
<1>4. ASSUME NEW c \in Levels
      PROVE  caches[c] \in SetsOf(c, b)
  <2>1. caches[c] \in [Sets(c) -> RoundRobin(c)] /\ Placed(c, caches[c])
    BY DEF Inv, SetsOf
  <2>2. \A h \in Sets(c) : caches[c][h].curtime <= b
    <3>. SUFFICES ASSUME NEW h \in Sets(c) PROVE caches[c][h].curtime <= b
      OBVIOUS
    <3>1. PICK t \in Nat : t = caches[c][h].curtime /\ t + n <= MaxTime
      BY <1>2
    <3>2. t <= b
      BY <1>3, <3>1, Constants
    <3>. QED
      BY <3>1, <3>2
  <2>. QED
    BY <2>1, <2>2 DEF SetsOf
<1>. QED
  BY <1>1, <1>3, <1>4

\* The line of ul2 that an instruction is in
LEMMA Ul2LineType ==
    ASSUME NEW f \in FetchLines
    PROVE  Ul2Line(f) \in Lines
<1>1. PICK l \in Lines : f = 2 * l \/ f = 2 * l + 1
  BY DEF FetchLines
<1>2. l \in Nat
  BY Constants
<1>3. f \div 2 = l
  BY <1>1, <1>2
<1>. QED
  BY <1>3 DEF Ul2Line

\* A step of a fetch that il1 does not have, or of a memory reference
Asks(lines, isWrite) ==
    /\ caches'["ul2"] = Ul2Access(lines, isWrite).ul2
    /\ caches'["ul3"] = Ul2Access(lines, isWrite).ul3
    /\ recorded' = Ul2Access(lines, isWrite).recs

\* A step of a fetch that il1 has
AsksNothing ==
    /\ caches'["ul2"] = caches["ul2"]
    /\ caches'["ul3"] = caches["ul3"]
    /\ recorded' = <<>>

LEMMA FetchStep ==
    ASSUME Inv, NEW f \in FetchLines, Fetch(f)
    PROVE  /\ Inv'
           /\ access' = [kind |-> "fetch", lines |-> <<f>>]
           /\ recorded' \in Seq(Records) /\ recorded' \in Ul2Answers(Ul2Line(f), 0)
           /\ AsksNothing \/ Asks(<<Ul2Line(f)>>, FALSE)
<1>1. PICK b \in Nat : b + 2 * MaxSpan = MaxTime /\ \A c \in Levels : caches[c] \in SetsOf(c, b)
  BY TimeLeft DEF Fetch
<1>2. PICK n \in Nat : n = 1
  OBVIOUS
<1>3. n >= 1 /\ b + n + 1 <= MaxTime /\ b <= MaxTime
  <2>1. PICK m \in Nat : m = MaxSpan /\ m >= 1
    BY Constants
  <2>. QED
    BY <1>1, <1>2, <2>1, Constants
<1>4. PICK l \in Lines : l = Ul2Line(f)
  BY Ul2LineType
<1>5. PICK lines : lines = <<l>>
  OBVIOUS
<1>6. lines \in [1 .. n -> Lines] /\ lines[1] = l
  <2>1. lines = [k \in 1 .. 1 |-> l] /\ lines[1] = l
    BY <1>5
  <2>. QED
    BY <1>2, <2>1
<1>7. PICK a2 : a2 = Ul2Access(lines, FALSE)
  OBVIOUS
<1>8. /\ "il1" \in Levels /\ "ul2" \in Levels /\ "ul3" \in Levels
      /\ LinesOf("il1") = FetchLines
  BY DEF Levels, LinesOf
<1>9. /\ a2.ul2 \in SetsOf("ul2", MaxTime) /\ a2.ul3 \in SetsOf("ul3", MaxTime)
      /\ a2.recs \in Seq(Records) /\ a2.recs \in Ul2Answers(l, 0)
  BY <1>1, <1>3, <1>6, <1>7, <1>8, Ul2Type
<1>10. PICK a1 : a1 = AccessSingleLine("il1", caches["il1"], f)
  OBVIOUS
<1>11. a1.sets \in SetsOf("il1", MaxTime)
  <2>1. a1.sets \in SetsOf("il1", b)
    BY <1>1, <1>8, <1>10, SingleLineType
  <2>. QED
    BY <1>3, <1>8, <2>1, SetsLater, Constants
<1>12. /\ caches' = IF a1.allHit THEN [caches EXCEPT !["il1"] = a1.sets]
                    ELSE [il1 |-> a1.sets, ul2 |-> a2.ul2, ul3 |-> a2.ul3]
       /\ recorded' = IF a1.allHit THEN <<>> ELSE a2.recs
       /\ access' = [kind |-> "fetch", lines |-> <<f>>]
  BY <1>4, <1>5, <1>7, <1>10 DEF Fetch
<1>13. CASE a1.allHit
  <2>1. caches' = [caches EXCEPT !["il1"] = a1.sets] /\ recorded' = <<>>
    BY <1>12, <1>13
  <2>2. /\ DOMAIN caches' = Levels /\ caches'["il1"] = a1.sets
        /\ \A c \in Levels \ {"il1"} : caches'[c] = caches[c]
    BY <1>8, <2>1 DEF Inv
  <2>3. Inv'
    BY <1>11, <2>2 DEF Inv
  <2>4. AsksNothing
    BY <1>8, <2>1, <2>2 DEF AsksNothing
  <2>5. <<>> \in Ul2Answers(l, 0) /\ <<>> \in Seq(Records)
    BY DEF Ul2Answers
  <2>. QED
    BY <1>4, <1>12, <2>1, <2>3, <2>4, <2>5
<1>14. CASE ~a1.allHit
  <2>1. caches' = [il1 |-> a1.sets, ul2 |-> a2.ul2, ul3 |-> a2.ul3] /\ recorded' = a2.recs
    BY <1>12, <1>14
  <2>2. /\ DOMAIN caches' = Levels /\ caches'["il1"] = a1.sets
        /\ caches'["ul2"] = a2.ul2 /\ caches'["ul3"] = a2.ul3
    BY <2>1 DEF Levels
  <2>3. Inv'
    BY <1>9, <1>11, <2>2 DEF Inv, Levels
  <2>4. Asks(lines, FALSE)
    BY <1>7, <2>1, <2>2 DEF Asks
  <2>. QED
    BY <1>4, <1>5, <1>9, <1>12, <2>1, <2>3, <2>4
<1>. QED
  BY <1>13, <1>14

LEMMA MemRefStep ==
    ASSUME Inv, NEW l \in Lines, NEW span \in 1 .. MaxSpan, NEW isWrite \in BOOLEAN,
           MemRef(l, span, isWrite),
           NEW lines, lines = [k \in 1 .. span |-> l + k - 1]
    PROVE  /\ Inv'
           /\ access' = [kind |-> IF isWrite THEN "store" ELSE "load", lines |-> lines]
           /\ recorded' \in Seq(Records) /\ recorded' \in Ul2Answers(lines[1], 0)
           /\ Asks(lines, isWrite)
<1>1. PICK b \in Nat : b + 2 * MaxSpan = MaxTime /\ \A c \in Levels : caches[c] \in SetsOf(c, b)
  BY TimeLeft DEF MemRef
<1>2. PICK n \in Nat : n = span /\ n >= 1 /\ n <= MaxSpan
  BY Constants
<1>3. b + n + 1 <= MaxTime
  <2>1. PICK m \in Nat : m = MaxSpan
    BY Constants
  <2>. QED
    BY <1>1, <1>2, <2>1, Constants
<1>4. lines \in [1 .. n -> Lines]
  <2>1. Range(lines) \subseteq Lines
    BY DEF MemRef
  <2>2. DOMAIN lines = 1 .. n /\ lines = [k \in 1 .. n |-> lines[k]]
    BY <1>2
  <2>3. \A k \in 1 .. n : lines[k] \in Lines
    BY <2>1, <2>2 DEF Range
  <2>. QED
    BY <2>2, <2>3
<1>5. PICK a2 : a2 = Ul2Access(lines, isWrite)
  OBVIOUS
<1>6. "ul2" \in Levels /\ "ul3" \in Levels
  BY DEF Levels
<1>7. /\ a2.ul2 \in SetsOf("ul2", MaxTime) /\ a2.ul3 \in SetsOf("ul3", MaxTime)
      /\ a2.recs \in Seq(Records) /\ a2.recs \in Ul2Answers(lines[1], 0)
  BY <1>1, <1>2, <1>3, <1>4, <1>5, <1>6, Ul2Type
<1>8. /\ caches' = [caches EXCEPT !["ul2"] = a2.ul2, !["ul3"] = a2.ul3]
      /\ recorded' = a2.recs
      /\ access' = [kind |-> IF isWrite THEN "store" ELSE "load", lines |-> lines]
  BY <1>5 DEF MemRef
<1>9. /\ DOMAIN caches' = Levels /\ caches'["ul2"] = a2.ul2 /\ caches'["ul3"] = a2.ul3
      /\ \A c \in Levels \ {"ul2", "ul3"} : caches'[c] = caches[c]
  BY <1>6, <1>8 DEF Inv
<1>10. Inv'
  BY <1>7, <1>9 DEF Inv
<1>. QED
  BY <1>5, <1>7, <1>8, <1>9, <1>10 DEF Asks

LEMMA InvOfNext == Inv /\ [Next]_vars => Inv'
<1>. SUFFICES ASSUME Inv, [Next]_vars PROVE Inv'
  OBVIOUS
<1>1. ASSUME NEW f \in FetchLines, Fetch(f)
      PROVE  Inv'
  BY <1>1, FetchStep
<1>2. ASSUME NEW l \in Lines, NEW span \in 1 .. MaxSpan, NEW isWrite \in BOOLEAN,
             MemRef(l, span, isWrite)
      PROVE  Inv'
  BY <1>2, MemRefStep
<1>3. CASE UNCHANGED vars
  BY <1>3 DEF vars, Inv
<1>. QED
  BY <1>1, <1>2, <1>3 DEF Next

LEMMA InvAlways == Spec => []Inv
BY InvOfInit, InvOfNext, PTL DEF Spec

\* The caches of a thread keep their shape: a line is in the set it belongs to
\* and a way holds one of the lines the level is asked for, or none
\* (CACHE::SetBase, ROUND_ROBIN::Replace).
THEOREM TypeCorrect == Spec => []TypeOK
<1>1. Inv => TypeOK
  BY DEF Inv, TypeOK, SetsOf
<1>. QED
  BY <1>1, InvAlways, PTL

\* What the caches let through to memory, for references that touch any number
\* of lines, is what the model of the tracer draws from (Ul2Access, Ul3Access).
THEOREM AnswersExpected == Spec => AnswersTracerExpects
<1>1. Inv /\ [Next]_vars =>
         [LET line == IF access'.kind = "fetch" THEN Ul2Line(access'.lines[1])
                      ELSE access'.lines[1]
          IN recorded' \in Ul2Answers(line, 0)]_vars
  <2>. SUFFICES ASSUME Inv, Next
                PROVE  recorded' \in Ul2Answers(IF access'.kind = "fetch"
                                                THEN Ul2Line(access'.lines[1])
                                                ELSE access'.lines[1], 0)
    OBVIOUS
  <2>1. ASSUME NEW f \in FetchLines, Fetch(f)
        PROVE  recorded' \in Ul2Answers(Ul2Line(f), 0) /\ access'.kind = "fetch"
               /\ access'.lines[1] = f
    <3>1. recorded' \in Ul2Answers(Ul2Line(f), 0)
      BY <2>1, FetchStep
    <3>2. access' = [kind |-> "fetch", lines |-> <<f>>]
      BY <2>1 DEF Fetch
    <3>. QED
      BY <3>1, <3>2
  <2>2. ASSUME NEW l \in Lines, NEW span \in 1 .. MaxSpan, NEW isWrite \in BOOLEAN,
               MemRef(l, span, isWrite)
        PROVE  recorded' \in Ul2Answers(access'.lines[1], 0) /\ access'.kind # "fetch"
    <3>1. PICK lines : lines = [k \in 1 .. span |-> l + k - 1]
      OBVIOUS
    <3>2. recorded' \in Ul2Answers(lines[1], 0)
      BY <2>2, <3>1, MemRefStep
    <3>3. access' = [kind |-> IF isWrite THEN "store" ELSE "load", lines |-> lines]
      BY <2>2, <3>1 DEF MemRef
    <3>. QED
      BY <3>2, <3>3
  <2>. QED
    BY <2>1, <2>2 DEF Next
<1>. QED
  BY <1>1, InvAlways, PTL DEF Spec, AnswersTracerExpects

-----------------------------------------------------------------------------
(* What is read from memory and what is written to it.                     *)

\* What Resident and Dirty say of a level
LEMMA Contents ==
    ASSUME NEW cs, cs["ul2"] \in SetsOf("ul2", MaxTime), cs["ul3"] \in SetsOf("ul3", MaxTime)
    PROVE  /\ \A k : k \in Cached(cs) <=> k # NoTag /\ InUl2OrUl3(cs["ul2"], cs["ul3"], k)
           /\ \A k : k \in Dirty(cs) <=> k # NoTag /\ DirtyInUl2OrUl3(cs["ul2"], cs["ul3"], k)
           /\ Cached(cs) \subseteq Lines
<1>1. ASSUME NEW c \in {"ul2", "ul3"}, NEW k
      PROVE  /\ k \in Resident(cs, c) <=> k # NoTag /\ Holds(c, cs[c], k)
             /\ k \in DirtyIn(cs, c) <=> k # NoTag /\ HoldsDirty(c, cs[c], k)
             /\ k \in Resident(cs, c) => k \in Lines
  <2>1. c \in Levels /\ LinesOf(c) = Lines /\ cs[c] \in SetsOf(c, MaxTime)
    BY DEF Levels, LinesOf
  <2>2. ASSUME NEW h \in Sets(c)
        PROVE  /\ DOMAIN cs[c][h].tags = Ways(c)
               /\ \A w \in Ways(c) : cs[c][h].tags[w].tag \in Lines \cup {NoTag}
    <3>1. PICK set \in RoundRobin(c) : set = cs[c][h]
      BY <2>1 DEF SetsOf
    <3>2. /\ set.tags = [w \in Ways(c) |-> set.tags[w]]
          /\ \A w \in Ways(c) : set.tags[w].tag \in Lines \cup {NoTag}
      BY <2>1, SetFacts
    <3>3. DOMAIN set.tags = Ways(c)
      BY <3>2
    <3>. QED
      BY <3>1, <3>2, <3>3
  <2>3. k \in Resident(cs, c) <=> k # NoTag /\ Holds(c, cs[c], k)
    BY DEF Resident, Holds
  <2>4. k \in DirtyIn(cs, c) <=> k # NoTag /\ HoldsDirty(c, cs[c], k)
    <3>1. \A h \in Sets(c) : WaysWith(cs[c][h], k) = {w \in Ways(c) : cs[c][h].tags[w].tag = k}
      BY <2>2 DEF WaysWith
    <3>2. HoldsDirty(c, cs[c], k) => Holds(c, cs[c], k)
      BY DEF Holds, HoldsDirty
    <3>. QED
      BY <2>3, <3>1, <3>2 DEF DirtyIn, HoldsDirty
  <2>5. k \in Resident(cs, c) => k \in Lines
    BY <2>2 DEF Resident
  <2>. QED
    BY <2>3, <2>4, <2>5
<1>2. ASSUME NEW k
      PROVE  /\ k \in Cached(cs) <=> k # NoTag /\ InUl2OrUl3(cs["ul2"], cs["ul3"], k)
             /\ k \in Dirty(cs) <=> k # NoTag /\ DirtyInUl2OrUl3(cs["ul2"], cs["ul3"], k)
             /\ k \in Cached(cs) => k \in Lines
  BY <1>1 DEF Cached, Dirty, InUl2OrUl3, DirtyInUl2OrUl3
<1>. QED
  BY <1>2

LEMMA LinesInType ==
    ASSUME NEW recs \in Seq(Records), NEW rw
    PROVE  LinesIn(recs, rw) \subseteq Lines
<1>1. \A k \in DOMAIN recs : recs[k] \in Records
  OBVIOUS
<1>2. \A k \in DOMAIN recs : recs[k].line \in Lines
  BY <1>1 DEF Records
<1>. QED
  BY <1>2 DEF LinesIn

\* A step of references that touch one line, as the properties see it
Asked1(l, isWrite) ==
    Ul2Asked(caches["ul2"], caches["ul3"], l, isWrite,
             [ul2 |-> caches'["ul2"], ul3 |-> caches'["ul3"], recs |-> recorded'])

LEMMA AskedOfAsks ==
    ASSUME Inv, InTime, NEW l \in Lines, NEW isWrite \in BOOLEAN, Asks(<<l>>, isWrite)
    PROVE  Asked1(l, isWrite)
<1>1. PICK b \in Nat : b + 2 * MaxSpan = MaxTime /\ \A c \in Levels : caches[c] \in SetsOf(c, b)
  BY TimeLeft
<1>2. b + 2 <= MaxTime
  <2>1. PICK m \in Nat : m = MaxSpan /\ m >= 1
    BY Constants
  <2>. QED
    BY <1>1, <2>1, Constants
<1>3. Ul2Asked(caches["ul2"], caches["ul3"], l, isWrite, Ul2Access(<<l>>, isWrite))
  BY <1>1, <1>2, Ul2OfOneLine DEF Levels
<1>4. PICK r : r = Ul2Access(<<l>>, isWrite)
  OBVIOUS
<1>5. PICK s : s = [ul2 |-> caches'["ul2"], ul3 |-> caches'["ul3"], recs |-> recorded']
  OBVIOUS
<1>6. s.ul2 = r.ul2 /\ s.ul3 = r.ul3 /\ s.recs = r.recs
  BY <1>4, <1>5 DEF Asks
<1>7. Ul2Asked(caches["ul2"], caches["ul3"], l, isWrite, s)
  BY <1>3, <1>4, <1>6 DEF Ul2Asked
<1>. QED
  BY <1>5, <1>7 DEF Asked1

LEMMA StepOfOneLine ==
    ASSUME MaxSpan = 1, Inv, Next
    PROVE  /\ Inv' /\ recorded' \in Seq(Records)
           /\ \/ AsksNothing
              \/ \E l \in Lines, isWrite \in BOOLEAN :
                    /\ Asked1(l, isWrite)
                    /\ isWrite => access'.kind = "store" /\ access'.lines = <<l>>
<1>1. ASSUME NEW f \in FetchLines, Fetch(f)
      PROVE  /\ Inv' /\ recorded' \in Seq(Records)
             /\ \/ AsksNothing
                \/ \E l \in Lines, isWrite \in BOOLEAN :
                      /\ Asked1(l, isWrite)
                      /\ isWrite => access'.kind = "store" /\ access'.lines = <<l>>
  <2>1. /\ Inv' /\ recorded' \in Seq(Records)
        /\ AsksNothing \/ Asks(<<Ul2Line(f)>>, FALSE)
    BY <1>1, FetchStep
  <2>2. PICK l \in Lines, w \in BOOLEAN : l = Ul2Line(f) /\ w = FALSE
    BY Ul2LineType
  <2>3. InTime
    BY <1>1 DEF Fetch
  <2>4. Asks(<<l>>, w) => Asked1(l, w)
    BY <2>3, AskedOfAsks
  <2>. QED
    BY <2>1, <2>2, <2>4
<1>2. ASSUME NEW l \in Lines, NEW span \in 1 .. MaxSpan, NEW isWrite \in BOOLEAN,
             MemRef(l, span, isWrite)
      PROVE  /\ Inv' /\ recorded' \in Seq(Records)
             /\ Asked1(l, isWrite)
             /\ isWrite => access'.kind = "store" /\ access'.lines = <<l>>
  <2>1. PICK lines : lines = [k \in 1 .. span |-> l + k - 1]
    OBVIOUS
  <2>2. /\ Inv' /\ recorded' \in Seq(Records)
        /\ access' = [kind |-> IF isWrite THEN "store" ELSE "load", lines |-> lines]
        /\ Asks(lines, isWrite)
    BY <1>2, <2>1, MemRefStep
  <2>3. lines = <<l>>
    <3>1. span = 1 /\ l \in Nat
      BY Constants
    <3>2. lines = [k \in 1 .. 1 |-> l + k - 1]
      BY <2>1, <3>1
    <3>3. \A k \in 1 .. 1 : l + k - 1 = l
      BY <3>1
    <3>. QED
      BY <3>2, <3>3
  <2>4. InTime
    BY <1>2 DEF MemRef
  <2>5. Asked1(l, isWrite)
    BY <2>2, <2>3, <2>4, AskedOfAsks
  <2>. QED
    BY <2>2, <2>3, <2>5
<1>. QED
  BY <1>1, <1>2 DEF Next

\* When every reference touches one line, what comes into ul2 or ul3 from memory
\* is recorded as a load, and nothing that either had is.
THEOREM FillsRead ==
    ASSUME MaxSpan = 1
    PROVE  Spec => FillsAreRead
<1>1. Inv /\ [Next]_vars =>
         [LET missed == {l \in Lines : l \notin Resident(caches, "ul2")
                                       /\ l \notin Resident(caches, "ul3")}
          IN /\ Cached(caches') \ Cached(caches) \subseteq RecordedLines("load")
             /\ RecordedLines("load") \subseteq missed]_vars
  <2>. SUFFICES ASSUME Inv, Next
                PROVE  /\ Cached(caches') \ Cached(caches) \subseteq RecordedLines("load")
                       /\ RecordedLines("load") \subseteq
                             {l \in Lines : l \notin Resident(caches, "ul2")
                                            /\ l \notin Resident(caches, "ul3")}
    OBVIOUS
  <2>1. PICK s2, s3, t2, t3 : /\ s2 = caches["ul2"] /\ s3 = caches["ul3"]
                              /\ t2 = caches'["ul2"] /\ t3 = caches'["ul3"]
    OBVIOUS
  <2>2. Inv' /\ recorded' \in Seq(Records)
    BY StepOfOneLine
  <2>3. /\ \A k : k \in Cached(caches) <=> k # NoTag /\ InUl2OrUl3(s2, s3, k)
        /\ \A k : k \in Cached(caches') <=> k # NoTag /\ InUl2OrUl3(t2, t3, k)
        /\ Cached(caches') \subseteq Lines
    <3>1. PICK cs : cs = caches
      OBVIOUS
    <3>2. PICK ds : ds = caches'
      OBVIOUS
    <3>3. /\ cs["ul2"] \in SetsOf("ul2", MaxTime) /\ cs["ul3"] \in SetsOf("ul3", MaxTime)
          /\ ds["ul2"] \in SetsOf("ul2", MaxTime) /\ ds["ul3"] \in SetsOf("ul3", MaxTime)
      BY <2>2, <3>1, <3>2 DEF Inv, Levels
    <3>4. /\ \A k : k \in Cached(cs) <=> k # NoTag /\ InUl2OrUl3(cs["ul2"], cs["ul3"], k)
          /\ \A k : k \in Cached(ds) <=> k # NoTag /\ InUl2OrUl3(ds["ul2"], ds["ul3"], k)
          /\ Cached(ds) \subseteq Lines
      BY <3>3, Contents
    <3>. QED
      BY <2>1, <3>1, <3>2, <3>4
  <2>4. RecordedLines("load") = LinesIn(recorded', "load")
    BY DEF RecordedLines, LinesIn
  <2>5. LinesIn(recorded', "load") \subseteq Lines /\ NoTag \notin Lines
    BY <2>2, LinesInType, Constants
  <2>6. CASE AsksNothing
    <3>1. t2 = s2 /\ t3 = s3 /\ recorded' = <<>>
      BY <2>1, <2>6 DEF AsksNothing
    <3>2. RecordedLines("load") = {}
      BY <2>4, <3>1, LinesInEmpty
    <3>. QED
      BY <2>3, <3>1, <3>2
  <2>7. ASSUME NEW l \in Lines, NEW isWrite \in BOOLEAN, Asked1(l, isWrite)
        PROVE  /\ Cached(caches') \ Cached(caches) \subseteq RecordedLines("load")
               /\ RecordedLines("load") \subseteq
                     {k \in Lines : k \notin Resident(caches, "ul2")
                                    /\ k \notin Resident(caches, "ul3")}
    <3>1. PICK r : r = [ul2 |-> t2, ul3 |-> t3, recs |-> recorded']
      OBVIOUS
    <3>2. r.ul2 = t2 /\ r.ul3 = t3 /\ r.recs = recorded' /\ Ul2Asked(s2, s3, l, isWrite, r)
      BY <2>1, <2>7, <3>1 DEF Asked1
    <3>3. /\ LinesIn(recorded', "load") = IF InUl2OrUl3(s2, s3, l) THEN {} ELSE {l}
          /\ \A k : InUl2OrUl3(t2, t3, k) => InUl2OrUl3(s2, s3, k) \/ k = l
      BY <3>2 DEF Ul2Asked
    <3>4. \A k \in LinesIn(recorded', "load") : k \in Lines /\ k \notin Cached(caches)
      BY <2>3, <2>5, <3>3
    <3>5. \A k \in Cached(caches') \ Cached(caches) : k \in LinesIn(recorded', "load")
      BY <2>3, <3>3
    <3>. QED
      BY <2>4, <3>4, <3>5 DEF Cached
  <2>. QED
    BY <2>6, <2>7, StepOfOneLine
<1>. QED
  BY <1>1, InvAlways, PTL DEF Spec, FillsAreRead

\* When every reference touches one line and ul3 takes in what is written, as every
\* ul3 of the tracer does, no write is lost on its way to memory: a line that stops
\* being dirty in ul2 and ul3 is recorded as a store.  And every store recorded is of
\* a line that was dirty or that the reference writes; a line dirty in both levels may
\* be recorded before it stops being dirty.
THEOREM WriteBacksMatch ==
    ASSUME MaxSpan = 1, ALLOCATION["ul3"] = "store_allocate"
    PROVE  Spec => WriteBacksMatchDirtyLines
<1>1. Inv /\ [Next]_vars =>
         [LET written == IF access'.kind = "store" THEN Range(access'.lines) ELSE {}
          IN /\ Dirty(caches) \ Dirty(caches') \subseteq RecordedLines("store")
             /\ RecordedLines("store") \subseteq Dirty(caches) \cup written]_vars
  <2>. SUFFICES ASSUME Inv, Next
                PROVE  /\ Dirty(caches) \ Dirty(caches') \subseteq RecordedLines("store")
                       /\ RecordedLines("store") \subseteq
                             Dirty(caches) \cup
                             (IF access'.kind = "store" THEN Range(access'.lines) ELSE {})
    OBVIOUS
  <2>1. PICK s2, s3, t2, t3 : /\ s2 = caches["ul2"] /\ s3 = caches["ul3"]
                              /\ t2 = caches'["ul2"] /\ t3 = caches'["ul3"]
    OBVIOUS
  <2>2. Inv' /\ recorded' \in Seq(Records)
    BY StepOfOneLine
  <2>3. /\ \A k : k \in Dirty(caches) <=> k # NoTag /\ DirtyInUl2OrUl3(s2, s3, k)
        /\ \A k : k \in Dirty(caches') <=> k # NoTag /\ DirtyInUl2OrUl3(t2, t3, k)
        /\ Dirty(caches) \subseteq Lines
    <3>1. PICK cs : cs = caches
      OBVIOUS
    <3>2. PICK ds : ds = caches'
      OBVIOUS
    <3>3. /\ cs["ul2"] \in SetsOf("ul2", MaxTime) /\ cs["ul3"] \in SetsOf("ul3", MaxTime)
          /\ ds["ul2"] \in SetsOf("ul2", MaxTime) /\ ds["ul3"] \in SetsOf("ul3", MaxTime)
      BY <2>2, <3>1, <3>2 DEF Inv, Levels
    <3>4. /\ \A k : k \in Dirty(cs) <=> k # NoTag /\ DirtyInUl2OrUl3(cs["ul2"], cs["ul3"], k)
          /\ \A k : k \in Dirty(ds) <=> k # NoTag /\ DirtyInUl2OrUl3(ds["ul2"], ds["ul3"], k)
          /\ Cached(cs) \subseteq Lines
      BY <3>3, Contents
    <3>5. Dirty(cs) \subseteq Cached(cs)
      BY DEF Dirty, DirtyIn, Cached
    <3>. QED
      BY <2>1, <3>1, <3>2, <3>4, <3>5
  <2>4. RecordedLines("store") = LinesIn(recorded', "store")
    BY DEF RecordedLines, LinesIn
  <2>5. LinesIn(recorded', "store") \subseteq Lines /\ NoTag \notin Lines
    BY <2>2, LinesInType, Constants
  <2>6. CASE AsksNothing
    <3>1. t2 = s2 /\ t3 = s3 /\ recorded' = <<>>
      BY <2>1, <2>6 DEF AsksNothing
    <3>2. RecordedLines("store") = {}
      BY <2>4, <3>1, LinesInEmpty
    <3>. QED
      BY <2>3, <3>1, <3>2
  <2>7. ASSUME NEW l \in Lines, NEW isWrite \in BOOLEAN, Asked1(l, isWrite),
               isWrite => access'.kind = "store" /\ access'.lines = <<l>>
        PROVE  /\ Dirty(caches) \ Dirty(caches') \subseteq RecordedLines("store")
               /\ RecordedLines("store") \subseteq
                     Dirty(caches) \cup
                     (IF access'.kind = "store" THEN Range(access'.lines) ELSE {})
    <3>1. PICK r : r = [ul2 |-> t2, ul3 |-> t3, recs |-> recorded']
      OBVIOUS
    <3>2. r.ul2 = t2 /\ r.ul3 = t3 /\ r.recs = recorded' /\ Ul2Asked(s2, s3, l, isWrite, r)
      BY <2>1, <2>7, <3>1 DEF Asked1
    <3>3. /\ \A k \in Lines : DirtyInUl2OrUl3(s2, s3, k) =>
                DirtyInUl2OrUl3(t2, t3, k) \/ k \in LinesIn(recorded', "store")
          /\ \A k \in LinesIn(recorded', "store") :
                DirtyInUl2OrUl3(s2, s3, k) \/ (isWrite /\ k = l)
      BY <3>2 DEF Ul2Asked
    <3>4. isWrite => l \in IF access'.kind = "store" THEN Range(access'.lines) ELSE {}
      <4>. SUFFICES ASSUME isWrite PROVE access'.kind = "store" /\ l \in Range(access'.lines)
        OBVIOUS
      <4>1. PICK lines : lines = <<l>>
        OBVIOUS
      <4>2. 1 \in DOMAIN lines /\ lines[1] = l
        BY <4>1
      <4>. QED
        BY <2>7, <4>1, <4>2 DEF Range
    <3>5. \A k \in LinesIn(recorded', "store") : k \in Dirty(caches) \/ (isWrite /\ k = l)
      BY <2>3, <2>5, <3>3
    <3>6. \A k \in Dirty(caches) \ Dirty(caches') : k \in LinesIn(recorded', "store")
      BY <2>3, <3>3
    <3>. QED
      BY <2>4, <3>4, <3>5, <3>6
  <2>. QED
    BY <2>6, <2>7, StepOfOneLine
<1>. QED
  BY <1>1, InvAlways, PTL DEF Spec, WriteBacksMatchDirtyLines

=============================================================================
