-------------------------- MODULE CoherenceReplay --------------------------
(***************************************************************************)
(* The multi-socket last-level caches and the coherence directory of       *)
(* proc_scripts/coh_replay (coherence_replay.hpp, cache.hpp): what one     *)
(* call of access_cache does to them.  The replay is sequential, so one    *)
(* access is one step; the hazards are in the long sequences of accesses   *)
(* by different sockets that have to keep two structures, the per-socket   *)
(* cache entries and the directory, in agreement.                          *)
(*                                                                         *)
(* Layout: caches[h][s][w] is the code's caches[s].entries[h][w]; the      *)
(* outermost index is the set because no access touches two sets.  CCD[l]  *)
(* is CCD[SetIndex(l)][l]; ccdKeys are the keys the hash maps contain, a   *)
(* line outside it has the value operator[] creates (state I, owner 0, no  *)
(* sharers).  The bool array `sharers' is the set of indices that hold.    *)
(***************************************************************************)
EXTENDS Integers, FiniteSets

CONSTANTS
    N_SOCKETS,   \* sockets, each with one LLC (16 in the code)
    NUM_WAYS,    \* associativity (16)
    NUM_SETS,    \* sets of an LLC (32768)
    Lines,       \* line addresses that occur in the traces
    Timestamps,  \* instruction counts that occur in the traces
    MaxInsts     \* bound of the model on simstats.total_m_insts

ASSUME ConstantsAssumption ==
    /\ N_SOCKETS \in Nat \ {0}
    /\ NUM_WAYS \in Nat \ {0}
    /\ NUM_SETS \in Nat \ {0}
    /\ Lines \subseteq Nat
    /\ Timestamps \subseteq Nat
    /\ 0 \in Timestamps
    /\ MaxInsts \in Nat

VARIABLES
    caches,      \* caches[set][socket][way]
    CCD,         \* the directory entry of each line
    ccdKeys,     \* the lines the directory has allocated an entry for
    simstats,    \* the counters of sim_stats
    aborted      \* an assert of the code has failed and ended the program

vars == <<caches, CCD, ccdKeys, simstats, aborted>>

Sockets == 0 .. N_SOCKETS - 1
Ways == 0 .. NUM_WAYS - 1
Sets == 0 .. NUM_SETS - 1

NoTag == -1      \* ~0, which no address shifted right by LINEBITS equals

CohStates == {"I", "S", "E", "M"}

Entry == [tag : Lines \cup {NoTag}, valid : BOOLEAN, dirty : BOOLEAN,
          cstate : CohStates, ts : Timestamps]

DirectoryEntry == [state : CohStates, owner : Sockets, sharers : SUBSET Sockets]

Stats == [m_reads : Nat, m_writes : Nat, m_writes_from_coh : Nat,
          c_invals : Nat, c_block_trans : Nat, total_m_insts : Nat,
          llc_hits : Nat, llc_misses : Nat]

\* lineaddr & (NUM_SETS-1), NUM_SETS being a power of two
SetIndex(l) == l % NUM_SETS

Count(b) == IF b THEN 1 ELSE 0

-----------------------------------------------------------------------------
(* Looking a line up in the ways of one set of one socket.                 *)

Holds(ways, l, w) == ways[w].valid /\ ways[w].tag = l

\* the loops that look for a line stop at the first way that holds it
HitWay(ways, l) ==
    {w \in Ways : Holds(ways, l, w) /\ \A v \in Ways : v < w => ~Holds(ways, l, v)}

\* the scan goes on after an invalid way, so the last one is kept
InvalidWay(ways) ==
    {w \in Ways : ~ways[w].valid /\ \A v \in Ways : v > w => ways[v].valid}

\* the lowest of the ways whose timestamp is least
LruWay(ways) ==
    {w \in Ways : \A v \in Ways : /\ ways[w].ts <= ways[v].ts
                                  /\ v < w => ways[w].ts < ways[v].ts}

-----------------------------------------------------------------------------
(* What update_directory does to the other sockets' copies of a line.      *)

Invalidate(ways, l) ==
    [w \in Ways |->
        IF w \in HitWay(ways, l)
        THEN [ways[w] EXCEPT !.cstate = "I", !.valid = FALSE,
                             !.dirty = FALSE, !.tag = NoTag]
        ELSE ways[w]]

\* fault: the downgraded copy keeps its dirty bit
DowngradeStaysDirty(ways, l) ==
    [w \in Ways |->
        IF w \in HitWay(ways, l) THEN [ways[w] EXCEPT !.cstate = "S"] ELSE ways[w]]

\* for a copy in E the code has just asserted that dirty is false
Downgrade(ways, l) ==
    [w \in Ways |->
        IF w \in HitWay(ways, l)
        THEN [ways[w] EXCEPT !.cstate = "S", !.dirty = FALSE]
        ELSE ways[w]]

\* the last sharer left by an eviction
Promote(ways, l) ==
    [w \in Ways |->
        IF w \in HitWay(ways, l) THEN [ways[w] EXCEPT !.cstate = "E"] ELSE ways[w]]

OwnedElsewhere(de, s) == de.state \in {"E", "M"} /\ de.owner # s

\* fault: a write to a shared line invalidates its last accessor alone
LosersOwnerOnly(de, s) == IF de.state = "I" THEN {} ELSE {de.owner} \ {s}

\* the sockets that lose their copy to a write by s
Losers(de, s) ==
    CASE de.state = "I" -> {}
      [] de.state = "S" -> de.sharers \ {s}
      [] OTHER -> {de.owner} \ {s}

Snooped(column, de, s, l, isW) ==
    [t \in Sockets |->
        IF isW /\ t \in Losers(de, s) THEN Invalidate(column[t], l)
        ELSE IF ~isW /\ OwnedElsewhere(de, s) /\ t = de.owner
        THEN Downgrade(column[t], l)
        ELSE column[t]]

\* the asserts of update_directory
SnoopAsserts(column, de, s, l, isW) ==
    OwnedElsewhere(de, s) =>
        /\ s \notin de.sharers
        /\ isW => de.owner \in de.sharers
        /\ \A w \in HitWay(column[de.owner], l) :
              /\ column[de.owner][w].cstate = de.state
              /\ column[de.owner][w].dirty = (de.state = "M")

DirectoryAfter(de, s, isW) ==
    [state   |-> IF isW THEN "M"
                 ELSE IF de.state = "I" THEN "E"
                 ELSE IF OwnedElsewhere(de, s) THEN "S"
                 ELSE de.state,
     owner   |-> s,
     sharers |-> (IF isW THEN de.sharers \ Losers(de, s) ELSE de.sharers) \cup {s}]

-----------------------------------------------------------------------------
(* The counters.                                                           *)

\* fault: whoever is not the last accessor of a shared line reads memory
ReadsMemoryUnlessOwner(de, s) == de.state = "I" \/ (de.state = "S" /\ s # de.owner)

ReadsMemory(de, s) == de.state = "I" \/ (de.state = "S" /\ s \notin de.sharers)

\* fault: a transfer to a writer counts as written back
WritesBackOnTransfer(de, s, isW) == de.state = "M" /\ OwnedElsewhere(de, s)

WritesBackForSharing(de, s, isW) ==
    ~isW /\ de.state = "M" /\ OwnedElsewhere(de, s)

Counted(st, hit, wroteBack, de, s, isW) ==
    [m_reads           |-> st.m_reads + Count(ReadsMemory(de, s)),
     m_writes          |-> st.m_writes + Count(wroteBack),
     m_writes_from_coh |-> st.m_writes_from_coh + Count(WritesBackForSharing(de, s, isW)),
     c_invals          |-> st.c_invals + Count(isW /\ de.state = "S"),
     c_block_trans     |-> st.c_block_trans + Count(OwnedElsewhere(de, s)),
     total_m_insts     |-> st.total_m_insts + 1,
     llc_hits          |-> st.llc_hits + Count(hit),
     llc_misses        |-> st.llc_misses + Count(~hit)]

-----------------------------------------------------------------------------
(* Evicting entry e of socket s, whose line has directory entry de.  The   *)
(* code leaves in `owner' the last sharer other than s that it meets; o is *)
(* that socket, or the old owner when there is none.                       *)

\* fault: the owner is assigned after the loop
OwnerAfterLoop(de, s) == {IF de.sharers \ {s} = {} THEN de.owner ELSE N_SOCKETS}

OwnerAfterEviction(de, s) ==
    LET others == de.sharers \ {s}
    IN IF others = {} THEN {de.owner}
       ELSE {o \in others : \A p \in others : p <= o}

\* fault: the sharers are counted before the evicting socket's bit is cleared
LeavesOneCountedEarly(e, de, s, o) ==
    ~e.dirty /\ de.state # "E" /\ de.sharers = {o}

LeavesOneSharer(e, de, s, o) ==
    ~e.dirty /\ de.state # "E" /\ de.sharers \ {s} = {o}

\* fault: the eviction of a shared line forgets the evicting socket's bit
EvictedStillSharer(e, de, s, o) ==
    IF e.dirty \/ de.state = "E"
    THEN [de EXCEPT !.state = "I", !.sharers = @ \ {s}]
    ELSE [de EXCEPT !.state = IF LeavesOneSharer(e, de, s, o) THEN "E" ELSE @,
                    !.owner = o]

EvictedDirectory(e, de, s, o) ==
    IF e.dirty \/ de.state = "E"
    THEN [de EXCEPT !.state = "I", !.sharers = @ \ {s}]
    ELSE [state   |-> IF LeavesOneSharer(e, de, s, o) THEN "E" ELSE de.state,
          owner   |-> o,
          sharers |-> de.sharers \ {s}]

\* fault: the directory promotes the last sharer, its cache does not
EvictedNotPromoted(column, e, de, s, o) == column

EvictedColumn(column, e, de, s, o) ==
    IF LeavesOneSharer(e, de, s, o)
    THEN [column EXCEPT ![o] = Promote(column[o], e.tag)]
    ELSE column

EvictionAsserts(e, de, s, o) ==
    /\ e.dirty => e.cstate = "M" /\ de.state = "M" /\ de.owner = s
    /\ ~e.dirty /\ de.state = "E" => de.owner = s /\ e.cstate = "E"
    /\ ~e.dirty /\ de.state # "E" => de.state = "S" /\ o # s

-----------------------------------------------------------------------------
(* access_cache.                                                           *)

CanAccess == ~aborted /\ simstats.total_m_insts < MaxInsts

\* fault: a hit does not refresh the timestamp
TouchedWithoutTime(e, isW, ts) ==
    [e EXCEPT !.dirty = e.dirty \/ isW, !.cstate = IF isW THEN "M" ELSE e.cstate]

TouchedEntry(e, isW, ts) ==
    [e EXCEPT !.dirty = e.dirty \/ isW,
              !.cstate = IF isW THEN "M" ELSE e.cstate,
              !.ts = ts]

\* a hit: the entry is touched before the directory is updated
Hit(s, l, isW, ts) ==
    LET h  == SetIndex(l)
        de == CCD[l]
    IN /\ CanAccess
       /\ \E w \in HitWay(caches[h][s], l) :
            LET touched == [caches[h] EXCEPT ![s] =
                              [@ EXCEPT ![w] = TouchedEntry(caches[h][s][w], isW, ts)]]
            IN /\ caches' = [caches EXCEPT ![h] = Snooped(touched, de, s, l, isW)]
               /\ aborted' = ~SnoopAsserts(touched, de, s, l, isW)
       /\ CCD' = [CCD EXCEPT ![l] = DirectoryAfter(de, s, isW)]
       /\ ccdKeys' = ccdKeys \cup {l}
       /\ simstats' = Counted(simstats, TRUE, FALSE, de, s, isW)

\* the new entry as it is written before update_directory
NewEntry(l, isW, ts) ==
    [tag |-> l, valid |-> TRUE, dirty |-> isW,
     cstate |-> IF isW THEN "M" ELSE "E", ts |-> ts]

\* fault: a line read while others hold it stays exclusive
SettledExclusive(e, after) == e

\* ... and after it
Settled(e, after) == IF after.state = "S" THEN [e EXCEPT !.cstate = "S"] ELSE e

\* the asserts that close access_cache, e being the settled entry
InstallAsserts(e, after, isW) ==
    /\ after.state = "S" => ~isW
    /\ after.state = e.cstate
    /\ e.cstate = "S" => ~e.dirty

\* what follows the choice of way w, the eviction (if any) having left the
\* caches' column and the directory dir, with its asserts ok
Install(s, l, isW, ts, w, column, dir, wroteBack, ok) ==
    LET h       == SetIndex(l)
        de      == dir[l]
        after   == DirectoryAfter(de, s, isW)
        e       == Settled(NewEntry(l, isW, ts), after)
        snooped == Snooped(column, de, s, l, isW)
    IN /\ caches' = [caches EXCEPT ![h] = [snooped EXCEPT ![s] = [@ EXCEPT ![w] = e]]]
       /\ CCD' = [dir EXCEPT ![l] = after]
       /\ ccdKeys' = ccdKeys \cup {l}
       /\ simstats' = Counted(simstats, FALSE, wroteBack, de, s, isW)
       /\ aborted' = ~(/\ ok
                       /\ SnoopAsserts(column, de, s, l, isW)
                       /\ InstallAsserts(e, after, isW))

FillInvalid(s, l, isW, ts) ==
    LET column == caches[SetIndex(l)]
    IN /\ CanAccess
       /\ HitWay(column[s], l) = {}
       /\ \E w \in InvalidWay(column[s]) :
            Install(s, l, isW, ts, w, column, CCD, FALSE, TRUE)

EvictAndFill(s, l, isW, ts) ==
    LET column == caches[SetIndex(l)]
    IN /\ CanAccess
       /\ HitWay(column[s], l) = {}
       /\ \A w \in Ways : column[s][w].valid
       /\ \E w \in LruWay(column[s]) :
            LET e  == column[s][w]
                de == CCD[e.tag]
            IN \E o \in OwnerAfterEviction(de, s) :
                 Install(s, l, isW, ts, w,
                         EvictedColumn(column, e, de, s, o),
                         [CCD EXCEPT ![e.tag] = EvictedDirectory(e, de, s, o)],
                         e.dirty, EvictionAsserts(e, de, s, o))

Access(s, l, isW, ts) ==
    \/ Hit(s, l, isW, ts)
    \/ FillInvalid(s, l, isW, ts)
    \/ EvictAndFill(s, l, isW, ts)

\* init_caches, and the value-initialised directory and counters
Init ==
    /\ caches = [h \in Sets |-> [s \in Sockets |-> [w \in Ways |->
                   [tag |-> NoTag, valid |-> FALSE, dirty |-> FALSE,
                    cstate |-> "I", ts |-> 0]]]]
    /\ CCD = [l \in Lines |-> [state |-> "I", owner |-> 0, sharers |-> {}]]
    /\ ccdKeys = {}
    /\ simstats = [m_reads |-> 0, m_writes |-> 0, m_writes_from_coh |-> 0,
                   c_invals |-> 0, c_block_trans |-> 0, total_m_insts |-> 0,
                   llc_hits |-> 0, llc_misses |-> 0]
    /\ aborted = FALSE

Next ==
    \E s \in Sockets, l \in Lines, isW \in BOOLEAN, ts \in Timestamps :
        Access(s, l, isW, ts)

Spec == Init /\ [][Next]_vars

-----------------------------------------------------------------------------
(* Properties.                                                             *)

\* Every variable has its type; in particular owner is always a socket and an
\* entry's tag a line of the trace or the value init_caches gives it.
TypeOK ==
    /\ caches \in [Sets -> [Sockets -> [Ways -> Entry]]]
    /\ CCD \in [Lines -> DirectoryEntry]
    /\ ccdKeys \subseteq Lines
    /\ simstats \in Stats
    /\ aborted \in BOOLEAN

\* sharers[s] is set for a line exactly when socket s holds a valid copy of it:
\* update_directory, the invalidation loops and the three eviction branches of
\* access_cache each maintain one side of this agreement.
DirectoryMatchesCaches ==
    \A l \in Lines, s \in Sockets :
        s \in CCD[l].sharers <=> HitWay(caches[SetIndex(l)][s], l) # {}

\* A valid entry is in its line's set, has the line's directory state as its
\* cstate, is dirty exactly in M, and is the only one of its socket for the
\* line (the loops that stop at the first match rely on it).
EntriesMatchDirectory ==
    \A h \in Sets, s \in Sockets, w \in Ways :
        LET e == caches[h][s][w]
        IN e.valid =>
            /\ e.tag \in Lines
            /\ SetIndex(e.tag) = h
            /\ e.cstate = CCD[e.tag].state
            /\ e.dirty = (e.cstate = "M")
            /\ \A v \in Ways : Holds(caches[h][s], e.tag, v) => v = w

\* The directory state says how many sharers there are: none in I, the owner
\* alone in E and M, the owner and another one in S ("should have at least one
\* other node if in S", the assert of the eviction branch).
SharersMatchState ==
    \A l \in Lines :
        LET de == CCD[l]
        IN /\ de.state = "I" => de.sharers = {}
           /\ de.state \in {"E", "M"} => de.sharers = {de.owner}
           /\ de.state = "S" => /\ de.owner \in de.sharers
                                /\ de.sharers # {de.owner}

\* Single writer or many readers, said of the cache entries alone: while one
\* socket has a line dirty no other socket has a valid copy of it.
SingleWriter ==
    \A h \in Sets, s, t \in Sockets, w, v \in Ways :
        /\ caches[h][s][w].valid /\ caches[h][s][w].dirty
        /\ Holds(caches[h][t], caches[h][s][w].tag, v)
        => s = t

\* None of the asserts of access_cache and update_directory ever fails.
NoAssertFails == ~aborted

\* Every miss is served once, by memory or by another socket: the counters the
\* replay prints as Mem Reads and C Block Transfer add up to LLC misses.
MissAccounting ==
    simstats.llc_misses = simstats.m_reads + simstats.c_block_trans

DirtyLines ==
    {l \in Lines : \E s \in Sockets, w \in Ways :
        /\ Holds(caches[SetIndex(l)][s], l, w)
        /\ caches[SetIndex(l)][s][w].dirty}

\* No modified data is dropped or written back twice: an access adds to Mem
\* Writes and Mem Writes_coh together the number of lines it takes out of the
\* modified state (an eviction and a downgrade may happen in one access; a
\* write to a line modified elsewhere moves it and writes nothing).
WriteBackAccounting ==
    [][/\ simstats'.m_writes + simstats'.m_writes_from_coh
          = simstats.m_writes + simstats.m_writes_from_coh
            + Cardinality(DirtyLines \ DirtyLines')]_vars

=============================================================================
