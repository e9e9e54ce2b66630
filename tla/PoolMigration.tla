---------------------------- MODULE PoolMigration ----------------------------
(***************************************************************************)
(* How page_map_generator.cpp reassigns the owners of pages at the end of  *)
(* a phase of a trace: a baseline, in which a page belongs to a socket,    *)
(* and the CXL island (CI), a memory pool that holds the pages with many   *)
(* sharers, up to a fraction of all pages.  Both walk the pages read in    *)
(* the phase from the hottest to the coldest; the pool makes room with a   *)
(* second iterator that walks from the coldest.                            *)
(*                                                                         *)
(* One phase is StartPhase (what process_phase has before the loop), one   *)
(* Reassign per iteration of the loop, and EndPhase.  The accesses of a    *)
(* phase are an input; HISTORY_LEN is 1, so there is nothing older.        *)
(***************************************************************************)
EXTENDS Integers, FiniteSets, Sequences

CONSTANTS
    Pages,                 \* page numbers; 0 is the initial evicted_page
    N_SOCKETS,
    CXO,                   \* the owner of the pages in the pool (100)
    INVAL_OWNER,           \* what new_owner starts from (9999)
    SHARER_THRESHOLD,      \* sharers that make a page go to the pool (7)
    MANY_SHARERS,          \* sharers that make the new owner random (8)
    POOL_FRACTION,         \* 5
    MIGRATION_LIMIT,       \* 32768
    PHASES_PER_MIGRATION,  \* phases that allow a page one more migration (4)
    Phases,                \* possible accesses of a phase, by socket and page
    MaxPhases              \* bound of the model on curphase

Sockets == 0 .. N_SOCKETS - 1

ASSUME PoolAssumption ==
    /\ Pages \subseteq Nat /\ 0 \in Pages /\ IsFiniteSet(Pages)
    /\ N_SOCKETS \in Nat \ {0}
    /\ CXO \in Nat \ Sockets
    /\ INVAL_OWNER \in Nat \ (Sockets \cup {CXO})
    /\ SHARER_THRESHOLD \in Nat /\ MANY_SHARERS \in Nat
    /\ POOL_FRACTION \in Nat \ {0}
    /\ MIGRATION_LIMIT \in Nat
    /\ PHASES_PER_MIGRATION \in Nat \ {0}
    /\ MaxPhases \in Nat
    /\ Phases \subseteq [Sockets -> [Pages -> [r : Nat, w : Nat]]]
    \* some page is read: the code takes the first candidate unconditionally
    /\ \A ph \in Phases : \E s \in Sockets, p \in Pages : ph[s][p].r > 0

VARIABLES
    page_owner, page_owner_CI,               \* owners of the pages touched so far
    pages_in_pool,
    migration_per_page, migration_per_page_CI,
    curphase,
    dumped,                                  \* the two maps last saved
    inLoop,                                  \* between StartPhase and EndPhase
    accesses,                                \* of this phase
    sorted_candidates,
    it_migration,                            \* position of the iterator
    eviction_it,                             \* position of it, 0 for rend
    i, i_cxi, eviction_candidate_was_hot,
    migrated_pages, migrated_pages_CI, pages_to_CI,
    warned,                                  \* the WARNING has been printed
    entered                \* auxiliary: the pages that entered the pool in this phase

persistent == <<page_owner, page_owner_CI, pages_in_pool, migration_per_page,
                migration_per_page_CI, curphase, dumped>>
baseline == <<page_owner, migration_per_page, i, migrated_pages>>
island == <<page_owner_CI, migration_per_page_CI, pages_in_pool, i_cxi, eviction_it,
            eviction_candidate_was_hot, migrated_pages_CI, pages_to_CI, warned,
            entered>>
vars == <<persistent, inLoop, accesses, sorted_candidates, it_migration,
          baseline, island>>

-----------------------------------------------------------------------------
(* The phase's accesses.                                                   *)

AccsOf(ph, s, p) == ph[s][p].r + ph[s][p].w

SharersOf(ph, p) == {s \in Sockets : AccsOf(ph, s, p) > 0}

Total(f) ==
    LET sum[n \in 0 .. N_SOCKETS] == IF n = 0 THEN 0 ELSE sum[n - 1] + f[n - 1]
    IN sum[N_SOCKETS]

\* what a candidate is sorted by: reads and writes by all sockets
Heat(ph, p) == Total([s \in Sockets |-> AccsOf(ph, s, p)])

Touched(ph) == {p \in Pages : SharersOf(ph, p) # {}}

\* the keys of page_Rs, to which only reads add pages
CandidatePages(ph) == {p \in Pages : \E s \in Sockets : ph[s][p].r > 0}

\* a multiset sorted by falling access count; equal counts keep the order of
\* insertion, which is that of a hash map
SortedCandidates(ph) ==
    LET pages == CandidatePages(ph)
    IN {c \in [1 .. Cardinality(pages) -> pages] :
          /\ \A k, m \in DOMAIN c : k # m => c[k] # c[m]
          /\ \A k, m \in DOMAIN c : k <= m => Heat(ph, c[k]) >= Heat(ph, c[m])}

\* the first socket with most accesses
MostAccesses(p) ==
    {s \in SharersOf(accesses, p) : \A t \in Sockets :
        /\ AccsOf(accesses, t, p) <= AccsOf(accesses, s, p)
        /\ t < s => AccsOf(accesses, t, p) < AccsOf(accesses, s, p)}

Sharers(p) == Cardinality(SharersOf(accesses, p))

\* fault: a socket needs more than one access to count
NewOwnersAboveOne(p) ==
    LET counted == {s \in MostAccesses(p) : AccsOf(accesses, s, p) > 1}
    IN IF Sharers(p) >= MANY_SHARERS THEN Sockets
       ELSE IF counted = {} THEN {INVAL_OWNER} ELSE counted

\* rand() % N_SOCKETS, or the socket with most accesses
NewOwners(p) ==
    IF Sharers(p) >= MANY_SHARERS THEN Sockets
    ELSE IF MostAccesses(p) = {} THEN {INVAL_OWNER} ELSE MostAccesses(p)

\* those of an evicted page: any socket unless one of few sharers has most accesses
EvictedOwners(p) ==
    IF Sharers(p) >= MANY_SHARERS \/ MostAccesses(p) = {} THEN Sockets
    ELSE MostAccesses(p)

pool_cap == Cardinality(DOMAIN page_owner_CI) \div POOL_FRACTION

pingpong_lim == curphase \div PHASES_PER_MIGRATION

-----------------------------------------------------------------------------
(* The actions.                                                            *)

\* a map with random sharers as first owners of the pages it lacks
FirstTouch(owners, first) ==
    [p \in DOMAIN owners \cup DOMAIN first |->
        IF p \in DOMAIN owners THEN owners[p] ELSE first[p]]

\* the loop's variables
EnterLoop(ph) ==
    /\ inLoop' = TRUE
    /\ sorted_candidates' \in SortedCandidates(ph)
    /\ it_migration' = 1
    /\ eviction_it' = Cardinality(CandidatePages(ph))
    /\ i' = 0 /\ i_cxi' = 0
    /\ eviction_candidate_was_hot' = FALSE
    /\ migrated_pages' = 0 /\ migrated_pages_CI' = 0 /\ pages_to_CI' = 0
    /\ entered' = {}

StartPhase(ph) ==
    /\ ~inLoop
    /\ curphase < MaxPhases
    /\ accesses' = ph
    /\ \E first \in [Touched(ph) \ DOMAIN page_owner -> Sockets] :
         /\ \A p \in DOMAIN first : first[p] \in SharersOf(ph, p)
         /\ page_owner' = FirstTouch(page_owner, first)
         /\ page_owner_CI' = FirstTouch(page_owner_CI, first)
    /\ EnterLoop(ph)
    /\ UNCHANGED <<pages_in_pool, migration_per_page, migration_per_page_CI,
                   curphase, dumped, warned>>

\* fault: only the loop's own condition, which asks that one of the two halves has
\* migrations left, limits those of the baseline
MigrateBaselineUnlimited(p, new_owner) ==
    IF migration_per_page[p] <= pingpong_lim /\ page_owner[p] # new_owner
    THEN /\ i' = i + 1
         /\ migrated_pages' = migrated_pages + 1
         /\ page_owner' = [page_owner EXCEPT ![p] = new_owner]
         /\ migration_per_page' = [migration_per_page EXCEPT ![p] = @ + 1]
    ELSE UNCHANGED baseline

\* the baseline's half of an iteration
MigrateBaseline(p, new_owner) ==
    IF /\ i < MIGRATION_LIMIT
       /\ migration_per_page[p] <= pingpong_lim
       /\ page_owner[p] # new_owner
    THEN /\ i' = i + 1
         /\ migrated_pages' = migrated_pages + 1
         /\ page_owner' = [page_owner EXCEPT ![p] = new_owner]
         /\ migration_per_page' = [migration_per_page EXCEPT ![p] = @ + 1]
    ELSE UNCHANGED baseline

\* fault: a page may migrate in every phase
MayMoveEveryPhase(p) == i_cxi < MIGRATION_LIMIT

MayMoveCI(p) == i_cxi < MIGRATION_LIMIT /\ migration_per_page_CI[p] <= pingpong_lim

\* fault: the pool goes on taking pages after it evicted a hotter one
ForPoolThoughHot(p) == Sharers(p) >= SHARER_THRESHOLD

ForPool(p) == ~eviction_candidate_was_hot /\ Sharers(p) >= SHARER_THRESHOLD

KeepCI(p, new_owner) ==
    /\ ~ /\ MayMoveCI(p)
         /\ page_owner_CI[p] # IF ForPool(p) THEN CXO ELSE new_owner
    /\ UNCHANGED island

\* fault: every page that moves makes room in the pool
MoveCIMakesRoom(p, new_owner) ==
    /\ MayMoveCI(p)
    /\ ~ForPool(p)
    /\ page_owner_CI[p] # new_owner
    /\ migrated_pages_CI' = migrated_pages_CI + 1
    /\ page_owner_CI' = [page_owner_CI EXCEPT ![p] = new_owner]
    /\ i_cxi' = i_cxi + 1
    /\ migration_per_page_CI' = [migration_per_page_CI EXCEPT ![p] = @ + 1]
    /\ pages_in_pool' = IF pages_in_pool = 0 THEN 0 ELSE pages_in_pool - 1
    /\ UNCHANGED <<eviction_it, eviction_candidate_was_hot, pages_to_CI, warned, entered>>

\* fault: the pages that move between sockets of the island are not counted
MoveCIUncounted(p, new_owner) ==
    /\ MayMoveCI(p)
    /\ ~ForPool(p)
    /\ page_owner_CI[p] # new_owner
    /\ page_owner_CI' = [page_owner_CI EXCEPT ![p] = new_owner]
    /\ i_cxi' = i_cxi + 1
    /\ migration_per_page_CI' = [migration_per_page_CI EXCEPT ![p] = @ + 1]
    /\ UNCHANGED <<pages_in_pool, eviction_it, eviction_candidate_was_hot,
                   migrated_pages_CI, pages_to_CI, warned, entered>>

\* a page of the pool that leaves it this way is still counted in pages_in_pool
MoveCI(p, new_owner) ==
    /\ MayMoveCI(p)
    /\ ~ForPool(p)
    /\ page_owner_CI[p] # new_owner
    /\ migrated_pages_CI' = migrated_pages_CI + 1
    /\ page_owner_CI' = [page_owner_CI EXCEPT ![p] = new_owner]
    /\ i_cxi' = i_cxi + 1
    /\ migration_per_page_CI' = [migration_per_page_CI EXCEPT ![p] = @ + 1]
    /\ UNCHANGED <<pages_in_pool, eviction_it, eviction_candidate_was_hot,
                   pages_to_CI, warned, entered>>

EntersPool(p) ==
    /\ MayMoveCI(p)
    /\ ForPool(p)
    /\ page_owner_CI[p] # CXO
    /\ pages_to_CI' = pages_to_CI + 1
    /\ migration_per_page_CI' = [migration_per_page_CI EXCEPT ![p] = @ + 1]
    /\ entered' = entered \cup {p}
    /\ UNCHANGED migrated_pages_CI

EnterPool(p) ==
    /\ EntersPool(p)
    /\ pages_in_pool + 1 < pool_cap
    /\ pages_in_pool' = pages_in_pool + 1
    /\ i_cxi' = i_cxi + 1
    /\ page_owner_CI' = [page_owner_CI EXCEPT ![p] = CXO]
    /\ UNCHANGED <<eviction_it, eviction_candidate_was_hot, warned>>

\* fault: the iterator steps before it looks
FoundBefore(owners) ==
    LET inPool == {k \in 1 .. eviction_it - 1 : owners[sorted_candidates[k]] = CXO}
    IN IF inPool = {} THEN 0
       ELSE CHOOSE k \in inPool : \A m \in inPool : m <= k

\* the position at which the eviction iterator stops in the map of owners given
FoundAt(owners) ==
    LET inPool == {k \in 1 .. eviction_it : owners[sorted_candidates[k]] = CXO}
    IN IF inPool = {} THEN 0
       ELSE CHOOSE k \in inPool : \A m \in inPool : m <= k

\* at rend the code goes on with page 0 and reads a count that is undefined
EnterFullPool(p) ==
    LET owners == [page_owner_CI EXCEPT ![p] = CXO]
        found  == FoundAt(owners)
        victim == IF found = 0 THEN 0 ELSE sorted_candidates[found]
    IN /\ EntersPool(p)
       /\ pages_in_pool + 1 >= pool_cap
       /\ pages_in_pool' = pages_in_pool
       /\ eviction_it' = found
       /\ warned' = (warned \/ found = 0)
       /\ i_cxi' = IF found = 0 THEN MIGRATION_LIMIT + 2 ELSE i_cxi + 2
       /\ \E hot \in BOOLEAN :
            /\ found # 0 => hot = (Heat(accesses, victim) >= Heat(accesses, p))
            /\ eviction_candidate_was_hot' = (eviction_candidate_was_hot \/ hot)
       /\ \E ev_new_owner \in EvictedOwners(victim) :
            page_owner_CI' =
              [q \in DOMAIN owners \cup {victim} |->
                  IF q = victim THEN ev_new_owner ELSE owners[q]]

Continues ==
    /\ inLoop
    /\ it_migration <= Len(sorted_candidates)
    /\ i < MIGRATION_LIMIT \/ i_cxi < MIGRATION_LIMIT

Reassign ==
    /\ Continues
    /\ it_migration' = it_migration + 1
    /\ LET p == sorted_candidates[it_migration]
       IN \E new_owner \in NewOwners(p) :
            /\ MigrateBaseline(p, new_owner)
            /\ \/ KeepCI(p, new_owner)
               \/ MoveCI(p, new_owner)
               \/ EnterPool(p)
               \/ EnterFullPool(p)
    /\ UNCHANGED <<curphase, dumped, inLoop, accesses, sorted_candidates>>

NoAccesses == [s \in Sockets |-> [p \in Pages |-> [r |-> 0, w |-> 0]]]

\* process_phase returns: its local variables are gone
PhaseLocals ==
    /\ accesses' = NoAccesses
    /\ sorted_candidates' = <<>>
    /\ it_migration' = 1 /\ eviction_it' = 0
    /\ i' = 0 /\ i_cxi' = 0
    /\ eviction_candidate_was_hot' = FALSE
    /\ migrated_pages' = 0 /\ migrated_pages_CI' = 0 /\ pages_to_CI' = 0
    /\ entered' = {}

LeaveLoop ==
    /\ inLoop
    /\ ~Continues
    /\ inLoop' = FALSE
    /\ curphase' = curphase + 1
    /\ PhaseLocals
    /\ UNCHANGED <<page_owner, page_owner_CI, pages_in_pool, migration_per_page,
                   migration_per_page_CI, warned>>

EndPhase ==
    /\ LeaveLoop
    /\ dumped' = [owner |-> page_owner, owner_CI |-> page_owner_CI]

NoMap == [p \in {} |-> 0]

Init ==
    /\ page_owner = NoMap /\ page_owner_CI = NoMap
    /\ pages_in_pool = 0
    /\ migration_per_page = [p \in Pages |-> 0]
    /\ migration_per_page_CI = [p \in Pages |-> 0]
    /\ curphase = 0
    /\ dumped = [owner |-> NoMap, owner_CI |-> NoMap]
    /\ inLoop = FALSE
    /\ accesses = NoAccesses
    /\ sorted_candidates = <<>>
    /\ it_migration = 1 /\ eviction_it = 0
    /\ i = 0 /\ i_cxi = 0
    /\ eviction_candidate_was_hot = FALSE
    /\ migrated_pages = 0 /\ migrated_pages_CI = 0 /\ pages_to_CI = 0
    /\ warned = FALSE
    /\ entered = {}

Next ==
    \/ \E ph \in Phases : StartPhase(ph)
    \/ Reassign
    \/ EndPhase

Spec == Init /\ [][Next]_vars

-----------------------------------------------------------------------------
(* Properties.                                                             *)

Owners == [owner : UNION {[P -> Sockets] : P \in SUBSET Pages},
           owner_CI : UNION {[P -> Sockets \cup {CXO}] : P \in SUBSET Pages}]

\* A page belongs to a socket and in the CXL island also to the pool, but never to
\* INVAL_OWNER: every candidate was read by some socket, so its owner is found; both
\* maps have the same pages.
TypeOK ==
    /\ [owner |-> page_owner, owner_CI |-> page_owner_CI] \in Owners
    /\ DOMAIN page_owner = DOMAIN page_owner_CI
    /\ dumped \in Owners
    /\ pages_in_pool \in Nat
    /\ migration_per_page \in [Pages -> Nat]
    /\ migration_per_page_CI \in [Pages -> Nat]
    /\ curphase \in 0 .. MaxPhases
    /\ inLoop \in BOOLEAN
    /\ accesses \in Phases \cup {NoAccesses}
    /\ sorted_candidates \in Seq(Pages)
    /\ it_migration \in 1 .. Len(sorted_candidates) + 1
    /\ eviction_it \in 0 .. Len(sorted_candidates)
    /\ {i, i_cxi, migrated_pages, migrated_pages_CI, pages_to_CI} \subseteq Nat
    /\ {eviction_candidate_was_hot, warned} \subseteq BOOLEAN
    /\ entered \subseteq Pages

Pool == {p \in DOMAIN page_owner_CI : page_owner_CI[p] = CXO}

\* The pool never fills its capacity: a page that would fill it makes another
\* one leave, also while the capacity is 0 or 1, and although pages_in_pool, which
\* the code compares with the capacity, is not the number of pages in the pool.
PoolWithinCapacity == Pool # {} => Cardinality(Pool) < pool_cap

\* The branch that warns of a missing eviction candidate, and then reads through
\* rend() and moves page 0, is never taken: the page just put in the pool is a
\* candidate the eviction iterator cannot have passed.
EvictionFindsCandidate == ~warned

Changed(now, before) ==
    {p \in DOMAIN now \cap DOMAIN before : now[p] # before[p]}

\* Of the pages in the maps last saved, a phase moves at most MIGRATION_LIMIT of the
\* baseline and one more in the island (an insertion into a full pool at the limit
\* counts twice).  The generator saves its maps before the phase's first touches, so
\* there the pages new in the phase are not counted.
MigrationLimited ==
    /\ Cardinality(Changed(page_owner, dumped.owner)) <= MIGRATION_LIMIT
    /\ Cardinality(Changed(page_owner_CI, dumped.owner_CI)) <= MIGRATION_LIMIT + 1

\* the pages of the pool that were not in it in the maps last saved
NewInPool == {p \in Pool : p \in DOMAIN dumped.owner_CI => dumped.owner_CI[p] # CXO}

\* The three counts reported of a phase cover the pages whose owner is not the one
\* in the maps last saved: those of the baseline, those in the pool now, also the
\* ones new in the phase, and those that another socket of the island has now.  The
\* evicted pages are not reported; there is at most one for each page reported as
\* moved to the pool.
ReportCoversMoves ==
    inLoop => /\ Cardinality(Changed(page_owner, dumped.owner)) <= migrated_pages
              /\ Cardinality(NewInPool) <= pages_to_CI
              /\ Cardinality(Changed(page_owner_CI, dumped.owner_CI) \ Pool)
                    <= migrated_pages_CI + pages_to_CI

\* A page makes at most one migration of its own more than every
\* PHASES_PER_MIGRATION phases allow.
PingPongBounded ==
    \A p \in Pages : /\ migration_per_page[p] <= pingpong_lim + 1
                      /\ migration_per_page_CI[p] <= pingpong_lim + 1

\* All but one of the pages reported as moved to the pool in a phase are the pages
\* that entered it and stay in it until the phase ends: an eviction of a page at
\* least as hot as the one that enters, of which the pages that entered are some, is
\* the last of the phase.
MovedPagesAreInPool == pages_to_CI <= 1 + Cardinality(entered \cap Pool)

\* "deal eviction if full capacity" (page_map_generator.cpp:524): a page is
\* evicted only when the pool holds pool_cap pages, counting the one that enters.
EvictsOnlyWhenFull ==
    [][pages_to_CI' > pages_to_CI /\ pages_in_pool' = pages_in_pool =>
          Cardinality(Pool \cup {sorted_candidates[it_migration]}) >= pool_cap]_vars

=============================================================================
