--------------------------- MODULE PhaseSimulator ---------------------------
(***************************************************************************)
(* omp_pp_trace.cpp, the simulator of phases.  It reassigns owners by the  *)
(* loop that page_map_generator.cpp has (PoolMigration), and before that   *)
(* accounts for the accesses of the phase, socket by socket: how many hops *)
(* an access travels to the owner of its page, and the traffic on links    *)
(* and memories, for the baseline and for the CXL island.  The generator   *)
(* saves the maps of owners that result from a phase, the simulator those  *)
(* the phase was accounted with.  The variable program says which of the   *)
(* two runs.                                                               *)
(*                                                                         *)
(* Arrays of the code are functions, with the name of the map (baseline or *)
(* island) or the kind of access as the first index where the code has an  *)
(* array for each ("all" for the total); of the statistics only            *)
(* hist_page_shareres_nacc is left out.                                    *)
(***************************************************************************)
EXTENDS PoolMigration, Functions

CONSTANT SOCKETS_PER_GROUP     \* sockets that are one hop apart (4)

ASSUME GroupAssumption == SOCKETS_PER_GROUP \in Nat \ {0}

VARIABLES
    program,                   \* never changes
    i_socket,                  \* the socket to be accounted next
    aborted,                   \* an assert of the accounting failed
    hop_hist, hist_access_sharers, hist_page_sharers,
    link_traffic, CI_traffic, mem_traffic

stats == <<hop_hist, hist_access_sharers, hist_page_sharers,
           link_traffic, CI_traffic, mem_traffic>>

simVars == <<vars, program, i_socket, aborted, stats>>

Maps == {"baseline", "island"}
Kinds == {"W", "RtoRW", "RO"}          \* writes, reads of written pages, other reads
KindsAndTotal == Kinds \cup {"all"}
N_SOCKETS_OFFSET == N_SOCKETS + 1      \* histograms by sharers have an entry 0
SharerCounts == 0 .. N_SOCKETS_OFFSET - 1
Hops == 0 .. 3

-----------------------------------------------------------------------------
gethop(a, b) ==
    IF b = CXO THEN 3
    ELSE IF a = b THEN 0
    ELSE IF a \div SOCKETS_PER_GROUP = b \div SOCKETS_PER_GROUP THEN 1 ELSE 2

IsWritten(p) == \E s \in Sockets : accesses[s][p].w > 0

AccessesOf(kind, s, p) ==
    IF kind = "all" THEN AccsOf(accesses, s, p)
    ELSE IF kind = "W" THEN accesses[s][p].w
    ELSE IF (kind = "RtoRW") = IsWritten(p) THEN accesses[s][p].r ELSE 0

\* the accesses of a socket, by page
AccessCounts(kind, s) == [p \in Pages |-> AccessesOf(kind, s, p)]

Requests(rw, s) == [p \in Pages |-> accesses[s][p][rw]]

AllRequests(s) == [p \in Pages |-> AccsOf(accesses, s, p)]

NoHops == [m \in Maps |-> [k \in Kinds |-> [n \in SharerCounts |-> [h \in Hops |-> 0]]]]
NoSharers(kinds) == [k \in kinds |-> [n \in SharerCounts |-> 0]]
NoLinks == [m \in Maps |-> [rw \in {"r", "w"} |-> [s \in Sockets |-> [o \in Sockets |-> 0]]]]
NoTraffic(D) == [d \in D |-> [s \in Sockets |-> 0]]

NoStats ==
    /\ hop_hist' = NoHops
    /\ hist_access_sharers' = NoSharers(KindsAndTotal)
    /\ hist_page_sharers' = NoSharers({"R", "W", "all"})
    /\ link_traffic' = NoLinks
    /\ CI_traffic' = NoTraffic({"r", "w"})
    /\ mem_traffic' = NoTraffic(Maps)

\* the phase is read: the counts of all sockets are there
SimulatePhase(ph) ==
    /\ ~inLoop
    /\ i_socket = N_SOCKETS
    /\ accesses = NoAccesses
    /\ curphase < MaxPhases
    /\ accesses' = ph
    /\ i_socket' = 0
    /\ UNCHANGED <<persistent, inLoop, sorted_candidates, it_migration, eviction_it,
                   i, i_cxi, eviction_candidate_was_hot, migrated_pages,
                   migrated_pages_CI, pages_to_CI, warned, entered, program, aborted,
                   stats>>

\* fault: the owner in the island's map is not looked up
IslandOwnerIsSocket(p) == i_socket

\* the first socket that is accounted for a page has it in the island
IslandOwner(p) == IF p \in DOMAIN page_owner_CI THEN page_owner_CI[p] ELSE i_socket

\* fault: accesses to the pool are traffic of a memory as well
AllInMemory(owner) == TRUE

InMemory(owner) == owner # CXO

\* what the accesses of one socket to `pages' add, given the owners they have in
\* the island; the links of the island are indexed by `owner', the baseline's, as
\* in the code
AddTraffic(pages, newCI) ==
    LET Hop(m, p) == gethop(i_socket, IF m = "island" THEN newCI[p] ELSE page_owner'[p])
        Local(m)  == {p \in pages : m = "island" => InMemory(newCI[p])}
    IN /\ hop_hist' = [m \in Maps |-> [k \in Kinds |-> [n \in SharerCounts |-> [h \in Hops |->
             hop_hist[m][k][n][h]
               + SumFunctionOnSet(AccessCounts(k, i_socket),
                                  {p \in pages : Sharers(p) = n /\ Hop(m, p) = h})]]]]
       /\ link_traffic' = [m \in Maps |-> [rw \in {"r", "w"} |->
             [s \in Sockets |-> [o \in Sockets |->
                link_traffic[m][rw][s][o]
                  + SumFunctionOnSet(Requests(rw, s),
                                     {p \in Local(m) : s = i_socket /\ page_owner'[p] = o})]]]]
       /\ mem_traffic' = [m \in Maps |-> [s \in Sockets |->
             mem_traffic[m][s]
               + SumFunctionOnSet(AllRequests(s), {p \in Local(m) : s = i_socket})]]
       /\ CI_traffic' = [rw \in {"r", "w"} |-> [s \in Sockets |->
             CI_traffic[rw][s]
               + SumFunctionOnSet(Requests(rw, s),
                                  {p \in pages : s = i_socket /\ newCI[p] = CXO})]]
       /\ hist_access_sharers' = [k \in KindsAndTotal |-> [n \in SharerCounts |->
             hist_access_sharers[k][n]
               + SumFunctionOnSet(AccessCounts(k, i_socket),
                                  {p \in pages : Sharers(p) = n})]]
       /\ UNCHANGED hist_page_sharers

\* the asserts that every page has a sharer and that no page of the baseline is as
\* far away as the pool
AssertsHold(pages) ==
    \A p \in pages : Sharers(p) > 0 /\ gethop(i_socket, page_owner'[p]) < 3

AccountSocket ==
    /\ i_socket < N_SOCKETS
    /\ i_socket' = i_socket + 1
    /\ LET pages == {p \in Pages : i_socket \in SharersOf(accesses, p)}
           newCI == [p \in pages |-> IslandOwner(p)]
       IN \E first \in [pages \ DOMAIN page_owner -> Sockets] :
            /\ \A p \in DOMAIN first : first[p] \in SharersOf(accesses, p)
            /\ page_owner' = FirstTouch(page_owner, first)
            /\ page_owner_CI' = FirstTouch(page_owner_CI, newCI)
            /\ AddTraffic(pages, newCI)
            /\ aborted' = ~AssertsHold(pages)
    /\ UNCHANGED <<pages_in_pool, migration_per_page, migration_per_page_CI, curphase,
                   dumped, inLoop, accesses, sorted_candidates, it_migration,
                   eviction_it, i, i_cxi, eviction_candidate_was_hot, migrated_pages,
                   migrated_pages_CI, pages_to_CI, warned, entered, program>>

\* the histogram of pages, the maps "used for this phase", and on to the loop
SaveMaps ==
    /\ i_socket = N_SOCKETS
    /\ ~inLoop
    /\ accesses # NoAccesses
    /\ hist_page_sharers' = [rw \in {"R", "W", "all"} |-> [n \in SharerCounts |->
          Cardinality({p \in Touched(accesses) :
                          /\ Sharers(p) = n
                          /\ rw = "all" \/ (rw = "W") = IsWritten(p)})]]
    /\ dumped' = [owner |-> page_owner, owner_CI |-> page_owner_CI]
    /\ EnterLoop(accesses)
    /\ UNCHANGED <<page_owner, page_owner_CI, pages_in_pool, migration_per_page,
                   migration_per_page_CI, curphase, warned, program, i_socket, aborted,
                   accesses, hop_hist, hist_access_sharers, link_traffic, CI_traffic,
                   mem_traffic>>

\* the statistics are written to files; they are local variables, too
EndSimulation ==
    /\ LeaveLoop
    /\ NoStats
    /\ UNCHANGED <<dumped, program, i_socket, aborted>>

ProgramInit ==
    /\ Init
    /\ program \in {"generator", "simulator"}
    /\ i_socket = N_SOCKETS
    /\ hop_hist = NoHops
    /\ aborted = FALSE
    /\ hist_access_sharers = NoSharers(KindsAndTotal)
    /\ hist_page_sharers = NoSharers({"R", "W", "all"})
    /\ link_traffic = NoLinks
    /\ CI_traffic = NoTraffic({"r", "w"})
    /\ mem_traffic = NoTraffic(Maps)

Generate ==
    /\ program = "generator"
    /\ Next
    /\ UNCHANGED <<program, i_socket, aborted, stats>>

Simulate ==
    /\ program = "simulator"
    /\ ~aborted
    /\ \/ \E ph \in Phases : SimulatePhase(ph)
       \/ AccountSocket
       \/ SaveMaps
       \/ Reassign /\ UNCHANGED <<program, i_socket, aborted, stats>>
       \/ EndSimulation

ProgramSpec == ProgramInit /\ [][Generate \/ Simulate]_simVars

-----------------------------------------------------------------------------
(* Properties, of the time between saving the maps and the statistics.     *)

Saved(m) == IF m = "island" THEN dumped.owner_CI ELSE dumped.owner

Simulated == program = "simulator" /\ inLoop

\* the accesses of h hops in the histograms of a map
HopCount(m, h) ==
    SumFunction([e \in Kinds \X SharerCounts |-> hop_hist[m][e[1]][e[2]][h]])

\* the traffic of a socket over its links, to its own memory and to others
LinksFrom(m, s) ==
    SumFunction(link_traffic[m]["r"][s]) + SumFunction(link_traffic[m]["w"][s])

\* The maps saved are those "used for this phase" (omp_pp_trace.cpp:505): they
\* explain the histograms of hops, although owners are found while accounting, at
\* the first socket that touches a page, and reassigned before the histograms
\* are written.  No assert of the accounting fails, although baseline, island and
\* pool go through one loop: no page of the baseline is as far away as the pool.
HopsMatchSavedMap ==
    /\ ~aborted
    /\ Simulated => \A m \in Maps, h \in Hops :
          HopCount(m, h) =
            SumFunction([a \in {a \in Sockets \X Touched(accesses) :
                                  gethop(a[1], Saved(m)[a[2]]) = h} |->
                            AccsOf(accesses, a[1], a[2])])

\* The arrays agree: the hops of baseline and island count the same accesses,
\* those of the histogram by sharers, whose kinds add up to its total; what a socket
\* asks of the pool and over its links in the island it asks over its links in the
\* baseline; all memories together serve what comes over all links; and the traffic
\* of the pool are the accesses of three hops.
TrafficAddsUp ==
    Simulated =>
    /\ \A m \in Maps, k \in Kinds, n \in SharerCounts :
          SumFunction(hop_hist[m][k][n]) = hist_access_sharers[k][n]
    /\ \A n \in SharerCounts :
          hist_access_sharers["all"][n]
            = hist_access_sharers["W"][n] + hist_access_sharers["RtoRW"][n]
                + hist_access_sharers["RO"][n]
    /\ \A s \in Sockets :
          LinksFrom("island", s) + CI_traffic["r"][s] + CI_traffic["w"][s]
            = LinksFrom("baseline", s)
    /\ \A m \in Maps :
          SumFunction(mem_traffic[m]) = SumFunction([s \in Sockets |-> LinksFrom(m, s)])
    /\ HopCount("island", 3) = SumFunction(CI_traffic["r"]) + SumFunction(CI_traffic["w"])

\* "list of links (track traffic per link)" (omp_pp_trace.cpp:105): the traffic of
\* the island on a link is that to the pages which its far end owns in the island.
IslandLinksFollowOwners ==
    Simulated => \A rw \in {"r", "w"}, s \in Sockets, o \in Sockets :
        link_traffic["island"][rw][s][o] =
          SumFunctionOnSet(Requests(rw, s),
                           {p \in Touched(accesses) : dumped.owner_CI[p] = o})

=============================================================================
