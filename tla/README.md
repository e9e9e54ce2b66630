# Formal models of the memory-trace tool chain

The repository traces the memory accesses of a multithreaded program with a Pin
tool, and replays the traces through models of a machine of 16 sockets: a
directory protocol between the sockets' last-level caches, and the placement of
pages on sockets or on a memory pool shared by all of them (the CXL island).
This directory holds TLA+ modules of those programs, the TLC runs that check
them on small instances, and proofs that TLAPS checks for every instance.

## 1. Inventory

| Component | Source | State | Operations | Status |
|---|---|---|---|---|
| Tracer | `src/pin321/source/tools/Memory/combined_tracer_40B.cpp` | per thread: instruction count, ROI flag, three caches, two buffers, three files, current ChampSim record; shared: master ROI flag | thread start and end, instruction, magic instruction, memory reference, kill after 40 billion instructions | modelled (`Tracer`), caches abstracted to their answers (`CacheAnswers`), ChampSim records to the instruction they are of; proved |
| Tracer's caches | `src/pin321/source/include/pin/pin_cache_ac.H` | sets of tags with dirty bits and times, the next victim | `Access`, `AccessSingleLine`, `Find`, `Replace`; in the tracer `Ul2Access`, `Ul3Access` | modelled (`PinCache`), proved |
| Coherence replay, caches and directory | `src/proc_scripts/coh_replay/coherence_replay.hpp`, `cache.hpp` | per socket, set and way: tag, valid, dirty, state, timestamp; per line: directory state, owner, sharers; counters | `init_caches`, `access_cache`, `update_directory` | modelled (`CoherenceReplay`), proved |
| Coherence replay, main loop | `coherence_replay.cpp` | position in each trace, end flag, log | one pass of the inner loop, final report | modelled (`CoherenceReplayMain`), proved |
| Page map generator, reader | `src/proc_scripts/page_map_generator.cpp` 84-229, 658-692 | per trace: position, counts; shared: totals under two locks, end flag | OpenMP iteration, critical section, barrier, next phase | modelled (`PhaseReader`), proved |
| Page map generator, reassignment | same file, 237-656 | two owner maps, pool counter, migrations per page, candidates and two iterators | first touch, baseline migration, island migration, pool entry, eviction, save | modelled (`PoolMigration`), proved |
| Phase simulator | `src/proc_scripts/omp_pp_trace.cpp` | as above; histograms of hops and sharers, traffic of links, memories and pool | accounting per socket with first touch, save, the same reassignment | modelled (`PhaseSimulator`), proved with its reassignment |
| Map regeneration | `src/proc_scripts/regenerate_page_maps*.cpp` | owner maps | one pass over saved files | not modelled: parsing and formatting of files around one loop |
| Older tracers, dated copies, one-off analyses, test applications, plots, the Pin kit | see PROJECT.json | | | not modelled: superseded, third party, or pure input and output |

How they interact. The tracer writes one file of last-level misses per thread,
with a mark after every 100 million instructions. Both readers cut these files
at the marks: the replay in rounds, one item of every trace per round; the
page map generator phase by phase, all traces in parallel. Nothing else is
shared between the programs. `TraceFormat!DividedByMarks` is the contract: the
tracer's invariant `MarksDivideTrace` states it, and `PhaseReader` assumes it of
its input.

What is hard in each, and what makes it correct:

- **Replay.** Sequential, but two structures, the cache entries and the
  directory, are kept in agreement by code in two functions and six branches,
  some of which run in a half-updated state (a write hit marks the entry before
  the directory is asked). A slip shows up many accesses later, in another
  socket, as a failed assert or not at all. Correct: directory and caches agree,
  one writer or many readers, no assert fails, every miss and write-back is
  counted once.
- **Replay's loop.** Reads past the end of a trace fail without ending the loop.
  Correct: it ends when an end mark is ahead, its counters add up, replacement
  is by last use.
- **Tracer.** Pin's callbacks for several threads interleave; a shared flag opens
  the region of interest for all of them; buffers outlive the files they are
  meant for; the process may be killed by one thread. Correct: traces complete,
  ordered and cut at the marks; windows in step with the phases.
- **Tracer's caches.** Three caches of a thread call each other; what one evicts
  goes into the next, may evict there, and has to come out as records of the
  trace; the constructors leave dirty bits and times uninitialised. Correct: no
  dirty line leaves the caches without being recorded as a store, no store is
  recorded of a clean line, and what is filled from memory is recorded as read. (A
  line that is dirty in two levels is recorded when it leaves the outer one, and
  may be again.)
- **Reader.** 64 iterations merge counts under locks, an unsynchronised flag ends
  the program, and the access that crosses a boundary has already been read.
  A trace may end in the middle of an item, and the result of the second read is
  not looked at. Correct: each phase has exactly its accesses, the totals are the
  sums, the program ends with the shortest trace.
- **Reassignment.** A long loop with two budgets and two iterators that walk the
  same list towards each other while it changes the map they look at. Correct:
  the pool stays within its capacity, an eviction always finds a page, every
  page has an owner, the migrations are limited and reported.
- **Simulator.** The same loop, and before it some ten arrays are added to for
  every access of every socket, once for the baseline and once for the island,
  while first touches change the maps; the maps are saved in between. Correct:
  the arrays agree with each other and with the maps saved.

## 2. Modules

| Module | Models | Correspondence |
|---|---|---|
| `CoherenceReplay` | one call of `access_cache` | `Hit`, `FillInvalid`, `EvictAndFill` are the three ways through it; each includes `update_directory` (`DirectoryAfter`, `Snooped`, `SnoopAsserts`, `Counted`). An assert that fails sets `aborted`. |
| `CoherentSockets` | what the replay promises | holders of a line, modified lines, and traffic as a function of these two |
| `CoherenceRefinement` | the mapping between the two | holders are the sockets with a valid copy, modified lines those with a dirty one, traffic the counters |
| `CoherenceReplayMain` | `main` of the replay | `ReadMark`, `ReadAccess`, `ReadPastEnd`: one pass of the inner loop each; cut items, marks and the end flag as read. `lastUse` is a history variable for the properties on replacement. |
| `TraceFormat` | the format of traces | what the tracer promises and the readers rely on |
| `Tracer` | the Pin tool | one action per analysis routine, in the order in which `Instruction` inserts the calls: `InsRef`, `MagicInst`, `ChampSim` (reset, set up, `ShouldWrite`, write), `MemRef`. |
| `CacheAnswers` | what the caches let through | the records that one reference may add to a trace, whatever the caches hold |
| `PinCache` | the caches of a thread | `Fetch` and `MemRef` are one reference each, through `AccessSingleLine` (il1), `Ul2Access` and `Ul3Access`; `AccessLine` is one turn of the loop in `Access`, with `Found` (`Find`) and `Replaced` (`Replace`). |
| `PhaseReader` | `process_phase` up to the barrier, and `main`'s loop | `ReadEnd`, `ReadMark`, `ReadAccess` per item, `ReadCut` for the first word of a cut one (`cut`, of which `cut_read` says who has met it); `Coalesce` is the critical section; `SetLock`/`UnsetLock` read and write one total; `EndPhase` is the barrier and the next phase. |
| `PoolMigration` | `process_phase` from the sums per socket | `StartPhase` (first touch and sorting), `Reassign` (one iteration of the loop, with `MigrateBaseline` and one of `KeepCI`, `MoveCI`, `EnterPool`, `EnterFullPool`), `EndPhase`. `NewOwners` starts from `INVAL_OWNER` as the code does, `EvictedOwners` from any socket. `entered` is a history variable: the pages that entered the pool in this phase. |
| `PhaseSimulator` | `omp_pp_trace.cpp`; the variable `program` says whether a behaviour is the generator's or the simulator's | `SimulatePhase`, `AccountSocket` (the statistics of one socket, `AddTraffic`; an assert that fails sets `aborted`), `SaveMaps`, `Reassign` of `PoolMigration`, `EndSimulation` |
| `CoherenceReplayProofs`, `CoherenceReplayMainProofs`, `PoolMigrationProofs`, `PhaseSimulatorProofs`, `PhaseReaderProofs`, `TracerProofs`, `PinCacheProofs` | | theorems and proofs |
| `SumTheorems` | | lemmas on numbers, finite sets and sums that several of the proofs rest on |
| `MC*` | | instances for TLC |

Definitions whose comment begins with "fault:" are not part of a specification:
each is the form a definition would have with a plausible mistake, and is kept
to show that a property notices it (PROJECT.json, "mutants").

What composes what: `CoherenceReplayMain` extends `CoherenceReplay` and drives
`Access` with what it reads; `PoolMigration` takes as `Phases` any counts that
`PhaseReader` could hand over at its barrier; `PhaseSimulator` extends
`PoolMigration`, so that one specification, `ProgramSpec`, holds the two programs
that share the reassignment; `Tracer` draws its caches' answers from
`CacheAnswers`, and `PinCache` is checked and proved to give no others
(`AnswersTracerExpects`, `AnswersExpected`); `Tracer` and `PhaseReader` share `TraceFormat`.

Abstractions worth knowing: an address is a line or a page number, its low bits
being the read/write flag; the sets of a cache are indexed by `%` for the code's
mask; the arrays of sharers are sets; `rand()` and the order of a hash map are
nondeterministic choices; a failed read leaves in the word what the code had put
there: the count of an access that is cut is 0, and that of a mark 0xc0ffee, which
ends no phase. In `CoherenceReplay` `MaxInsts`, in `PoolMigration` and `PhaseReader`
`MaxPhases`, in `PinCache` `MaxTime`, and in `Tracer` `MaxInsts` and `MaxAccesses` bound counters; they
are guards of the actions and named as bounds where they are declared, except
`PhaseReader`'s, which is a bound of the program.

## 3. Runs

| Run | What it shows | Instance |
|---|---|---|
| `protocol` | agreement of caches and directory, single writer, no failed assert, write-backs counted once, and the refinement: the replay implements `CoherentSockets` | 3 sockets, 2 ways, 3 lines of one set: evictions, two and three sharers, promotion of the last sharer all occur |
| `main_replay` | counters add up, replacement per thread, the loop ends | 3 threads on 2 sockets, every combination of short traces of three threads, among them empty and cut ones; the first two accesses of each are of one instruction, and one thread's counts are behind |
| `tracer` | traces complete, ordered, cut at marks; windows in step with phases | 2 threads, windows of two counts in phases of four, marks every two, buffers of two |
| `tracer_fini` | violated: a buffer is written to a null stream | same |
| `tracer_window` | violated: a window starts with a stale record | same |
| `cache` | no dirty line is lost and no clean one written, fills are recorded as loads, no answers but those of `CacheAnswers` | il1 of one way, ul2 of one set and two ways, ul3 of two sets and two ways, lines 1 to 4, references within a line |
| `cache_fetch` | violated: a fetch leaves the instruction cache empty | same |
| `cache_writeback` | violated: a dirty line is lost | same, references of up to two lines |
| `reader` | phases exact, totals exact, ends with the shortest trace, ends | 3 threads, every combination of 5 traces, whole or with two of them cut behind the last item, one in an access and one in a mark; 2 pages |
| `pool` | capacity, eviction, limits, reports, no page without an owner; the simulator's asserts, and that its arrays agree with each other and with the saved maps | generator and simulator, 3 sockets in groups of two, 5 pages, 3 phases with any of 4 patterns each |
| `pool_full` | violated: the pool evicts before it is full | same |
| `sim_links` | violated: traffic of the island on the wrong link | same |

Why the bounds suffice. The protocol treats sets alike and an access touches one
set, so one set with more lines than ways shows every local case; three sockets
are the least with which a line has a requester, an owner and a bystander. The
`VIEW` of the protocol run leaves the counters out of the state's identity:
no guard reads them except the bound `MaxInsts`, which is never reached, and the
properties that speak of counters speak of one step. Timestamps are constant in
that run, which makes the lowest way the victim; `main_replay` varies them.
For the tracer, five instructions reach the second window after the first has
closed, and a third thread would add nothing: the only variable shared is the
master flag. `champsim_traceins` = 1 of `PHASE_INTERVAL` = 4 is the smallest
window for which `ChampSimFilesMatchPhases` holds: at least two counts must be
inside it and two outside, because the start of the master region hides one
count from the test of the window; with the defaults (1 million of 1 billion)
this is so by far. For the pool, five pages and a capacity of two let it fill,
evict and drift within three phases. In the caches a line that ul2 evicts must
compete in ul3 with the line just read and with a second dirty one: two ways and
four lines, one more than the ways of a reference's path, are enough for that.
Only the order of times within a set matters to `Replace`, so the `VIEW` of the
cache runs ranks them and the clock stays far from `MaxTime`; an uninitialised
time is either older than every access (0) or later (1001).

`CHECK_DEADLOCK FALSE` stands where the program ends or a bound stops it: the
replay after its end mark, the tracer when its process ends, the two programs of phases after
`MaxPhases`, the caches when their clock does. `PhaseReader` has an explicit final step instead, so that threads
waiting for each other would be reported.

Fairness. `FairMainSpec` has weak fairness of the only process: a sequential loop
takes its next step. `PhaseReader` has weak fairness of each iteration and of
`EndPhase`: OpenMP runs every iteration to the barrier. A thread waiting for a
lock needs no more, since the others take the lock a bounded number of times in
a phase and then leave it alone. No liveness is claimed of the tracer, whose
program may stop anywhere, or of the migration loop.

## 4. What is proved

`CoherenceReplayProofs`, for every number of sockets, ways, sets and lines, from
`ConstantsAssumption` only: `TypeCorrect`, `AssertsHold`, `DirectoryExact`,
`EntriesExact`, `SharersExact`, `SingleWriterHolds`, `MissesServedOnce`,
`WriteBacksExact`, and `ReplayImplementsPromise`, the refinement of
`CoherentSockets`.

The argument. None of these is inductive alone: that no assert fails needs the
directory's state to tell the number of sharers, which needs the sharers to be
the holders, which needs the loops that stop at the first matching way to have
met the only one. The invariant `IInv` is `TypeOK`, `NoAssertFails`,
`MissAccounting` and, for every set, `SetAgrees(caches[h], CCD, h)`: entries,
directory and sharers of the lines of that set agree. An access changes one set
and entries of its lines, so `OtherSetsAgree` and `AccessAgrees` reduce the
preservation of `IInv` to the one set. There the proof follows the code: what
`Invalidate`, `Downgrade`, `Promote` and `Vacated` leave (`*Effect`), that the
eviction leaves a set in agreement (`EvictionAgrees`), that a hit
(`HitAgrees`) and an installation (`InstallAgrees`) do, and one lemma per action
(`HitKeepsIInv`, `FillInvalidKeepsIInv`, `EvictAndFillKeepsIInv`).
`SingleWriterHolds` then follows from the agreement by cases on the state.

The refinement adds no invariant. For a line of the set accessed, `IInv` tells
holders and modified lines before and after the access from the directory's entry;
what the directory does to the entry is what `CoherentSockets` does to the
holders, case by case (hit or miss, load or store, each state), and the line that
an eviction takes out is the second change that its `Evict` allows. The counters
are then compared with the traffic asked for. `WriteBacksExact` rests on the same
cases: the lines that leave the modified state are at most the line accessed, by a
downgrade, and the line evicted.

`CoherenceReplayMainProofs`, from `MainAssumption` as well: `ProgramOnlyAccesses`
states that `MainSpec` implements `Spec` of `CoherenceReplay`, for any number and
content of traces, cut or not; `DropKeepsForm` shows that what is left of a trace
still has whole items except for the last. `ProgramNeverAborts`,
`ProgramCountsAddUp`, `ProgramWritesBack` and `ProgramKeepsPromise` carry the
results over to the program. `ThreadsOldestEvicted` is about the program alone,
and about traces in which the counts of a thread never decrease
(`CountsNeverDecrease`); the tracer writes such traces (`TracesAreDivided`, whose
second half compares each item with the next), and the replay does not check it.

The argument of the last one. `Stamps` says what an access does to the timestamps of
a set: it stamps the entry of its line, a downgrade, an invalidation and a promotion
stamp nothing (`SnoopKeeps`, `EvictionStamps`), and the only other line of the socket
that can go is the one with the least timestamp. So the timestamp of an entry is the
count of the last use of its line (`Stamped`). Because the counts ahead of a thread
are no smaller than any that it has passed (`CountsAhead`), of two lines that it was
the last to use the later one has no smaller count (`UsesInOrder`), and the line with
the least count was used first, or at the same instruction. `DroppedIsOldest` puts
the two together.

`PoolMigrationProofs`, for every set of pages, number of sockets, thresholds,
limits, access counts and phases, and for generator and simulator alike
(`ProgramSpec`), from `PoolAssumption` and `GroupAssumption`: `TypeCorrect`,
`EvictionAlwaysFinds`, `PoolStaysWithinCapacity`, `PingPongIsBounded`,
`MigrationsAreLimited`, `ReportsCoverMoves`, `MovedPagesStay`.

The argument. What a phase has for its loop is a list of candidates without
repetition, sorted by accesses, all of which have owners (`Candidates`); in the
simulator they have because the sockets accounted so far have touched them
(`Between`). All of them were read, so that some socket has accesses of each and
none is given to `INVAL_OWNER` (part of `TypeCorrect`). That the eviction iterator finds a page is `Reach`: either it is
still at the cold end of the list, or a page that entered the pool in this phase
lies ahead of it, or a hot page was evicted and no page enters any more.
`FullPoolSwaps` then says what an insertion into a full pool does, and the other
theorems follow one strengthening each: `pages_in_pool` is at least the number of
pages of the pool (`Pooled`), the counters of a phase are at least the numbers of
owners changed since the maps were saved (`Counted`: in the baseline, newly in the
pool, and on another socket of the island; only evictions go unreported, at most one
for each page that enters), and all but one of the pages counted as moved to the pool
are in `entered` and still in it (`Stayed`). The generator saves its maps before the
first touches of the next phase: a page new in that phase is compared with them only
when it enters the pool.

`PhaseReaderProofs`, for any number of threads, traces of any length and any
intervals, from `PhaseReaderAssumption`: `TypeCorrect`, `CountsAreExact`,
`EndsWithShortestTrace`, `LocksProtectTotals`, `TotalsAreExact`, also for traces cut
in the middle of an item. No mark is behind the last item of a trace, so an access
that is cut belongs to the phase of that item (`AccessesInPhase`), and it is counted
there although its time is read as 0.

The argument. The threads do not wait for each other inside a phase, so all that
matters of a trace is where its thread stands. `FirstToEnd`: in a trace divided by
marks the first item whose count is not below a multiple of the marks' interval is
the mark of that multiple. A thread therefore stops at the mark of the phase's end
or at the end of its trace, and never reads an access of the next phase
(`ReadAccessReading`); at the barrier, if no trace has ended, all threads stand at
that mark (`AtTheMark`), so the window of the next phase is empty behind them and
complete ahead of them (`NextPhaseReading`). `LocksProtectTotals` is about the
merge: what a thread has read of a total under a lock is still its value when it
writes the sum. `TotalsAreExact` needs it: a total is at every moment the sum over
the threads of what each has merged into it, which is its count of a page or
nothing yet, so that the sum is over all threads when the last one has merged.

`TracerProofs`, for any number of threads, instructions, intervals and sizes of the
buffers, and whatever the caches answer, from `TracerAssumption`: `TypeCorrect`,
`TracesAreDivided`, `AccessesAreTraced`, `FilesMatchPhases`, `UnfilteredGrows`.

The argument. `Complete` says of each thread that its file followed by its buffer
is the trace of the instructions it has counted so far: in order, no time above
the count, a mark for each multiple of `MARK_INTERVAL`, as many accesses as
counted. It needs `BufferSplits` (what is written out and what stays are the whole
buffer, in order, and what stays is short of full) and one lemma for each way a
trace grows: a count without a mark (`CountTraced`), a mark (`MarkTraced`), records
of the last count (`AppendTraced`). `TracesAreDivided` states `DividedByMarks` of
every trace, which is what `PhaseReaderAssumption` asks of the traces it reads, so
that `CountsAreExact` is about the traces this tracer writes.
`FilesMatchPhases` is proved under `WindowsApart`: a phase has at least two counts
inside its window and two outside. Its invariant, `Window`, is
that a thread's file is the one of the last count at which it tested the window,
and that this count is at most two behind: an instruction that ends the thread's
own region of interest is counted and not tested, and when another thread starts
the master region before the test of the next one, that one is tested two counts
later. `main` only asks for windows no longer than a phase, so the hypothesis is
not implied by the code; it holds by far with the default of `-t`.

`UnfilteredGrows` is about the files of a thread's references, one after the other
(`Files`), and its buffer. A step appends to the last file (`LastFileGrows`) or
opens the next one (`FileOpens`); either way what it writes and what it keeps are
the old buffer and the new record, by `BufferSplits`. The invariant it needs,
`Numbered`, is that a thread opens no more files than it has executed instructions:
between the fetch of an instruction and its reference there is always a number left.

`PhaseSimulatorProofs`, for any numbers of sockets, pages, phases and accesses, any
grouping of the sockets and any owners, from `PoolAssumption` and
`GroupAssumption`: `HopsMatchMaps`, `TrafficAgrees`.

The argument. `StatsInv` extends the invariant of the reassignment. Of the arrays it
says what `TrafficAddsUp` asks (`ArraysAgree`), one part for each pair: histograms
of hops and of sharers, the kinds of sharers and their total, links and hops, pool,
links and memories. `AccountSocket` adds to each array a sum over the pages of one socket, and
the same pages sorted by hops, by sharers, by owner and by memory or pool have the
same sum. Of the maps it says that the histograms so far are the accesses of the
sockets accounted so far, by the owners of now (`HopsAccounted`): a page which one of
them has accessed has an owner, and first touch gives owners only to pages that have
none, so that its owner is the one that is saved. `HopsMatchMaps` also has that no
assert of the accounting fails: what a socket accounts for it has accessed, and the
owners of the baseline are sockets, two hops away at most.

`PinCacheProofs`, for any numbers of sets and ways, any lines and any times that an
uninitialised victim's way may hold, from `CacheAssumption`: `TypeCorrect` and
`AnswersExpected` for references of any number of lines; `FillsRead` and
`WriteBacksMatch` for references of one line (`MaxSpan` = 1). The hypothesis cannot
be dropped: with references of two lines a dirty line is lost (section 5,
`cache_writeback`). `WriteBacksMatch` also asks that ul3 takes in what is written,
`ALLOCATION["ul3"]` = `"store_allocate"`, as all configurations of the tracer have it
(`combined_tracer_40B.cpp` 71-110); a ul3 that did not would pass a dirty line of ul2
on without a record.

The argument. `Access` is a fold over the lines of a reference; `AccessSteps` gives
its equation, one turn of the code's loop after the other. `OneLine` says what a turn
does to what a level holds and holds dirty, where the invariant `Inv` is needed: a
line is only ever in the set that its number selects (`Placed`), so that to look for
it in that set is to look for it in the cache. `Ul3Asked` and `Ul2Asked` then say what
one reference through ul3, and through ul2 and ul3, may do to the lines of both and to
the records; a dirty line that ul2 evicts is stored into ul3 or recorded.

`SumTheorems` has what these proofs share. The library's induction theorems cannot be
applied here, as they take an operator as a parameter; the well-foundedness of `<` and
of strict inclusion are plain facts, and applied to a set of numbers or of sets they
give induction over both (`CountUp`, `SubsetInduction`, `ElementInduction`). With it a
recursive function or a fold of the community modules, which is a `CHOOSE`, is shown
to exist and to satisfy its equation, and sums over finite sets are shown not to
depend on the order, to follow a change of the set or of the function, and to be
exchangeable.

Model-checked only: all liveness, which needs fairness and `ENABLED`, out of this
prover's reach. What is violated (section 5) is not proved either.

## 5. Where the code departs from what its text says

With a run that shows it:

- `page_map_generator.cpp:524` "deal eviction if full capacity":
  `pages_in_pool` is not decremented when a page of the pool moves to a socket, so
  that later phases evict early (`pool_full`). The pool is never too full
  (`PoolStaysWithinCapacity`).
- `omp_pp_trace.cpp:105` "track traffic per link": the half that accounts for the
  island files the traffic under the owner of the baseline, :466 (`sim_links`).
- `pin_cache_ac.H:462` "on miss, loads always allocate": the assignment in the call
  at :460 makes every fetch a store, for which il1 does not allocate
  (`cache_fetch`). The trace then has the fetches that il1 should have filtered, as
  far as ul2 misses them.
- `pin_cache_ac.H:178` "handling dirty writeback": an access that spans two lines
  keeps only the last line evicted, :431 (`cache_writeback`). For references
  within a line nothing is lost (`WriteBacksMatchDirtyLines`).
- `combined_tracer_40B.cpp:67` "batch write to file": what is in the unfiltered
  buffer when the thread ends outside a window is written to a null stream
  (`tracer_fini`). While the thread goes on nothing is lost, though the records
  land in the next window's file (`UnfilteredOnlyGrows`).
- `combined_tracer_40B.cpp:783` "finalize each instruction": the record that opens
  a window is the last one set up in the window before (`tracer_window`).

Met while modelling, without a run:

- `coherence_replay.hpp:276` "find lru": the timestamps compared are instruction
  counts of different threads. Among the lines of one thread the order is right, up
  to accesses of one instruction (`EvictsThreadsOldest`).
- `coherence_replay.cpp:91` "print touched memory": the sum runs over `N_SOCKETS`
  of the `NUM_SETS` maps.
- `page_map_generator.cpp:343` "dumping everything": pages that are only written
  are not candidates.
- `page_map_generator.cpp:642`: `sumallacc` adds `N_SOCKETS` of the `N_THR` counts.
- `omp_pp_trace.cpp:113` "traffic at memory controller on each ndoe": `mem_traffic`
  is indexed at :437 by the socket that accesses and not by the one whose memory is
  accessed, and :673 prints it as "memtraffic on node 5". `TrafficAddsUp` asks only that
  all memories together serve what comes over all links, which is so of either index;
  a run about the index would state one assignment.
- `pin_cache_ac.H:194`: the victim of a set is chosen when a way is replaced, for
  the next replacement, so that it may have been used in between: neither round
  robin nor least recently used.
- `coherence_replay.cpp:47`: a trace that cannot be opened is reported and then
  read through a null stream.

Also met, and not a disagreement with any text: the branch of the reassignment
that warns of a missing eviction candidate cannot be reached
(`EvictionAlwaysFinds`), nor, with the tracer's traces, can the branch of the
reader that drops an access at a boundary (`CountsAreExact`).

## 6. Not modelled

The registers and memory operands of a ChampSim record, and with them the
overrun of its arrays when they are full; of the caches `Flush`, the counters and
the class `DIRECT_MAPPED`, which the tracer does not use; of the simulator
`hist_page_shareres_nacc`, a histogram by the logarithm of a page's accesses; the
regeneration of maps, which is one pass between two file formats; the printed
progress of all programs; files that cannot be opened; a phase in which no page is
read, where the generator dereferences the end of an empty list (excluded by
`PoolAssumption`); integers of 64 bits, which no count of these programs exhausts.

The older tracers, the dated copies and the analyses under `modified_anand` and
`anand_project` are earlier or derived forms of the programs modelled here. The
Pin kit, by far the largest part of the repository, is third-party code.

## 7. Plan

Done, in this order: `CoherenceReplay` with its abstraction and proofs,
`CoherenceReplayMain` with proofs, `PoolMigration`, `Tracer`, `PhaseReader`,
`PinCache` behind `CacheAnswers`, `PhaseSimulator`; the proofs about the
reassignment, the reader and the tracer; the refinement of `CoherentSockets`; the
theorems on sums, with the totals of the reader and the statistics of the simulator;
the caches; the tracer's unfiltered files; the order of evictions in the replay.

Next:

1. A set of `PinCache` on its own: at most one way has a tag, so that `Find` from
   the last way down and a search from the first agree.
2. `CountsNeverDecrease` of the traces of `Tracer`, stated over a common module of the
   two trace formats, in place of the argument in section 4.
