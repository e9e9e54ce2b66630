------------------------ MODULE PoolMigrationProofs ------------------------
(***************************************************************************)
(* What the reassignment of owners keeps true, in the generator of page    *)
(* maps and in the simulator of phases, for any number of sockets and      *)
(* pages, any accesses, thresholds and limits, and any number of phases.   *)
(* The argument about the eviction iterator (Reach) is the heart of it:    *)
(* the iterator walks from the coldest candidate, the loop from the        *)
(* hottest, and the first time they would miss each other the page that is *)
(* evicted is hot, which closes the pool for the rest of the phase.        *)
(***************************************************************************)
EXTENDS PhaseSimulator, SumTheorems, SequenceTheorems

-----------------------------------------------------------------------------
(* Facts about the operators.                                              *)

\* A nonempty set of positions has a last one.
LEMMA LastPosition ==
    ASSUME NEW n \in Nat, NEW S \in SUBSET (1 .. n), S # {}
    PROVE  \E k \in S : \A m \in S : m <= k
<1>. DEFINE T == {n - k : k \in S}
            R == {ss \in Nat \X Nat : ss[1] < ss[2]}
<1>1. T \subseteq Nat /\ T # {}
  <2>1. \A k \in S : k \in Int /\ k <= n
    OBVIOUS
  <2>2. PICK e \in S : n - e \in T
    OBVIOUS
  <2>. QED
    BY <2>1, <2>2
<1>2. IsWellFoundedOn(R, Nat)
  BY NatLessThanWellFounded DEF OpToRel
<1>3. PICK y \in T : \A x \in T : ~ (<<x, y>> \in R)
  <2>. HIDE DEF T, R
  <2>. QED
    BY <1>1, <1>2, WFMin
<1>4. PICK k \in S : y = n - k
  BY <1>3
<1>5. \A m \in S : m <= k
  <2>. SUFFICES ASSUME NEW m \in S PROVE m <= k
    OBVIOUS
  <2>1. n - m \in T /\ n - m \in Nat /\ n - k \in Nat /\ m \in Int /\ k \in Int
    <3>1. m \in 1 .. n /\ k \in 1 .. n
      OBVIOUS
    <3>. QED
      BY <3>1
  <2>2. ~ (n - m < n - k)
    BY <1>3, <1>4, <2>1
  <2>. QED
    BY <2>1, <2>2
<1>. QED
  BY <1>5

\* The eviction iterator stops at the coldest candidate left that is in the pool.
LEMMA FoundInPool ==
    ASSUME NEW owners, eviction_it \in Nat,
           NEW w \in 1 .. eviction_it, owners[sorted_candidates[w]] = CXO
    PROVE  /\ FoundAt(owners) \in 1 .. eviction_it
           /\ owners[sorted_candidates[FoundAt(owners)]] = CXO
           /\ w <= FoundAt(owners)
<1>1. PICK S \in SUBSET (1 .. eviction_it) :
        S = {k \in 1 .. eviction_it : owners[sorted_candidates[k]] = CXO}
  OBVIOUS
<1>2. w \in S
  BY <1>1
<1>3. \E k \in S : \A m \in S : m <= k
  BY <1>2, LastPosition
<1>4. FoundAt(owners) = CHOOSE k \in S : \A m \in S : m <= k
  BY <1>1, <1>2 DEF FoundAt
<1>5. FoundAt(owners) \in S /\ \A m \in S : m <= FoundAt(owners)
  BY <1>3, <1>4
<1>. QED
  BY <1>1, <1>2, <1>5

\* Of several numbers some socket has the first greatest one.
LEMMA FirstGreatest ==
    ASSUME NEW a \in [Sockets -> Nat]
    PROVE  \E s \in Sockets : \A t \in Sockets : a[t] <= a[s] /\ (t < s => a[t] < a[s])
<1>. DEFINE Best(n, s) == \A t \in 0 .. n - 1 : a[t] <= a[s] /\ (t < s => a[t] < a[s])
<1>1. PICK P : P = {n \in 0 .. N_SOCKETS : n = 0 \/ \E s \in 0 .. n - 1 : Best(n, s)}
  OBVIOUS
<1>2. N_SOCKETS \in Nat /\ N_SOCKETS # 0
  BY PoolAssumption
<1>3. 0 \in P
  BY <1>1, <1>2
<1>4. ASSUME NEW n \in 1 .. N_SOCKETS, n - 1 \in P
      PROVE  n \in P
  <2>1. PICK m \in 0 .. N_SOCKETS : m = n - 1 /\ n = m + 1 /\ m \in Sockets
    BY <1>2 DEF Sockets
  <2>2. \A t \in 0 .. n - 1 : t \in Sockets /\ a[t] \in Nat /\ (t = m \/ t \in 0 .. m - 1)
    BY <1>2, <2>1 DEF Sockets
  <2>3. CASE m = 0
    <3>1. 0 .. n - 1 = {m}
      BY <2>1, <2>3
    <3>2. Best(n, m)
      BY <2>2, <3>1
    <3>. QED
      BY <1>1, <3>1, <3>2
  <2>4. CASE m # 0
    <3>0. \E s \in 0 .. (n - 1) - 1 : Best(n - 1, s)
      BY <1>1, <1>4, <2>1, <2>4
    <3>1. PICK s \in 0 .. m - 1 : Best(m, s)
      BY <2>1, <3>0
    <3>2. s \in 0 .. n - 1 /\ m \in 0 .. n - 1 /\ s < m /\ a[s] \in Nat /\ a[m] \in Nat
      BY <2>1, <2>2
    <3>3. CASE a[m] > a[s]
      <4>1. Best(n, m)
        BY <2>2, <3>1, <3>2, <3>3
      <4>. QED
        BY <1>1, <3>2, <4>1
    <3>4. CASE ~ (a[m] > a[s])
      <4>1. Best(n, s)
        BY <2>2, <3>1, <3>2, <3>4
      <4>. QED
        BY <1>1, <3>2, <4>1
    <3>. QED
      BY <3>3, <3>4
  <2>. QED
    BY <2>3, <2>4
<1>5. N_SOCKETS \in P
  <2>. HIDE DEF Best
  <2>1. \A n \in 0 .. N_SOCKETS : n \in P
    BY <1>2, <1>3, <1>4, CountUp
  <2>. QED
    BY <1>2, <2>1
<1>. QED
  BY <1>1, <1>2, <1>5 DEF Sockets

\* A page that some socket uses is used most by one of them.
LEMMA SomeSocketUsesMost ==
    ASSUME accesses \in Phases, NEW p \in Touched(accesses)
    PROVE  MostAccesses(p) # {}
<1>1. PICK a : a = [t \in Sockets |-> AccsOf(accesses, t, p)]
  OBVIOUS
<1>2. p \in Pages /\ SharersOf(accesses, p) # {}
  BY DEF Touched
<1>3. \A t \in Sockets : accesses[t][p].r \in Nat /\ accesses[t][p].w \in Nat
  BY <1>2, PoolAssumption
<1>4. \A t \in Sockets : AccsOf(accesses, t, p) \in Nat
  BY <1>3 DEF AccsOf
<1>5. a \in [Sockets -> Nat] /\ \A t \in Sockets : a[t] = AccsOf(accesses, t, p)
  BY <1>1, <1>4
<1>6. PICK s \in Sockets : \A t \in Sockets : a[t] <= a[s] /\ (t < s => a[t] < a[s])
  BY <1>5, FirstGreatest
<1>7. a[s] > 0
  <2>1. PICK u \in Sockets : a[u] > 0
    BY <1>2, <1>5 DEF SharersOf
  <2>2. a[u] \in Nat /\ a[s] \in Nat /\ a[u] <= a[s]
    BY <1>5, <1>6
  <2>. QED
    BY <2>1, <2>2
<1>8. s \in SharersOf(accesses, p)
  BY <1>5, <1>7 DEF SharersOf
<1>9. s \in MostAccesses(p)
  BY <1>5, <1>6, <1>8 DEF MostAccesses
<1>. QED
  BY <1>9

\* The new owner of a page that is used, and of an evicted one, is a socket: never
\* the pool, and never INVAL_OWNER.
LEMMA NewOwnersAreSockets ==
    /\ accesses \in Phases => \A p \in Touched(accesses) : NewOwners(p) \subseteq Sockets
    /\ \A p : EvictedOwners(p) \subseteq Sockets
<1>1. \A p : MostAccesses(p) \subseteq Sockets
  BY DEF MostAccesses, SharersOf
<1>. QED
  BY <1>1, SomeSocketUsesMost DEF NewOwners, EvictedOwners

\* What is known of a list of candidates.
LEMMA CandidatesList ==
    ASSUME NEW ph \in Phases, NEW c \in SortedCandidates(ph)
    PROVE  /\ c \in Seq(Pages)
           /\ Len(c) = Cardinality(CandidatePages(ph))
           /\ \A k \in 1 .. Len(c) : c[k] \in Touched(ph)
           /\ \A k, m \in 1 .. Len(c) : k # m => c[k] # c[m]
           /\ \A k, m \in 1 .. Len(c) : k <= m => Heat(ph, c[k]) >= Heat(ph, c[m])
<1>1. CandidatePages(ph) \subseteq Pages /\ IsFiniteSet(CandidatePages(ph))
  BY PoolAssumption, FS_Subset DEF CandidatePages
<1>2. PICK n \in Nat : n = Cardinality(CandidatePages(ph))
  BY <1>1, FS_CardinalityType
<1>3. /\ c \in [1 .. n -> CandidatePages(ph)]
      /\ \A k, m \in DOMAIN c : k # m => c[k] # c[m]
      /\ \A k, m \in DOMAIN c : k <= m => Heat(ph, c[k]) >= Heat(ph, c[m])
  BY <1>2 DEF SortedCandidates
<1>4. DOMAIN c = 1 .. n
  BY <1>3
<1>5. c \in Seq(Pages) /\ Len(c) = n
  <2>1. \A k \in 1 .. n : c[k] \in Pages
    BY <1>1, <1>3
  <2>2. c = [k \in 1 .. n |-> c[k]]
    BY <1>3
  <2>3. [k \in 1 .. n |-> c[k]] \in Seq(Pages)
    BY <2>1, IsASeq
  <2>4. c \in Seq(Pages)
    BY <2>2, <2>3, Zenon
  <2>. QED
    BY <1>4, <2>4, LenProperties
<1>6. CandidatePages(ph) \subseteq Touched(ph)
  <2>. SUFFICES ASSUME NEW p \in Pages, NEW s \in Sockets, ph[s][p].r > 0
                PROVE  AccsOf(ph, s, p) > 0
    BY DEF CandidatePages, Touched, SharersOf
  <2>1. ph[s][p].r \in Nat /\ ph[s][p].w \in Nat
    BY PoolAssumption
  <2>. QED
    BY <2>1 DEF AccsOf
<1>7. \A k \in 1 .. n : c[k] \in Touched(ph)
  BY <1>3, <1>6
<1>. QED
  BY <1>2, <1>3, <1>4, <1>5, <1>7, Zenon

-----------------------------------------------------------------------------
(* The inductive invariant.                                                *)

OwnerMap(f, S) ==
    /\ DOMAIN f \subseteq Pages
    /\ f = [p \in DOMAIN f |-> f[p]]
    /\ \A p \in DOMAIN f : f[p] \in S

MapsOK ==
    /\ OwnerMap(page_owner, Sockets)
    /\ OwnerMap(page_owner_CI, Sockets \cup {CXO})
    /\ DOMAIN page_owner = DOMAIN page_owner_CI

\* The iterators of sorted candidates, and what a phase has for them
Candidates ==
    /\ accesses \in Phases
    /\ sorted_candidates \in SortedCandidates(accesses)
    /\ \A k \in 1 .. Len(sorted_candidates) :
          sorted_candidates[k] \in DOMAIN page_owner_CI

\* As long as no hot page was evicted, the eviction iterator has not left the cold
\* end, or a page that entered the pool in this phase is still ahead of it.
Reach ==
    \/ eviction_candidate_was_hot
    \/ eviction_it = Len(sorted_candidates)
    \/ \E k \in 1 .. it_migration - 1 :
          k <= eviction_it /\ page_owner_CI[sorted_candidates[k]] = CXO

\* Where the two programs are between phases
Between ==
    /\ pages_to_CI = 0 /\ sorted_candidates = <<>>
    /\ program = "generator" =>
          dumped = [owner |-> page_owner, owner_CI |-> page_owner_CI]
    /\ program = "simulator" /\ accesses # NoAccesses =>
          \A s \in Sockets, p \in Pages :
              s < i_socket /\ s \in SharersOf(accesses, p) => p \in DOMAIN page_owner_CI

Control ==
    /\ program \in {"generator", "simulator"}
    /\ i_socket \in 0 .. N_SOCKETS
    /\ program = "generator" \/ inLoop => i_socket = N_SOCKETS
    /\ inLoop \/ (program = "simulator" /\ accesses # NoAccesses) => curphase < MaxPhases
    /\ inLoop => Candidates /\ Reach
    /\ ~inLoop => Between
    /\ EvictionFindsCandidate

IInv == TypeOK /\ Control

LEMMA OwnerMapIsFunction ==
    ASSUME NEW f, NEW S
    PROVE  f \in UNION {[P -> S] : P \in SUBSET Pages} <=> OwnerMap(f, S)
<1>1. ASSUME f \in UNION {[P -> S] : P \in SUBSET Pages}
      PROVE  OwnerMap(f, S)
  <2>1. PICK P \in SUBSET Pages : f \in [P -> S]
    BY <1>1
  <2>. QED
    BY <2>1 DEF OwnerMap
<1>2. ASSUME OwnerMap(f, S)
      PROVE  f \in UNION {[P -> S] : P \in SUBSET Pages}
  <2>1. f \in [DOMAIN f -> S] /\ DOMAIN f \in SUBSET Pages
    BY <1>2 DEF OwnerMap
  <2>. QED
    BY <2>1
<1>. QED
  BY <1>1, <1>2

LEMMA TypeOKGivesMaps ==
    /\ TypeOK => MapsOK
    /\ TypeOK' => MapsOK'
    /\ MapsOK => [owner |-> page_owner, owner_CI |-> page_owner_CI] \in Owners
    /\ MapsOK' => [owner |-> page_owner, owner_CI |-> page_owner_CI]' \in Owners
<1>1. ASSUME NEW f, NEW g
      PROVE  [owner |-> f, owner_CI |-> g] \in Owners
                <=> OwnerMap(f, Sockets) /\ OwnerMap(g, Sockets \cup {CXO})
  <2>1. [owner |-> f, owner_CI |-> g] \in Owners
          <=> /\ f \in UNION {[P -> Sockets] : P \in SUBSET Pages}
              /\ g \in UNION {[P -> Sockets \cup {CXO}] : P \in SUBSET Pages}
    BY DEF Owners
  <2>. QED
    BY <2>1, OwnerMapIsFunction
<1>2. TypeOK => MapsOK
  BY <1>1 DEF TypeOK, MapsOK
<1>3. TypeOK' => MapsOK'
  BY <1>1 DEF TypeOK, MapsOK
<1>4. MapsOK => [owner |-> page_owner, owner_CI |-> page_owner_CI] \in Owners
  BY <1>1 DEF MapsOK
<1>5. MapsOK' => [owner |-> page_owner, owner_CI |-> page_owner_CI]' \in Owners
  BY <1>1 DEF MapsOK
<1>. QED
  BY <1>2, <1>3, <1>4, <1>5

LEMMA InitIInv ==
    ProgramInit => IInv
<1>. SUFFICES ASSUME ProgramInit PROVE IInv
  OBVIOUS
<1>0. Init /\ i_socket = N_SOCKETS /\ program \in {"generator", "simulator"}
  BY DEF ProgramInit
<1>. USE <1>0 DEF Init
<1>1. NoMap = [p \in {} |-> 0] /\ DOMAIN NoMap = {}
  BY DEF NoMap
<1>2. MapsOK
  BY <1>1 DEF MapsOK, OwnerMap
<1>3. [owner |-> page_owner, owner_CI |-> page_owner_CI] \in Owners
  BY <1>2, TypeOKGivesMaps
<1>4. TypeOK
  <2>1. <<>> \in Seq(Pages) /\ Len(<<>>) = 0
    BY EmptySeq
  <2>2. dumped \in Owners
    BY <1>3
  <2>3. [p \in Pages |-> 0] \in [Pages -> Nat]
    OBVIOUS
  <2>4. /\ migration_per_page \in [Pages -> Nat]
        /\ migration_per_page_CI \in [Pages -> Nat]
    BY <2>3
  <2>5. /\ sorted_candidates \in Seq(Pages)
        /\ it_migration \in 1 .. Len(sorted_candidates) + 1
        /\ eviction_it \in 0 .. Len(sorted_candidates)
    BY <2>1
  <2>6. /\ pages_in_pool \in Nat /\ curphase \in 0 .. MaxPhases
        /\ {i, i_cxi, migrated_pages, migrated_pages_CI, pages_to_CI} \subseteq Nat
        /\ accesses \in Phases \cup {NoAccesses}
    BY PoolAssumption
  <2>7. /\ inLoop \in BOOLEAN /\ {eviction_candidate_was_hot, warned} \subseteq BOOLEAN
        /\ entered \subseteq Pages
    OBVIOUS
  <2>8. DOMAIN page_owner = DOMAIN page_owner_CI
    BY <1>2 DEF MapsOK
  <2>. HIDE <1>0
  <2>. QED
    BY <1>3, <2>2, <2>4, <2>5, <2>6, <2>7, <2>8 DEF TypeOK
<1>5. Control
  BY PoolAssumption DEF Control, Between, EvictionFindsCandidate
<1>. QED
  BY <1>4, <1>5 DEF IInv

-----------------------------------------------------------------------------
(* Every step keeps it.                                                    *)

\* Pages keep their owners, and a new page belongs to a socket, not to the pool.
Grows ==
    /\ MapsOK'
    /\ DOMAIN page_owner \subseteq DOMAIN page_owner'
    /\ \A p \in DOMAIN page_owner : page_owner'[p] = page_owner[p]
    /\ \A p \in DOMAIN page_owner_CI : page_owner_CI'[p] = page_owner_CI[p]
    /\ \A p \in DOMAIN page_owner_CI' \ DOMAIN page_owner_CI : page_owner_CI'[p] # CXO

LEMMA FirstTouchKeeps ==
    ASSUME NEW owners, NEW first, NEW S, OwnerMap(owners, S), OwnerMap(first, S)
    PROVE  /\ OwnerMap(FirstTouch(owners, first), S)
           /\ DOMAIN FirstTouch(owners, first) = DOMAIN owners \cup DOMAIN first
           /\ \A p \in DOMAIN owners : FirstTouch(owners, first)[p] = owners[p]
           /\ \A p \in DOMAIN first :
                 p \notin DOMAIN owners => FirstTouch(owners, first)[p] = first[p]
<1>1. PICK g : g = FirstTouch(owners, first)
  OBVIOUS
<1>2. g = [p \in DOMAIN owners \cup DOMAIN first |->
              IF p \in DOMAIN owners THEN owners[p] ELSE first[p]]
  BY <1>1 DEF FirstTouch
<1>3. /\ DOMAIN g = DOMAIN owners \cup DOMAIN first
      /\ \A p \in DOMAIN owners : g[p] = owners[p]
      /\ \A p \in DOMAIN first : p \notin DOMAIN owners => g[p] = first[p]
  BY <1>2
<1>4. DOMAIN g \subseteq Pages /\ \A p \in DOMAIN g : g[p] \in S
  BY <1>3 DEF OwnerMap
<1>5. g = [p \in DOMAIN g |-> g[p]]
  BY <1>2
<1>. QED
  BY <1>1, <1>3, <1>4, <1>5 DEF OwnerMap

LEMMA StartPhaseGrows ==
    ASSUME IInv, NEW ph \in Phases, StartPhase(ph)
    PROVE  Grows /\ Touched(ph) \subseteq DOMAIN page_owner_CI'
<1>1. PICK first \in [Touched(ph) \ DOMAIN page_owner -> Sockets] :
        /\ page_owner' = FirstTouch(page_owner, first)
        /\ page_owner_CI' = FirstTouch(page_owner_CI, first)
  BY DEF StartPhase
<1>2. MapsOK
  BY TypeOKGivesMaps DEF IInv
<1>3. OwnerMap(first, Sockets) /\ DOMAIN first = Touched(ph) \ DOMAIN page_owner
  BY DEF OwnerMap, Touched
<1>4. /\ OwnerMap(page_owner', Sockets)
      /\ DOMAIN page_owner' = DOMAIN page_owner \cup DOMAIN first
      /\ \A p \in DOMAIN page_owner : page_owner'[p] = page_owner[p]
  <2>1. OwnerMap(page_owner, Sockets)
    BY <1>2 DEF MapsOK
  <2>2. /\ OwnerMap(FirstTouch(page_owner, first), Sockets)
        /\ DOMAIN FirstTouch(page_owner, first) = DOMAIN page_owner \cup DOMAIN first
        /\ \A p \in DOMAIN page_owner : FirstTouch(page_owner, first)[p] = page_owner[p]
    BY <1>3, <2>1, FirstTouchKeeps
  <2>. QED
    BY <1>1, <2>2
<1>5. /\ OwnerMap(page_owner_CI', Sockets \cup {CXO})
      /\ DOMAIN page_owner_CI' = DOMAIN page_owner_CI \cup DOMAIN first
      /\ \A p \in DOMAIN page_owner_CI : page_owner_CI'[p] = page_owner_CI[p]
      /\ \A p \in DOMAIN first :
              p \notin DOMAIN page_owner_CI => page_owner_CI'[p] = first[p]
  <2>1. PICK S : S = Sockets \cup {CXO}
    OBVIOUS
  <2>2. OwnerMap(first, S) /\ OwnerMap(page_owner_CI, S)
    BY <1>2, <1>3, <2>1 DEF OwnerMap, MapsOK
  <2>3. /\ OwnerMap(page_owner_CI', S)
        /\ DOMAIN page_owner_CI' = DOMAIN page_owner_CI \cup DOMAIN first
        /\ \A p \in DOMAIN page_owner_CI : page_owner_CI'[p] = page_owner_CI[p]
        /\ \A p \in DOMAIN first :
              p \notin DOMAIN page_owner_CI => page_owner_CI'[p] = first[p]
    <3>1. /\ OwnerMap(FirstTouch(page_owner_CI, first), S)
          /\ DOMAIN FirstTouch(page_owner_CI, first) = DOMAIN page_owner_CI \cup DOMAIN first
          /\ \A p \in DOMAIN page_owner_CI :
                FirstTouch(page_owner_CI, first)[p] = page_owner_CI[p]
          /\ \A p \in DOMAIN first : p \notin DOMAIN page_owner_CI =>
                FirstTouch(page_owner_CI, first)[p] = first[p]
      BY <2>2, FirstTouchKeeps
    <3>. QED
      BY <1>1, <3>1
  <2>. QED
    BY <2>1, <2>3
<1>6. \A p \in DOMAIN page_owner_CI' \ DOMAIN page_owner_CI : page_owner_CI'[p] # CXO
  BY <1>3, <1>5, PoolAssumption DEF OwnerMap
<1>7. MapsOK'
  BY <1>2, <1>4, <1>5 DEF MapsOK
<1>. QED
  BY <1>2, <1>3, <1>4, <1>5, <1>6, <1>7 DEF Grows, MapsOK

LEMMA AccountSocketGrows ==
    ASSUME IInv, AccountSocket
    PROVE  /\ Grows
           /\ \A p \in Pages : i_socket \in SharersOf(accesses, p)
                                 => p \in DOMAIN page_owner_CI'
<1>. DEFINE pages == {p \in Pages : i_socket \in SharersOf(accesses, p)}
            newCI == [p \in pages |-> IslandOwner(p)]
<1>1. PICK first \in [pages \ DOMAIN page_owner -> Sockets] :
        /\ page_owner' = FirstTouch(page_owner, first)
        /\ page_owner_CI' = FirstTouch(page_owner_CI, newCI)
  BY DEF AccountSocket
<1>2. MapsOK
  BY TypeOKGivesMaps DEF IInv
<1>3. OwnerMap(first, Sockets) /\ DOMAIN first = pages \ DOMAIN page_owner
  BY DEF OwnerMap
<1>4. i_socket \in Sockets
  <2>1. i_socket < N_SOCKETS
    BY DEF AccountSocket
  <2>. QED
    BY <2>1, PoolAssumption DEF IInv, Control, Sockets
<1>5. PICK new : new = newCI
  OBVIOUS
<1>10. /\ DOMAIN new = pages
       /\ \A p \in pages : new[p] = IslandOwner(p)
       /\ new = [p \in DOMAIN new |-> new[p]]
  BY <1>5
<1>11. \A p \in pages : IslandOwner(p) \in Sockets \cup {CXO}
  BY <1>2, <1>4 DEF OwnerMap, IslandOwner, MapsOK
<1>12. OwnerMap(new, Sockets \cup {CXO})
  BY <1>10, <1>11 DEF OwnerMap
<1>13. \A p \in pages \ DOMAIN page_owner_CI : new[p] = i_socket
  BY <1>10 DEF IslandOwner
<1>6. /\ OwnerMap(page_owner', Sockets)
      /\ DOMAIN page_owner' = DOMAIN page_owner \cup DOMAIN first
      /\ \A p \in DOMAIN page_owner : page_owner'[p] = page_owner[p]
  <2>1. OwnerMap(page_owner, Sockets)
    BY <1>2 DEF MapsOK
  <2>2. /\ OwnerMap(FirstTouch(page_owner, first), Sockets)
        /\ DOMAIN FirstTouch(page_owner, first) = DOMAIN page_owner \cup DOMAIN first
        /\ \A p \in DOMAIN page_owner : FirstTouch(page_owner, first)[p] = page_owner[p]
    BY <1>3, <2>1, FirstTouchKeeps
  <2>. QED
    BY <1>1, <2>2
<1>7. /\ OwnerMap(page_owner_CI', Sockets \cup {CXO})
      /\ DOMAIN page_owner_CI' = DOMAIN page_owner_CI \cup pages
      /\ \A p \in DOMAIN page_owner_CI : page_owner_CI'[p] = page_owner_CI[p]
      /\ \A p \in pages \ DOMAIN page_owner_CI : page_owner_CI'[p] = new[p]
  <2>1. page_owner_CI' = FirstTouch(page_owner_CI, new)
    BY <1>1, <1>5
  <2>. HIDE DEF pages, newCI
  <2>2. PICK S : S = Sockets \cup {CXO}
    OBVIOUS
  <2>3. OwnerMap(new, S) /\ OwnerMap(page_owner_CI, S)
    BY <1>2, <1>12, <2>2 DEF MapsOK
  <2>4. /\ OwnerMap(page_owner_CI', S)
        /\ DOMAIN page_owner_CI' = DOMAIN page_owner_CI \cup DOMAIN new
        /\ \A p \in DOMAIN page_owner_CI : page_owner_CI'[p] = page_owner_CI[p]
        /\ \A p \in DOMAIN new :
              p \notin DOMAIN page_owner_CI => page_owner_CI'[p] = new[p]
    <3>1. /\ OwnerMap(FirstTouch(page_owner_CI, new), S)
          /\ DOMAIN FirstTouch(page_owner_CI, new) = DOMAIN page_owner_CI \cup DOMAIN new
          /\ \A p \in DOMAIN page_owner_CI :
                FirstTouch(page_owner_CI, new)[p] = page_owner_CI[p]
          /\ \A p \in DOMAIN new : p \notin DOMAIN page_owner_CI =>
                FirstTouch(page_owner_CI, new)[p] = new[p]
      BY <2>3, FirstTouchKeeps
    <3>. QED
      BY <2>1, <3>1
  <2>. QED
    BY <1>10, <2>2, <2>4
<1>8. \A p \in DOMAIN page_owner_CI' \ DOMAIN page_owner_CI : page_owner_CI'[p] # CXO
  BY <1>4, <1>7, <1>10, <1>13, PoolAssumption
<1>9. MapsOK'
  BY <1>2, <1>3, <1>6, <1>7 DEF MapsOK
<1>. QED
  BY <1>2, <1>3, <1>6, <1>7, <1>8, <1>9 DEF Grows, MapsOK

\* The loop begins with both iterators at their ends.
LEMMA EnterLoopCandidates ==
    ASSUME NEW ph \in Phases, EnterLoop(ph), accesses' = ph,
           Touched(ph) \subseteq DOMAIN page_owner_CI'
    PROVE  /\ Candidates' /\ Reach'
           /\ sorted_candidates' \in Seq(Pages)
           /\ it_migration' \in 1 .. Len(sorted_candidates') + 1
           /\ eviction_it' \in 0 .. Len(sorted_candidates')
           /\ {i, i_cxi, migrated_pages, migrated_pages_CI, pages_to_CI}' \subseteq Nat
           /\ eviction_candidate_was_hot' \in BOOLEAN
           /\ inLoop' \in BOOLEAN /\ inLoop'
           /\ entered' = {}
<1>1. /\ inLoop' = TRUE
      /\ sorted_candidates' \in SortedCandidates(ph)
      /\ it_migration' = 1
      /\ eviction_it' = Cardinality(CandidatePages(ph))
      /\ i' = 0 /\ i_cxi' = 0
      /\ eviction_candidate_was_hot' = FALSE
      /\ migrated_pages' = 0 /\ migrated_pages_CI' = 0 /\ pages_to_CI' = 0
      /\ entered' = {}
  BY DEF EnterLoop
<1>2. /\ sorted_candidates' \in Seq(Pages)
      /\ Len(sorted_candidates') = Cardinality(CandidatePages(ph))
      /\ \A k \in 1 .. Len(sorted_candidates') : sorted_candidates'[k] \in Touched(ph)
  BY <1>1, CandidatesList
<1>3. Len(sorted_candidates') \in Nat
  BY <1>2, LenProperties
<1>4. Candidates'
  BY <1>1, <1>2 DEF Candidates
<1>5. Reach'
  BY <1>1, <1>2 DEF Reach
<1>6. {i', i_cxi', migrated_pages', migrated_pages_CI', pages_to_CI'} \subseteq Nat
  BY <1>1
<1>7. /\ it_migration' \in 1 .. Len(sorted_candidates') + 1
      /\ eviction_it' \in 0 .. Len(sorted_candidates')
  BY <1>1, <1>2, <1>3
<1>. QED
  BY <1>1, <1>2, <1>4, <1>5, <1>6, <1>7

LEMMA StartPhaseIInv ==
    ASSUME IInv, NEW ph \in Phases, StartPhase(ph), program = "generator",
           UNCHANGED <<program, i_socket, aborted, stats>>
    PROVE  IInv'
<1>. USE DEF IInv
<1>1. Grows /\ Touched(ph) \subseteq DOMAIN page_owner_CI'
  BY StartPhaseGrows
<1>2. /\ EnterLoop(ph) /\ accesses' = ph /\ curphase < MaxPhases
      /\ UNCHANGED <<pages_in_pool, migration_per_page, migration_per_page_CI,
                     curphase, dumped, warned>>
  BY DEF StartPhase
<1>3. /\ Candidates' /\ Reach'
      /\ sorted_candidates' \in Seq(Pages)
      /\ it_migration' \in 1 .. Len(sorted_candidates') + 1
      /\ eviction_it' \in 0 .. Len(sorted_candidates')
      /\ {i, i_cxi, migrated_pages, migrated_pages_CI, pages_to_CI}' \subseteq Nat
      /\ eviction_candidate_was_hot' \in BOOLEAN
      /\ inLoop' \in BOOLEAN /\ inLoop'
      /\ entered' = {}
  BY <1>1, <1>2, EnterLoopCandidates
<1>4. MapsOK' /\ [owner |-> page_owner, owner_CI |-> page_owner_CI]' \in Owners
  BY <1>1, TypeOKGivesMaps DEF Grows
<1>5. TypeOK'
  BY <1>2, <1>3, <1>4 DEF TypeOK, MapsOK
<1>6. Control'
  BY <1>2, <1>3 DEF Control, EvictionFindsCandidate
<1>. QED
  BY <1>5, <1>6

LEMMA SimulatePhaseIInv ==
    ASSUME IInv, NEW ph \in Phases, SimulatePhase(ph), program = "simulator"
    PROVE  IInv'
<1>. USE DEF IInv
<1>1. /\ ~inLoop /\ curphase < MaxPhases
      /\ accesses' = ph /\ i_socket' = 0
      /\ UNCHANGED <<persistent, inLoop, sorted_candidates, it_migration, eviction_it,
                     i, i_cxi, eviction_candidate_was_hot, migrated_pages,
                     migrated_pages_CI, pages_to_CI, warned, entered, program, aborted, stats>>
  BY DEF SimulatePhase
<1>2. TypeOK'
  BY <1>1 DEF TypeOK, persistent
<1>3. Between'
  BY <1>1 DEF Control, Between, Sockets, persistent
<1>4. Control'
  BY <1>1, <1>3, PoolAssumption DEF Control, EvictionFindsCandidate, persistent
<1>. QED
  BY <1>2, <1>4

LEMMA AccountSocketIInv ==
    ASSUME IInv, AccountSocket, program = "simulator"
    PROVE  IInv'
<1>. USE DEF IInv
<1>1. /\ i_socket < N_SOCKETS /\ i_socket' = i_socket + 1
      /\ UNCHANGED <<pages_in_pool, migration_per_page, migration_per_page_CI, curphase,
                     dumped, inLoop, accesses, sorted_candidates, it_migration,
                     eviction_it, i, i_cxi, eviction_candidate_was_hot, migrated_pages,
                     migrated_pages_CI, pages_to_CI, warned, entered, program>>
  BY DEF AccountSocket
<1>2. i_socket \in 0 .. N_SOCKETS /\ N_SOCKETS \in Nat
  BY PoolAssumption DEF Control
<1>3. ~inLoop
  BY <1>1, <1>2 DEF Control
<1>4. /\ Grows
      /\ \A p \in Pages : i_socket \in SharersOf(accesses, p) => p \in DOMAIN page_owner_CI'
  BY AccountSocketGrows
<1>5. MapsOK' /\ [owner |-> page_owner, owner_CI |-> page_owner_CI]' \in Owners
  BY <1>4, TypeOKGivesMaps DEF Grows
<1>6. TypeOK'
  BY <1>1, <1>5 DEF TypeOK, MapsOK
<1>7. Between'
  <2>1. ASSUME NEW s \in Sockets, NEW p \in Pages, accesses # NoAccesses,
               s < i_socket + 1, s \in SharersOf(accesses, p)
        PROVE  p \in DOMAIN page_owner_CI'
    <3>1. CASE s = i_socket
      BY <1>4, <2>1, <3>1
    <3>2. CASE s < i_socket
      <4>1. p \in DOMAIN page_owner_CI
        BY <1>3, <2>1, <3>2 DEF Control, Between
      <4>. QED
        BY <1>4, <4>1, TypeOKGivesMaps DEF Grows, MapsOK
    <3>. QED
      BY <1>2, <2>1, <3>1, <3>2 DEF Sockets
  <2>2. SharersOf(accesses, 0)' = SharersOf(accesses, 0)
    BY <1>1 DEF SharersOf, AccsOf
  <2>3. pages_to_CI = 0 /\ sorted_candidates = <<>>
    BY <1>3 DEF Control, Between
  <2>. QED
    BY <1>1, <2>1, <2>3 DEF Between
<1>8. Control'
  BY <1>1, <1>2, <1>3, <1>7 DEF Control, EvictionFindsCandidate
<1>. QED
  BY <1>6, <1>8

LEMMA SaveMapsIInv ==
    ASSUME IInv, SaveMaps, program = "simulator"
    PROVE  IInv'
<1>. USE DEF IInv
<1>1. /\ i_socket = N_SOCKETS /\ ~inLoop /\ accesses # NoAccesses
      /\ dumped' = [owner |-> page_owner, owner_CI |-> page_owner_CI]
      /\ EnterLoop(accesses)
      /\ UNCHANGED <<page_owner, page_owner_CI, pages_in_pool, migration_per_page,
                     migration_per_page_CI, curphase, warned, program, i_socket,
                     accesses>>
  BY DEF SaveMaps
<1>2. accesses \in Phases
  BY <1>1 DEF TypeOK
<1>3. Touched(accesses) \subseteq DOMAIN page_owner_CI
  <2>. SUFFICES ASSUME NEW p \in Pages, NEW s \in Sockets, s \in SharersOf(accesses, p)
                PROVE  p \in DOMAIN page_owner_CI
    BY DEF Touched, SharersOf
  <2>. QED
    BY <1>1, PoolAssumption DEF Control, Between, Sockets
<1>4. /\ Candidates' /\ Reach'
      /\ sorted_candidates' \in Seq(Pages)
      /\ it_migration' \in 1 .. Len(sorted_candidates') + 1
      /\ eviction_it' \in 0 .. Len(sorted_candidates')
      /\ {i, i_cxi, migrated_pages, migrated_pages_CI, pages_to_CI}' \subseteq Nat
      /\ eviction_candidate_was_hot' \in BOOLEAN
      /\ inLoop' \in BOOLEAN /\ inLoop'
      /\ entered' = {}
  BY <1>1, <1>2, <1>3, EnterLoopCandidates
<1>5. [owner |-> page_owner, owner_CI |-> page_owner_CI] \in Owners
  BY DEF TypeOK
<1>6. TypeOK'
  BY <1>1, <1>4, <1>5 DEF TypeOK
<1>7. Control'
  BY <1>1, <1>4 DEF Control, EvictionFindsCandidate
<1>. QED
  BY <1>6, <1>7

LEMMA LeaveLoopIInv ==
    ASSUME IInv, LeaveLoop, UNCHANGED <<program, i_socket>>,
           \/ program = "generator"
                /\ dumped' = [owner |-> page_owner, owner_CI |-> page_owner_CI]
           \/ program = "simulator" /\ UNCHANGED dumped
    PROVE  IInv'
<1>. USE DEF IInv
<1>1. /\ inLoop /\ inLoop' = FALSE
      /\ curphase' = curphase + 1
      /\ PhaseLocals
      /\ UNCHANGED <<page_owner, page_owner_CI, pages_in_pool, migration_per_page,
                     migration_per_page_CI, warned>>
  BY DEF LeaveLoop
<1>2. curphase \in 0 .. MaxPhases /\ curphase < MaxPhases /\ MaxPhases \in Nat
  BY <1>1, PoolAssumption DEF Control, TypeOK
<1>3. dumped' \in Owners
  BY DEF TypeOK
<1>4. <<>> \in Seq(Pages) /\ Len(<<>>) = 0
  BY EmptySeq
<1>6. NoAccesses' = NoAccesses
  BY DEF NoAccesses
<1>5. TypeOK'
  <2>1. /\ accesses' = NoAccesses
        /\ sorted_candidates' = <<>>
        /\ it_migration' = 1 /\ eviction_it' = 0
        /\ eviction_candidate_was_hot' = FALSE /\ entered' = {}
    BY <1>1 DEF PhaseLocals
  <2>4. /\ sorted_candidates' \in Seq(Pages)
        /\ it_migration' \in 1 .. Len(sorted_candidates') + 1
        /\ eviction_it' \in 0 .. Len(sorted_candidates')
    BY <1>4, <2>1
  <2>2. {i', i_cxi', migrated_pages', migrated_pages_CI', pages_to_CI'} \subseteq Nat
    BY <1>1 DEF PhaseLocals
  <2>3. curphase' \in 0 .. MaxPhases
    BY <1>1, <1>2
  <2>. QED
    BY <1>1, <1>3, <1>6, <2>1, <2>2, <2>3, <2>4 DEF TypeOK
<1>7. Between'
  BY <1>1, <1>6 DEF Between, PhaseLocals, Control
<1>8. Control'
  BY <1>1, <1>6, <1>7 DEF Control, EvictionFindsCandidate, PhaseLocals
<1>. QED
  BY <1>5, <1>8

-----------------------------------------------------------------------------
(* One iteration of the loop.                                              *)

\* The page p enters the pool and the k-th candidate, which may be p, leaves it
Swaps(p, k, o) ==
    /\ EntersPool(p)
    /\ k \in 1 .. eviction_it
    /\ sorted_candidates[k] = p \/ page_owner_CI[sorted_candidates[k]] = CXO
    /\ page_owner_CI' = [q \in DOMAIN page_owner_CI |->
                            IF q = sorted_candidates[k] THEN o
                            ELSE IF q = p THEN CXO ELSE page_owner_CI[q]]
    /\ UNCHANGED <<pages_in_pool, warned>>
    /\ eviction_it' = k
    /\ i_cxi' = i_cxi + 2
    /\ eviction_candidate_was_hot' \in BOOLEAN
    /\ ~eviction_candidate_was_hot' => it_migration < k

IslandStep(p) ==
    \/ UNCHANGED island
    \/ \E o \in Sockets : MoveCI(p, o)
    \/ EnterPool(p)
    \/ \E k \in Nat, o \in Sockets : Swaps(p, k, o)

BaselineStep(p) == \E o \in Sockets : MigrateBaseline(p, o)

\* What an iteration that looks at p does
Iteration(p) ==
    /\ inLoop
    /\ p = sorted_candidates[it_migration]
    /\ p \in Pages /\ p \in DOMAIN page_owner_CI
    /\ it_migration \in 1 .. Len(sorted_candidates)
    /\ it_migration' = it_migration + 1
    /\ BaselineStep(p)
    /\ IslandStep(p)
    /\ UNCHANGED <<curphase, dumped, inLoop, accesses, sorted_candidates>>

\* What the invariant says of the list of candidates and of the page looked at.
LEMMA LoopFacts ==
    ASSUME IInv, inLoop
    PROVE  /\ MapsOK /\ accesses \in Phases
           /\ sorted_candidates \in Seq(Pages)
           /\ Len(sorted_candidates) \in Nat
           /\ it_migration \in 1 .. Len(sorted_candidates) + 1
           /\ eviction_it \in 0 .. Len(sorted_candidates)
           /\ \A k \in 1 .. Len(sorted_candidates) :
                 /\ sorted_candidates[k] \in DOMAIN page_owner_CI
                 /\ sorted_candidates[k] \in Pages
                 /\ sorted_candidates[k] \in Touched(accesses)
           /\ \A k, m \in 1 .. Len(sorted_candidates) :
                 k # m => sorted_candidates[k] # sorted_candidates[m]
           /\ \A k, m \in 1 .. Len(sorted_candidates) : k <= m =>
                 Heat(accesses, sorted_candidates[k]) >= Heat(accesses, sorted_candidates[m])
<1>1. MapsOK /\ Candidates
  BY TypeOKGivesMaps DEF IInv, Control
<1>2. accesses \in Phases /\ sorted_candidates \in SortedCandidates(accesses)
  BY <1>1 DEF Candidates
<1>3. /\ sorted_candidates \in Seq(Pages)
      /\ \A k \in 1 .. Len(sorted_candidates) : sorted_candidates[k] \in Touched(accesses)
      /\ \A k, m \in 1 .. Len(sorted_candidates) :
            k # m => sorted_candidates[k] # sorted_candidates[m]
      /\ \A k, m \in 1 .. Len(sorted_candidates) : k <= m =>
            Heat(accesses, sorted_candidates[k]) >= Heat(accesses, sorted_candidates[m])
  BY <1>2, CandidatesList
<1>4. Len(sorted_candidates) \in Nat
  BY <1>3, LenProperties
<1>5. \A k \in 1 .. Len(sorted_candidates) : sorted_candidates[k] \in DOMAIN page_owner_CI
  BY <1>1 DEF Candidates
<1>6. DOMAIN page_owner_CI \subseteq Pages
  BY <1>1 DEF MapsOK, OwnerMap
<1>7. it_migration \in 1 .. Len(sorted_candidates) + 1
      /\ eviction_it \in 0 .. Len(sorted_candidates)
  BY DEF IInv, TypeOK
<1>. QED
  BY <1>1, <1>2, <1>3, <1>4, <1>5, <1>6, <1>7

\* A full pool always finds a page to evict, and if it is one of those the loop has
\* reached, it is at least as hot as the page that enters.
LEMMA EnterFullPoolSwaps ==
    ASSUME IInv, inLoop, it_migration \in 1 .. Len(sorted_candidates),
           NEW p, p = sorted_candidates[it_migration], EnterFullPool(p)
    PROVE  \E k \in Nat, o \in Sockets : Swaps(p, k, o)
<1>. DEFINE sc == sorted_candidates
            here == it_migration
<1>1. PICK owners : owners = [page_owner_CI EXCEPT ![p] = CXO]
  OBVIOUS
<1>2. PICK found : found = FoundAt(owners)
  OBVIOUS
<1>3. PICK victim : victim = IF found = 0 THEN 0 ELSE sc[found]
  OBVIOUS
<1>4. PICK hot \in BOOLEAN, o \in EvictedOwners(victim) :
        /\ EntersPool(p)
        /\ pages_in_pool' = pages_in_pool
        /\ eviction_it' = found
        /\ warned' = (warned \/ found = 0)
        /\ i_cxi' = IF found = 0 THEN MIGRATION_LIMIT + 2 ELSE i_cxi + 2
        /\ found # 0 => hot = (Heat(accesses, victim) >= Heat(accesses, p))
        /\ eviction_candidate_was_hot' = (eviction_candidate_was_hot \/ hot)
        /\ page_owner_CI' = [q \in DOMAIN owners \cup {victim} |->
                                IF q = victim THEN o ELSE owners[q]]
  BY <1>1, <1>2, <1>3 DEF EnterFullPool
<1>5. /\ Len(sc) \in Nat /\ here \in 1 .. Len(sc) /\ eviction_it \in 0 .. Len(sc)
      /\ \A k \in 1 .. Len(sc) : sc[k] \in DOMAIN page_owner_CI
      /\ \A k, m \in 1 .. Len(sc) : k # m => sc[k] # sc[m]
      /\ \A k, m \in 1 .. Len(sc) : k <= m => Heat(accesses, sc[k]) >= Heat(accesses, sc[m])
  BY LoopFacts
<1>6. p \in DOMAIN page_owner_CI
  BY <1>5
<1>7. /\ DOMAIN owners = DOMAIN page_owner_CI
      /\ owners[p] = CXO
      /\ \A q \in DOMAIN page_owner_CI : q # p => owners[q] = page_owner_CI[q]
  BY <1>1, <1>6
<1>8. ~eviction_candidate_was_hot
  BY <1>4 DEF EntersPool, ForPool
<1>9. \E w \in 1 .. eviction_it : owners[sc[w]] = CXO
  <2>1. CASE eviction_it = Len(sc)
    BY <1>5, <1>7, <2>1
  <2>2. CASE \E k \in 1 .. here - 1 : k <= eviction_it /\ page_owner_CI[sc[k]] = CXO
    <3>1. PICK k \in 1 .. here - 1 : k <= eviction_it /\ page_owner_CI[sc[k]] = CXO
      BY <2>2
    <3>2. k \in 1 .. eviction_it /\ k \in 1 .. Len(sc)
      BY <1>5, <3>1
    <3>3. owners[sc[k]] = CXO
      BY <1>5, <1>7, <3>1, <3>2
    <3>. QED
      BY <3>2, <3>3
  <2>. QED
    BY <1>8, <2>1, <2>2 DEF IInv, Control, Reach
<1>10. PICK w \in 1 .. eviction_it : owners[sc[w]] = CXO
  BY <1>9
<1>11. /\ found \in 1 .. eviction_it
       /\ owners[sc[found]] = CXO
  <2>1. eviction_it \in Nat
    BY <1>5
  <2>. QED
    BY <1>2, <1>10, <2>1, FoundInPool
<1>12. found # 0 /\ found \in 1 .. Len(sc) /\ victim = sc[found]
  BY <1>3, <1>5, <1>11
<1>13. victim = p \/ page_owner_CI[victim] = CXO
  BY <1>5, <1>7, <1>11, <1>12
<1>14. page_owner_CI' = [q \in DOMAIN page_owner_CI |->
                            IF q = sc[found] THEN o
                            ELSE IF q = p THEN CXO ELSE page_owner_CI[q]]
  <2>1. DOMAIN owners \cup {victim} = DOMAIN page_owner_CI
    BY <1>5, <1>7, <1>12
  <2>. QED
    BY <1>4, <1>7, <1>12, <2>1
<1>15. ~eviction_candidate_was_hot' => here < found
  <2>. SUFFICES ASSUME found <= here PROVE eviction_candidate_was_hot'
    BY <1>5, <1>12
  <2>1. Heat(accesses, victim) >= Heat(accesses, p)
    BY <1>5, <1>12
  <2>2. hot = TRUE
    BY <1>4, <1>12, <2>1
  <2>. QED
    BY <1>4, <2>2
<1>16. eviction_candidate_was_hot' \in BOOLEAN
  BY <1>4, <1>8
<1>17. Swaps(p, found, o)
  <2>1. warned = FALSE
    BY DEF IInv, TypeOK, Control, EvictionFindsCandidate
  <2>2. UNCHANGED <<pages_in_pool, warned>>
    BY <1>4, <1>12, <2>1
  <2>3. i_cxi' = i_cxi + 2
    BY <1>4, <1>12
  <2>4. sc[found] = p \/ page_owner_CI[sc[found]] = CXO
    BY <1>12, <1>13
  <2>. QED
    BY <1>4, <1>11, <1>14, <1>15, <1>16, <2>2, <2>3, <2>4 DEF Swaps
<1>18. o \in Sockets /\ found \in Nat
  BY <1>5, <1>11, NewOwnersAreSockets
<1>. QED
  BY <1>17, <1>18

LEMMA ReassignIterates ==
    ASSUME IInv, Reassign
    PROVE  Iteration(sorted_candidates[it_migration])
<1>1. PICK p : p = sorted_candidates[it_migration]
  OBVIOUS
<1>2. /\ Continues
      /\ it_migration' = it_migration + 1
      /\ UNCHANGED <<curphase, dumped, inLoop, accesses, sorted_candidates>>
  BY DEF Reassign
<1>3. PICK o \in NewOwners(p) :
        /\ MigrateBaseline(p, o)
        /\ KeepCI(p, o) \/ MoveCI(p, o) \/ EnterPool(p) \/ EnterFullPool(p)
  BY <1>1 DEF Reassign
<1>5. inLoop /\ it_migration \in 1 .. Len(sorted_candidates)
  BY <1>2, LoopFacts DEF Continues
<1>4. o \in Sockets
  <2>1. accesses \in Phases /\ p \in Touched(accesses)
    BY <1>1, <1>5, LoopFacts
  <2>. QED
    BY <1>3, <2>1, NewOwnersAreSockets
<1>6. p \in Pages /\ p \in DOMAIN page_owner_CI
  BY <1>1, <1>5, LoopFacts
<1>7. IslandStep(p)
  <2>1. CASE KeepCI(p, o)
    BY <2>1 DEF KeepCI, IslandStep
  <2>2. CASE MoveCI(p, o)
    BY <1>4, <2>2 DEF IslandStep
  <2>3. CASE EnterPool(p)
    BY <2>3 DEF IslandStep
  <2>4. CASE EnterFullPool(p)
    BY <1>1, <1>5, <2>4, EnterFullPoolSwaps DEF IslandStep
  <2>. QED
    BY <1>3, <2>1, <2>2, <2>3, <2>4
<1>8. BaselineStep(p)
  BY <1>3, <1>4 DEF BaselineStep
<1>. QED
  BY <1>1, <1>2, <1>5, <1>6, <1>7, <1>8 DEF Iteration

\* A page that moves leaves a map of owners, and its migrations a map of counts.
LEMMA MovedOwnerMap ==
    ASSUME NEW f, NEW S, OwnerMap(f, S), NEW q \in DOMAIN f, NEW o \in S
    PROVE  OwnerMap([f EXCEPT ![q] = o], S) /\ DOMAIN [f EXCEPT ![q] = o] = DOMAIN f
<1>1. PICK g : g = [f EXCEPT ![q] = o]
  OBVIOUS
<1>2. /\ DOMAIN g = DOMAIN f
      /\ g = [p \in DOMAIN g |-> g[p]]
      /\ \A p \in DOMAIN g : g[p] = IF p = q THEN o ELSE f[p]
  BY <1>1
<1>. QED
  BY <1>1, <1>2 DEF OwnerMap

LEMMA CountedMigration ==
    ASSUME NEW f \in [Pages -> Nat], NEW q \in Pages
    PROVE  [f EXCEPT ![q] = @ + 1] \in [Pages -> Nat]
OBVIOUS

LEMMA IterationTypeOK ==
    ASSUME IInv, NEW p, Iteration(p)
    PROVE  TypeOK'
<1>. USE DEF IInv
<1>1. /\ inLoop /\ it_migration' = it_migration + 1
      /\ p \in Pages /\ p \in DOMAIN page_owner_CI
      /\ it_migration \in 1 .. Len(sorted_candidates)
      /\ BaselineStep(p) /\ IslandStep(p)
      /\ UNCHANGED <<curphase, dumped, inLoop, accesses, sorted_candidates>>
  BY DEF Iteration
<1>2. /\ MapsOK /\ Len(sorted_candidates) \in Nat
      /\ eviction_it \in 0 .. Len(sorted_candidates)
  BY <1>1, LoopFacts
<1>3. /\ OwnerMap(page_owner', Sockets) /\ DOMAIN page_owner' = DOMAIN page_owner
      /\ migration_per_page' \in [Pages -> Nat]
      /\ i' \in Nat /\ migrated_pages' \in Nat
  <2>. PICK o \in Sockets : MigrateBaseline(p, o)
    BY <1>1 DEF BaselineStep
  <2>1. /\ OwnerMap(page_owner, Sockets) /\ migration_per_page \in [Pages -> Nat]
        /\ i \in Nat /\ migrated_pages \in Nat
    BY <1>2 DEF MapsOK, TypeOK
  <2>2. CASE UNCHANGED baseline
    BY <2>1, <2>2 DEF baseline
  <2>3. CASE /\ i' = i + 1
             /\ migrated_pages' = migrated_pages + 1
             /\ page_owner' = [page_owner EXCEPT ![p] = o]
             /\ migration_per_page' = [migration_per_page EXCEPT ![p] = @ + 1]
    <3>1. p \in DOMAIN page_owner
      BY <1>1, <1>2 DEF MapsOK
    <3>2. OwnerMap(page_owner', Sockets) /\ DOMAIN page_owner' = DOMAIN page_owner
      BY <2>1, <2>3, <3>1, MovedOwnerMap
    <3>3. migration_per_page' \in [Pages -> Nat]
      BY <1>1, <2>1, <2>3, CountedMigration
    <3>. QED
      BY <2>1, <2>3, <3>2, <3>3
  <2>. QED
    BY <2>2, <2>3 DEF MigrateBaseline
<1>4. /\ OwnerMap(page_owner_CI', Sockets \cup {CXO})
      /\ DOMAIN page_owner_CI' = DOMAIN page_owner_CI
      /\ migration_per_page_CI' \in [Pages -> Nat]
      /\ pages_in_pool' \in Nat /\ i_cxi' \in Nat
      /\ migrated_pages_CI' \in Nat /\ pages_to_CI' \in Nat
      /\ eviction_it' \in 0 .. Len(sorted_candidates)
      /\ eviction_candidate_was_hot' \in BOOLEAN
      /\ warned' \in BOOLEAN
      /\ entered' \subseteq Pages
  <2>1. /\ OwnerMap(page_owner_CI, Sockets \cup {CXO})
        /\ migration_per_page_CI \in [Pages -> Nat]
        /\ pages_in_pool \in Nat /\ i_cxi \in Nat
        /\ migrated_pages_CI \in Nat /\ pages_to_CI \in Nat
        /\ eviction_candidate_was_hot \in BOOLEAN /\ warned \in BOOLEAN
        /\ entered \subseteq Pages
    BY <1>2 DEF MapsOK, TypeOK
  <2>2. CASE UNCHANGED island
    BY <1>2, <2>1, <2>2 DEF island
  <2>3. CASE \E o \in Sockets : MoveCI(p, o)
    <3>. PICK o \in Sockets : MoveCI(p, o)
      BY <2>3
    <3>1. /\ page_owner_CI' = [page_owner_CI EXCEPT ![p] = o]
          /\ migration_per_page_CI' = [migration_per_page_CI EXCEPT ![p] = @ + 1]
          /\ i_cxi' = i_cxi + 1 /\ migrated_pages_CI' = migrated_pages_CI + 1
          /\ UNCHANGED <<pages_in_pool, eviction_it, eviction_candidate_was_hot,
                         pages_to_CI, warned, entered>>
      BY DEF MoveCI
    <3>2. PICK S : S = Sockets \cup {CXO}
      OBVIOUS
    <3>3. OwnerMap(page_owner_CI', S) /\ DOMAIN page_owner_CI' = DOMAIN page_owner_CI
      BY <1>1, <2>1, <3>1, <3>2, MovedOwnerMap
    <3>4. migration_per_page_CI' \in [Pages -> Nat]
      BY <1>1, <2>1, <3>1, CountedMigration
    <3>. QED
      BY <1>2, <2>1, <3>1, <3>2, <3>3, <3>4
  <2>4. CASE EnterPool(p)
    <3>1. /\ page_owner_CI' = [page_owner_CI EXCEPT ![p] = CXO]
          /\ migration_per_page_CI' = [migration_per_page_CI EXCEPT ![p] = @ + 1]
          /\ i_cxi' = i_cxi + 1 /\ pages_to_CI' = pages_to_CI + 1
          /\ pages_in_pool' = pages_in_pool + 1
          /\ UNCHANGED <<migrated_pages_CI, eviction_it, eviction_candidate_was_hot, warned>>
          /\ entered' = entered \cup {p}
      BY <2>4 DEF EnterPool, EntersPool
    <3>2. PICK S : S = Sockets \cup {CXO}
      OBVIOUS
    <3>3. OwnerMap(page_owner_CI', S) /\ DOMAIN page_owner_CI' = DOMAIN page_owner_CI
      BY <1>1, <2>1, <3>1, <3>2, MovedOwnerMap
    <3>4. migration_per_page_CI' \in [Pages -> Nat]
      BY <1>1, <2>1, <3>1, CountedMigration
    <3>. QED
      BY <1>2, <2>1, <3>1, <3>2, <3>3, <3>4
  <2>5. CASE \E k \in Nat, o \in Sockets : Swaps(p, k, o)
    <3>. PICK k \in Nat, o \in Sockets : Swaps(p, k, o)
      BY <2>5
    <3>1. OwnerMap(page_owner_CI', Sockets \cup {CXO})
          /\ DOMAIN page_owner_CI' = DOMAIN page_owner_CI
      BY <2>1 DEF Swaps, OwnerMap
    <3>2. /\ migration_per_page_CI' = [migration_per_page_CI EXCEPT ![p] = @ + 1]
          /\ i_cxi' = i_cxi + 2 /\ pages_to_CI' = pages_to_CI + 1
          /\ eviction_it' = k /\ k \in 1 .. eviction_it
          /\ eviction_candidate_was_hot' \in BOOLEAN
          /\ UNCHANGED <<migrated_pages_CI, pages_in_pool, warned>>
          /\ entered' = entered \cup {p}
      BY DEF Swaps, EntersPool
    <3>3. migration_per_page_CI' \in [Pages -> Nat]
      BY <1>1, <2>1, <3>2, CountedMigration
    <3>. QED
      BY <1>2, <2>1, <3>1, <3>2, <3>3
  <2>. QED
    BY <1>1, <2>2, <2>3, <2>4, <2>5 DEF IslandStep
<1>5. MapsOK' /\ [owner |-> page_owner, owner_CI |-> page_owner_CI]' \in Owners
  BY <1>2, <1>3, <1>4, TypeOKGivesMaps DEF MapsOK
<1>6. /\ it_migration' \in 1 .. Len(sorted_candidates') + 1
      /\ eviction_it' \in 0 .. Len(sorted_candidates')
      /\ sorted_candidates' \in Seq(Pages)
  BY <1>1, <1>2, <1>4 DEF TypeOK
<1>. QED
  BY <1>1, <1>3, <1>4, <1>5, <1>6 DEF TypeOK, MapsOK

LEMMA IterationReach ==
    ASSUME IInv, NEW p, Iteration(p)
    PROVE  Reach'
<1>1. /\ inLoop /\ it_migration' = it_migration + 1
      /\ p = sorted_candidates[it_migration]
      /\ p \in DOMAIN page_owner_CI
      /\ it_migration \in 1 .. Len(sorted_candidates)
      /\ IslandStep(p)
      /\ sorted_candidates' = sorted_candidates
  BY DEF Iteration
<1>2. /\ MapsOK /\ Len(sorted_candidates) \in Nat
      /\ eviction_it \in 0 .. Len(sorted_candidates)
      /\ \A k \in 1 .. Len(sorted_candidates) : sorted_candidates[k] \in DOMAIN page_owner_CI
      /\ \A k, m \in 1 .. Len(sorted_candidates) :
            k # m => sorted_candidates[k] # sorted_candidates[m]
  BY <1>1, LoopFacts
<1>3. Reach
  BY <1>1 DEF IInv, Control
<1>4. ASSUME eviction_it' = eviction_it,
             eviction_candidate_was_hot' = eviction_candidate_was_hot,
             \A k \in 1 .. it_migration - 1 :
                page_owner_CI'[sorted_candidates[k]] = page_owner_CI[sorted_candidates[k]]
      PROVE  Reach'
  <2>1. CASE eviction_candidate_was_hot \/ eviction_it = Len(sorted_candidates)
    BY <1>1, <1>4, <2>1 DEF Reach
  <2>2. CASE \E k \in 1 .. it_migration - 1 :
                k <= eviction_it /\ page_owner_CI[sorted_candidates[k]] = CXO
    <3>. PICK k \in 1 .. it_migration - 1 :
                k <= eviction_it /\ page_owner_CI[sorted_candidates[k]] = CXO
      BY <2>2
    <3>1. k \in 1 .. it_migration' - 1
      BY <1>1, <1>2
    <3>2. k <= eviction_it' /\ page_owner_CI'[sorted_candidates'[k]] = CXO
      BY <1>1, <1>4
    <3>. QED
      BY <3>1, <3>2 DEF Reach
  <2>. QED
    BY <1>3, <2>1, <2>2 DEF Reach
<1>5. \A k \in 1 .. it_migration - 1 :
         sorted_candidates[k] # p /\ sorted_candidates[k] \in DOMAIN page_owner_CI
  BY <1>1, <1>2
<1>6. CASE UNCHANGED island
  BY <1>4, <1>6 DEF island
<1>7. CASE \E o \in Sockets : MoveCI(p, o)
  BY <1>4, <1>5, <1>7 DEF MoveCI
<1>8. CASE EnterPool(p)
  BY <1>4, <1>5, <1>8 DEF EnterPool
<1>9. CASE \E k \in Nat, o \in Sockets : Swaps(p, k, o)
  <2>. PICK k \in Nat, o \in Sockets : Swaps(p, k, o)
    BY <1>9
  <2>1. CASE eviction_candidate_was_hot'
    BY <2>1 DEF Reach
  <2>2. CASE ~eviction_candidate_was_hot'
    <3>1. /\ it_migration < k /\ k \in 1 .. eviction_it /\ eviction_it' = k
          /\ page_owner_CI' = [q \in DOMAIN page_owner_CI |->
                                IF q = sorted_candidates[k] THEN o
                                ELSE IF q = p THEN CXO ELSE page_owner_CI[q]]
      BY <2>2 DEF Swaps
    <3>2. k \in 1 .. Len(sorted_candidates) /\ sorted_candidates[k] # p
      BY <1>1, <1>2, <3>1
    <3>3. page_owner_CI'[p] = CXO
      BY <1>1, <3>1, <3>2
    <3>4. it_migration \in 1 .. it_migration' - 1 /\ it_migration <= eviction_it'
      BY <1>1, <1>2, <3>1
    <3>. QED
      BY <1>1, <3>3, <3>4 DEF Reach
  <2>. QED
    BY <2>1, <2>2
<1>. QED
  BY <1>1, <1>6, <1>7, <1>8, <1>9 DEF IslandStep

LEMMA ReassignIInv ==
    ASSUME IInv, Reassign, UNCHANGED <<program, i_socket, aborted, stats>>
    PROVE  IInv'
<1>1. PICK p : Iteration(p)
  BY ReassignIterates
<1>2. TypeOK'
  BY <1>1, IterationTypeOK
<1>3. Reach'
  BY <1>1, IterationReach
<1>4. /\ inLoop /\ inLoop' = inLoop
      /\ UNCHANGED <<curphase, accesses, sorted_candidates>>
  BY <1>1 DEF Iteration
<1>5. DOMAIN page_owner_CI' = DOMAIN page_owner_CI /\ warned' = warned
  BY <1>1 DEF Iteration, IslandStep, island, MoveCI, EnterPool, Swaps
<1>6. Candidates'
  <2>1. Candidates
    BY <1>4 DEF IInv, Control
  <2>. QED
    BY <1>4, <1>5, <2>1 DEF Candidates
<1>7. Control'
  BY <1>3, <1>4, <1>5, <1>6 DEF IInv, Control, EvictionFindsCandidate
<1>. QED
  BY <1>2, <1>7 DEF IInv

LEMMA StepIInv ==
    ASSUME IInv, Generate \/ Simulate
    PROVE  IInv'
<1>1. CASE Generate
  <2>1. program = "generator" /\ Next /\ UNCHANGED <<program, i_socket, aborted, stats>>
    BY <1>1 DEF Generate
  <2>2. CASE \E ph \in Phases : StartPhase(ph)
    BY <2>1, <2>2, StartPhaseIInv
  <2>3. CASE Reassign
    BY <2>1, <2>3, ReassignIInv
  <2>4. CASE EndPhase
    BY <2>1, <2>4, LeaveLoopIInv DEF EndPhase
  <2>. QED
    BY <2>1, <2>2, <2>3, <2>4 DEF Next
<1>2. CASE Simulate
  <2>1. program = "simulator"
    BY <1>2 DEF Simulate
  <2>2. CASE \E ph \in Phases : SimulatePhase(ph)
    BY <2>1, <2>2, SimulatePhaseIInv
  <2>3. CASE AccountSocket
    BY <2>1, <2>3, AccountSocketIInv
  <2>4. CASE SaveMaps
    BY <2>1, <2>4, SaveMapsIInv
  <2>5. CASE Reassign /\ UNCHANGED <<program, i_socket, aborted, stats>>
    BY <2>5, ReassignIInv
  <2>6. CASE EndSimulation
    BY <2>1, <2>6, LeaveLoopIInv DEF EndSimulation
  <2>. QED
    BY <1>2, <2>2, <2>3, <2>4, <2>5, <2>6 DEF Simulate
<1>. QED
  BY <1>1, <1>2

LEMMA StutterIInv ==
    ASSUME IInv, UNCHANGED simVars
    PROVE  IInv'
<1>. USE DEF simVars, vars, persistent, baseline, island
<1>1. TypeOK'
  BY DEF IInv, TypeOK
<1>2. Candidates' = Candidates /\ Reach' = Reach /\ Between' = Between
  BY DEF Candidates, Reach, Between, SharersOf, AccsOf
<1>3. Control'
  BY <1>2 DEF IInv, Control, EvictionFindsCandidate
<1>. QED
  BY <1>1, <1>3 DEF IInv

\* The maps of both programs give every page a socket or, in the island, the pool,
\* for the same pages in both maps, and never INVAL_OWNER, from which new_owner
\* starts: a candidate was read by some socket, so that one has most accesses.  The
\* invariant needs Control: what a phase reassigns are pages that the loop before it
\* gave an owner.
THEOREM TypeCorrect ==
    ProgramSpec => []TypeOK
<1>1. IInv => TypeOK
  BY DEF IInv
<1>. QED
  BY InitIInv, StepIInv, StutterIInv, <1>1, PTL DEF ProgramSpec

\* The eviction iterator never passes the last page of the pool: the warning of a
\* missing candidate, and the read through rend() behind it, are unreachable for
\* any accesses, thresholds and capacity (page_map_generator.cpp:536).
THEOREM EvictionAlwaysFinds ==
    ProgramSpec => []EvictionFindsCandidate
<1>1. IInv => EvictionFindsCandidate
  BY DEF IInv, Control
<1>. QED
  BY InitIInv, StepIInv, StutterIInv, <1>1, PTL DEF ProgramSpec

-----------------------------------------------------------------------------
(* The kinds of steps, by what they do to the maps and the counters.       *)

NoCounts ==
    /\ i' = 0 /\ i_cxi' = 0 /\ it_migration' = 1
    /\ migrated_pages' = 0 /\ migrated_pages_CI' = 0 /\ pages_to_CI' = 0
    /\ entered' = {}

\* Into the loop: the maps saved are those before the step
Enters ==
    /\ inLoop' /\ Grows /\ NoCounts
    /\ eviction_candidate_was_hot' = FALSE
    /\ dumped' = [owner |-> page_owner, owner_CI |-> page_owner_CI]
    /\ UNCHANGED <<pages_in_pool, migration_per_page, migration_per_page_CI, curphase>>

\* The simulator reads or accounts
Waits ==
    /\ ~inLoop /\ ~inLoop' /\ Grows
    /\ UNCHANGED <<pages_in_pool, migration_per_page, migration_per_page_CI, curphase,
                   dumped, pages_to_CI>>

\* Out of the loop
Leaves ==
    /\ inLoop /\ ~inLoop' /\ NoCounts
    /\ curphase' = curphase + 1
    /\ UNCHANGED <<page_owner, page_owner_CI, pages_in_pool, migration_per_page,
                   migration_per_page_CI>>
    /\ \/ dumped' = [owner |-> page_owner, owner_CI |-> page_owner_CI]
       \/ UNCHANGED dumped

LEMMA SameMapsGrow ==
    ASSUME IInv, UNCHANGED <<page_owner, page_owner_CI>>
    PROVE  Grows
<1>1. MapsOK
  BY TypeOKGivesMaps DEF IInv
<1>2. MapsOK'
  BY <1>1 DEF MapsOK, OwnerMap
<1>. QED
  BY <1>2 DEF Grows

LEMMA StepKinds ==
    ASSUME IInv, Generate \/ Simulate
    PROVE  Enters \/ Waits \/ Leaves \/ \E p : Iteration(p)
<1>1. ASSUME NEW ph \in Phases, StartPhase(ph), program = "generator"
      PROVE  Enters
  <2>1. ~inLoop /\ EnterLoop(ph)
        /\ UNCHANGED <<pages_in_pool, migration_per_page, migration_per_page_CI,
                       curphase, dumped>>
    BY <1>1 DEF StartPhase
  <2>2. dumped = [owner |-> page_owner, owner_CI |-> page_owner_CI]
    BY <1>1, <2>1 DEF IInv, Control, Between
  <2>3. Grows
    BY <1>1, StartPhaseGrows
  <2>. QED
    BY <2>1, <2>2, <2>3 DEF Enters, EnterLoop, NoCounts
<1>2. ASSUME Reassign
      PROVE  \E p : Iteration(p)
  BY <1>2, ReassignIterates
<1>3. ASSUME LeaveLoop, \/ dumped' = [owner |-> page_owner, owner_CI |-> page_owner_CI]
                        \/ UNCHANGED dumped
      PROVE  Leaves
  BY <1>3 DEF LeaveLoop, PhaseLocals, Leaves, NoCounts
<1>4. ASSUME NEW ph \in Phases, SimulatePhase(ph)
      PROVE  Waits
  <2>1. /\ ~inLoop
        /\ UNCHANGED <<persistent, inLoop, pages_to_CI>>
    BY <1>4 DEF SimulatePhase
  <2>. QED
    BY <2>1, SameMapsGrow DEF Waits, persistent
<1>5. ASSUME AccountSocket
      PROVE  Waits
  <2>1. /\ i_socket < N_SOCKETS
        /\ UNCHANGED <<pages_in_pool, migration_per_page, migration_per_page_CI, curphase,
                       dumped, inLoop, pages_to_CI>>
    BY <1>5 DEF AccountSocket
  <2>2. ~inLoop
    BY <2>1, PoolAssumption DEF IInv, Control
  <2>3. Grows
    BY <1>5, AccountSocketGrows
  <2>. QED
    BY <2>1, <2>2, <2>3 DEF Waits
<1>6. ASSUME SaveMaps
      PROVE  Enters
  <2>1. /\ EnterLoop(accesses)
        /\ dumped' = [owner |-> page_owner, owner_CI |-> page_owner_CI]
        /\ UNCHANGED <<page_owner, page_owner_CI, pages_in_pool, migration_per_page,
                       migration_per_page_CI, curphase>>
    BY <1>6 DEF SaveMaps
  <2>. QED
    BY <2>1, SameMapsGrow DEF Enters, EnterLoop, NoCounts
<1>7. CASE Generate
  BY <1>1, <1>2, <1>3, <1>7 DEF Generate, Next, EndPhase
<1>8. CASE Simulate
  BY <1>2, <1>3, <1>4, <1>5, <1>6, <1>8 DEF Simulate, EndSimulation
<1>. QED
  BY <1>7, <1>8

LEMMA DivMonotone ==
    ASSUME NEW a \in Nat, NEW b \in Nat, a <= b, NEW d \in Nat \ {0}
    PROVE  a \div d \in Nat /\ b \div d \in Nat /\ a \div d <= b \div d
<1>1. PICK q \in Int : q = a \div d
  OBVIOUS
<1>2. PICK r \in Int : r = b \div d
  OBVIOUS
<1>3. q >= 0 /\ q * d <= a /\ a < (q + 1) * d
  BY <1>1, Z3
<1>4. r >= 0 /\ r * d <= b /\ b < (r + 1) * d
  BY <1>2, Z3
<1>5. q <= r
  <2>1. SUFFICES ASSUME r + 1 <= q PROVE FALSE
    OBVIOUS
  <2>2. (r + 1) * d <= q * d
    BY <2>1, Z3
  <2>. QED
    BY <1>3, <1>4, <2>2
<1>. QED
  BY <1>1, <1>2, <1>3, <1>4, <1>5

LEMMA FinitePages ==
    ASSUME NEW S, S \subseteq Pages
    PROVE  IsFiniteSet(S) /\ Cardinality(S) \in Nat
BY PoolAssumption, FS_Subset, FS_CardinalityType

\* A set that gains at most one element.
LEMMA OneMore ==
    ASSUME NEW S, IsFiniteSet(S), NEW x, NEW T, T \subseteq S \cup {x}
    PROVE  /\ IsFiniteSet(T) /\ Cardinality(T) \in Nat /\ Cardinality(S) \in Nat
           /\ Cardinality(T) <= Cardinality(S) + 1
<1>1. IsFiniteSet(S \cup {x}) /\ Cardinality(S \cup {x}) <= Cardinality(S) + 1
      /\ Cardinality(S) \in Nat /\ Cardinality(S \cup {x}) \in Nat
  BY FS_AddElement, FS_CardinalityType
<1>2. IsFiniteSet(T) /\ Cardinality(T) <= Cardinality(S \cup {x})
  BY <1>1, FS_Subset
<1>3. Cardinality(T) \in Nat
  BY <1>2, FS_CardinalityType
<1>. QED
  BY <1>1, <1>2, <1>3

-----------------------------------------------------------------------------
(* Migrations of a page.                                                   *)

LEMMA PhasesAllowMore ==
    ASSUME IInv, curphase' = curphase \/ curphase' = curphase + 1
    PROVE  pingpong_lim \in Nat /\ pingpong_lim' \in Nat /\ pingpong_lim <= pingpong_lim'
<1>1. curphase \in Nat /\ PHASES_PER_MIGRATION \in Nat \ {0}
  BY PoolAssumption DEF IInv, TypeOK
<1>2. curphase' \in Nat /\ curphase <= curphase'
  BY <1>1
<1>3. pingpong_lim' = curphase' \div PHASES_PER_MIGRATION
  BY DEF pingpong_lim
<1>. QED
  BY <1>1, <1>2, <1>3, DivMonotone DEF pingpong_lim

LEMMA IterationPingPong ==
    ASSUME IInv, PingPongBounded, NEW p, Iteration(p)
    PROVE  \A q \in Pages : /\ migration_per_page'[q] <= pingpong_lim + 1
                            /\ migration_per_page_CI'[q] <= pingpong_lim + 1
<1>1. /\ migration_per_page \in [Pages -> Nat]
      /\ migration_per_page_CI \in [Pages -> Nat]
      /\ p \in Pages
  BY DEF IInv, TypeOK, Iteration
<1>2. pingpong_lim \in Nat
  BY PhasesAllowMore DEF Iteration
<1>3. \/ migration_per_page' = migration_per_page
      \/ /\ migration_per_page[p] <= pingpong_lim
         /\ migration_per_page' = [migration_per_page EXCEPT ![p] = @ + 1]
  BY DEF Iteration, BaselineStep, MigrateBaseline, baseline
<1>4. \/ migration_per_page_CI' = migration_per_page_CI
      \/ /\ migration_per_page_CI[p] <= pingpong_lim
         /\ migration_per_page_CI' = [migration_per_page_CI EXCEPT ![p] = @ + 1]
  BY DEF Iteration, IslandStep, island, MoveCI, EnterPool, Swaps, EntersPool, MayMoveCI
<1>5. ASSUME NEW q \in Pages
      PROVE  migration_per_page'[q] <= pingpong_lim + 1
  <2>1. migration_per_page[q] <= pingpong_lim + 1
    BY DEF PingPongBounded
  <2>2. q # p => migration_per_page'[q] = migration_per_page[q]
    BY <1>1, <1>3
  <2>. QED
    BY <1>1, <1>2, <1>3, <2>1, <2>2
<1>6. ASSUME NEW q \in Pages
      PROVE  migration_per_page_CI'[q] <= pingpong_lim + 1
  <2>1. migration_per_page_CI[q] <= pingpong_lim + 1
    BY DEF PingPongBounded
  <2>2. q # p => migration_per_page_CI'[q] = migration_per_page_CI[q]
    BY <1>1, <1>4
  <2>. QED
    BY <1>1, <1>2, <1>4, <2>1, <2>2
<1>. QED
  BY <1>5, <1>6

\* No page makes more than one migration over what the phases so far allow, in
\* either map and either program: the test of migration_per_page against
\* pingpong_lim comes before the count, and a page is a candidate once a phase.
THEOREM PingPongIsBounded ==
    ProgramSpec => []PingPongBounded
<1>1. ProgramInit => PingPongBounded
  <2>. SUFFICES ASSUME ProgramInit PROVE PingPongBounded
    OBVIOUS
  <2>1. Init
    BY DEF ProgramInit
  <2>2. 0 \div PHASES_PER_MIGRATION \in Nat
    BY PoolAssumption, DivMonotone
  <2>. QED
    BY <2>1, <2>2 DEF Init, PingPongBounded, pingpong_lim
<1>2. ASSUME IInv, PingPongBounded, [Generate \/ Simulate]_simVars
      PROVE  PingPongBounded'
  <2>1. CASE UNCHANGED simVars
    BY <1>2, <2>1 DEF simVars, vars, persistent, PingPongBounded, pingpong_lim
  <2>2. CASE \E p : Iteration(p)
    <3>1. PICK p : Iteration(p)
      BY <2>2
    <3>2. curphase' = curphase
      BY <3>1 DEF Iteration
    <3>. QED
      BY <1>2, <3>1, <3>2, IterationPingPong DEF PingPongBounded, pingpong_lim
  <2>3. CASE Enters \/ Waits \/ Leaves
    <3>1. /\ UNCHANGED <<migration_per_page, migration_per_page_CI>>
          /\ curphase' = curphase \/ curphase' = curphase + 1
      BY <2>3 DEF Enters, Waits, Leaves
    <3>2. pingpong_lim \in Nat /\ pingpong_lim' \in Nat /\ pingpong_lim <= pingpong_lim'
      BY <1>2, <3>1, PhasesAllowMore
    <3>. QED
      <4>. SUFFICES ASSUME NEW q \in Pages
                    PROVE  /\ migration_per_page'[q] <= pingpong_lim' + 1
                           /\ migration_per_page_CI'[q] <= pingpong_lim' + 1
        BY DEF PingPongBounded
      <4>1. /\ migration_per_page[q] \in Nat /\ migration_per_page_CI[q] \in Nat
            /\ migration_per_page[q] <= pingpong_lim + 1
            /\ migration_per_page_CI[q] <= pingpong_lim + 1
        BY <1>2 DEF IInv, TypeOK, PingPongBounded
      <4>. QED
        BY <3>1, <3>2, <4>1
  <2>. QED
    BY <1>2, <2>1, <2>2, <2>3, StepKinds
<1>. QED
  BY InitIInv, StepIInv, StutterIInv, <1>1, <1>2, PTL DEF ProgramSpec

-----------------------------------------------------------------------------
(* The pool's capacity.                                                    *)

\* pages_in_pool is at least the number of pages there
Pooled == Cardinality(Pool) <= pages_in_pool /\ PoolWithinCapacity

LEMMA CapacityGrows ==
    ASSUME IInv, Grows
    PROVE  /\ Pool' = Pool
           /\ pool_cap \in Nat /\ pool_cap' \in Nat /\ pool_cap <= pool_cap'
<1>1. MapsOK /\ MapsOK'
  BY TypeOKGivesMaps DEF IInv, Grows
<1>2. DOMAIN page_owner_CI \subseteq DOMAIN page_owner_CI'
  BY <1>1 DEF Grows, MapsOK
<1>3. Pool' = Pool
  BY <1>1, <1>2 DEF Grows, Pool
<1>4. IsFiniteSet(DOMAIN page_owner_CI')
  BY <1>1, FinitePages DEF MapsOK, OwnerMap
<1>5. Cardinality(DOMAIN page_owner_CI) <= Cardinality(DOMAIN page_owner_CI')
      /\ Cardinality(DOMAIN page_owner_CI) \in Nat
      /\ Cardinality(DOMAIN page_owner_CI') \in Nat
  BY <1>2, <1>4, FS_Subset, FS_CardinalityType
<1>6. pool_cap' = Cardinality(DOMAIN page_owner_CI') \div POOL_FRACTION
  BY DEF pool_cap
<1>. QED
  BY <1>3, <1>5, <1>6, DivMonotone, PoolAssumption DEF pool_cap

LEMMA IterationPooled ==
    ASSUME IInv, Pooled, NEW p, Iteration(p)
    PROVE  Pooled'
<1>1. MapsOK /\ p \in DOMAIN page_owner_CI
  BY TypeOKGivesMaps DEF IInv, Iteration
<1>2. /\ IsFiniteSet(Pool) /\ Cardinality(Pool) \in Nat
  BY <1>1, FinitePages DEF Pool, MapsOK, OwnerMap
<1>3. pages_in_pool \in Nat /\ CXO \notin Sockets
  BY PoolAssumption DEF IInv, TypeOK
<1>4. pool_cap \in Nat
  <2>1. Cardinality(DOMAIN page_owner_CI) \in Nat
    BY <1>1, FinitePages DEF MapsOK, OwnerMap
  <2>. QED
    BY <2>1, DivMonotone, PoolAssumption DEF pool_cap
<1>5. /\ Cardinality(Pool) <= pages_in_pool
      /\ Pool # {} => Cardinality(Pool) < pool_cap
  BY DEF Pooled, PoolWithinCapacity
<1>6. SUFFICES /\ DOMAIN page_owner_CI' = DOMAIN page_owner_CI
               /\ Cardinality(Pool') <= pages_in_pool'
               /\ Pool' # {} => Cardinality(Pool') < pool_cap
  BY DEF Pooled, PoolWithinCapacity, pool_cap
<1>7. CASE UNCHANGED island
  BY <1>5, <1>7 DEF island, Pool
<1>8. CASE \E o \in Sockets : MoveCI(p, o)
  <2>. PICK o \in Sockets : MoveCI(p, o)
    BY <1>8
  <2>1. page_owner_CI' = [page_owner_CI EXCEPT ![p] = o] /\ pages_in_pool' = pages_in_pool
    BY DEF MoveCI
  <2>2. Pool' \subseteq Pool /\ DOMAIN page_owner_CI' = DOMAIN page_owner_CI
    BY <1>3, <2>1 DEF Pool
  <2>3. Cardinality(Pool') <= Cardinality(Pool) /\ Cardinality(Pool') \in Nat
    BY <1>2, <2>2, FS_Subset, FS_CardinalityType
  <2>. QED
    BY <1>2, <1>3, <1>4, <1>5, <2>1, <2>2, <2>3
<1>9. CASE EnterPool(p)
  <2>1. /\ page_owner_CI' = [page_owner_CI EXCEPT ![p] = CXO]
        /\ pages_in_pool + 1 < pool_cap /\ pages_in_pool' = pages_in_pool + 1
    BY <1>9 DEF EnterPool
  <2>2. Pool' \subseteq Pool \cup {p} /\ DOMAIN page_owner_CI' = DOMAIN page_owner_CI
    BY <2>1 DEF Pool
  <2>3. Cardinality(Pool') <= Cardinality(Pool) + 1 /\ Cardinality(Pool') \in Nat
    BY <1>2, <2>2, OneMore
  <2>. QED
    BY <1>2, <1>3, <1>4, <1>5, <2>1, <2>2, <2>3
<1>10. CASE \E k \in Nat, o \in Sockets : Swaps(p, k, o)
  <2>. PICK k \in Nat, o \in Sockets : Swaps(p, k, o)
    BY <1>10
  <2>1. PICK v : v = sorted_candidates[k]
    OBVIOUS
  <2>2. /\ v = p \/ page_owner_CI[v] = CXO
        /\ page_owner_CI' = [q \in DOMAIN page_owner_CI |->
                                IF q = v THEN o ELSE IF q = p THEN CXO ELSE page_owner_CI[q]]
        /\ pages_in_pool' = pages_in_pool
    BY <2>1 DEF Swaps
  <2>3. v \in DOMAIN page_owner_CI
    <3>1. k \in 1 .. eviction_it /\ inLoop
      BY DEF Swaps, Iteration
    <3>2. k \in 1 .. Len(sorted_candidates)
      BY <3>1, LoopFacts
    <3>. QED
      BY <2>1, <3>1, <3>2, LoopFacts
  <2>4. Pool' = (Pool \cup {p}) \ {v} /\ DOMAIN page_owner_CI' = DOMAIN page_owner_CI
    BY <1>1, <1>3, <2>2 DEF Pool
  <2>5. CASE v = p
    <3>1. Pool' \subseteq Pool
      BY <2>4, <2>5
    <3>2. Cardinality(Pool') <= Cardinality(Pool) /\ Cardinality(Pool') \in Nat
      BY <1>2, <3>1, FS_Subset, FS_CardinalityType
    <3>. QED
      BY <1>2, <1>3, <1>4, <1>5, <2>2, <2>4, <3>1, <3>2
  <2>6. CASE page_owner_CI[v] = CXO
    <3>1. v \in Pool
      BY <2>3, <2>6 DEF Pool
    <3>2. /\ IsFiniteSet(Pool \ {v}) /\ Cardinality(Pool \ {v}) = Cardinality(Pool) - 1
      BY <1>2, <3>1, FS_RemoveElement
    <3>3. Pool' \subseteq (Pool \ {v}) \cup {p}
      BY <2>4
    <3>4. Cardinality(Pool') <= Cardinality(Pool \ {v}) + 1 /\ Cardinality(Pool') \in Nat
      BY <3>2, <3>3, OneMore
    <3>. QED
      BY <1>2, <1>3, <1>4, <1>5, <2>2, <2>4, <3>1, <3>2, <3>4
  <2>. QED
    BY <2>2, <2>5, <2>6
<1>. QED
  BY <1>7, <1>8, <1>9, <1>10 DEF Iteration, IslandStep

\* The pool stays below a POOL_FRACTION-th of the pages touched, in both programs,
\* although pages_in_pool is not decreased by a page that moves out: it only ever
\* overcounts, and a page that would fill the pool makes another one leave.
THEOREM PoolStaysWithinCapacity ==
    ProgramSpec => []PoolWithinCapacity
<1>1. ProgramInit => Pooled
  <2>. SUFFICES ASSUME ProgramInit PROVE Pooled
    OBVIOUS
  <2>1. Init
    BY DEF ProgramInit
  <2>2. Pool = {} /\ pages_in_pool = 0
    BY <2>1 DEF Init, NoMap, Pool
  <2>. QED
    BY <2>2, FS_EmptySet DEF Pooled, PoolWithinCapacity
<1>2. ASSUME IInv, Pooled, [Generate \/ Simulate]_simVars
      PROVE  Pooled'
  <2>1. CASE UNCHANGED simVars
    BY <1>2, <2>1 DEF simVars, vars, persistent, Pooled, PoolWithinCapacity, Pool, pool_cap
  <2>2. CASE \E p : Iteration(p)
    BY <1>2, <2>2, IterationPooled
  <2>3. CASE Enters \/ Waits \/ Leaves
    <3>1. Grows /\ pages_in_pool' = pages_in_pool
      BY <1>2, <2>3, SameMapsGrow DEF Enters, Waits, Leaves
    <3>2. /\ Pool' = Pool
          /\ pool_cap \in Nat /\ pool_cap' \in Nat /\ pool_cap <= pool_cap'
      BY <1>2, <3>1, CapacityGrows
    <3>3. Cardinality(Pool) \in Nat
      BY <1>2, TypeOKGivesMaps, FinitePages DEF IInv, Pool, MapsOK, OwnerMap
    <3>4. /\ Cardinality(Pool) <= pages_in_pool
          /\ Pool # {} => Cardinality(Pool) < pool_cap
      BY <1>2 DEF Pooled, PoolWithinCapacity
    <3>5. /\ Cardinality(Pool') <= pages_in_pool'
          /\ Pool' # {} => Cardinality(Pool') < pool_cap'
      BY <3>1, <3>2, <3>3, <3>4
    <3>. QED
      BY <3>5 DEF Pooled, PoolWithinCapacity
  <2>. QED
    BY <1>2, <2>1, <2>2, <2>3, StepKinds
<1>3. Pooled => PoolWithinCapacity
  BY DEF Pooled
<1>. QED
  BY InitIInv, StepIInv, StutterIInv, <1>1, <1>2, <1>3, PTL DEF ProgramSpec

-----------------------------------------------------------------------------
(* Migrations of a phase.                                                  *)

MovedPages == Changed(page_owner, dumped.owner)

MovedPagesCI == Changed(page_owner_CI, dumped.owner_CI)

\* those of them that a socket has now
MovedToSockets == MovedPagesCI \ Pool

\* The counters bound the pages moved since the maps were saved
Counted ==
    /\ DOMAIN dumped.owner \subseteq DOMAIN page_owner
    /\ DOMAIN dumped.owner_CI \subseteq DOMAIN page_owner_CI
    /\ MigrationLimited
    /\ inLoop => /\ Cardinality(MovedPages) <= i /\ i <= MIGRATION_LIMIT
                 /\ migrated_pages = i
                 /\ Cardinality(MovedPagesCI) <= i_cxi /\ i_cxi <= MIGRATION_LIMIT + 1
                 /\ Cardinality(NewInPool) <= pages_to_CI
                 /\ Cardinality(MovedToSockets) <= migrated_pages_CI + pages_to_CI

LEMMA MovedPagesFinite ==
    ASSUME IInv, Counted
    PROVE  /\ IsFiniteSet(MovedPages) /\ Cardinality(MovedPages) \in Nat
           /\ IsFiniteSet(MovedPagesCI) /\ Cardinality(MovedPagesCI) \in Nat
           /\ IsFiniteSet(NewInPool) /\ Cardinality(NewInPool) \in Nat
           /\ IsFiniteSet(MovedToSockets) /\ Cardinality(MovedToSockets) \in Nat
<1>1. DOMAIN page_owner \subseteq Pages /\ DOMAIN page_owner_CI \subseteq Pages
  BY TypeOKGivesMaps DEF IInv, MapsOK, OwnerMap
<1>2. MovedPages \subseteq Pages /\ MovedPagesCI \subseteq Pages
  BY <1>1 DEF MovedPages, MovedPagesCI, Changed
<1>3. NewInPool \subseteq Pages /\ MovedToSockets \subseteq Pages
  BY <1>1, <1>2 DEF NewInPool, Pool, MovedToSockets
<1>. QED
  BY <1>2, <1>3, FinitePages

LEMMA IterationCounted ==
    ASSUME IInv, Counted, NEW p, Iteration(p)
    PROVE  Counted'
<1>1. /\ inLoop /\ inLoop' /\ dumped' = dumped
      /\ BaselineStep(p) /\ IslandStep(p)
      /\ p \in DOMAIN page_owner_CI
  BY DEF Iteration
<1>2. /\ IsFiniteSet(MovedPages) /\ Cardinality(MovedPages) \in Nat
      /\ IsFiniteSet(MovedPagesCI) /\ Cardinality(MovedPagesCI) \in Nat
      /\ IsFiniteSet(NewInPool) /\ Cardinality(NewInPool) \in Nat
      /\ IsFiniteSet(MovedToSockets) /\ Cardinality(MovedToSockets) \in Nat
  BY MovedPagesFinite
<1>3. /\ Cardinality(MovedPages) <= i /\ i <= MIGRATION_LIMIT
      /\ migrated_pages = i
      /\ Cardinality(MovedPagesCI) <= i_cxi /\ i_cxi <= MIGRATION_LIMIT + 1
      /\ Cardinality(NewInPool) <= pages_to_CI
      /\ Cardinality(MovedToSockets) <= migrated_pages_CI + pages_to_CI
  BY <1>1 DEF Counted
<1>4. /\ i \in Nat /\ i_cxi \in Nat /\ migrated_pages_CI \in Nat /\ pages_to_CI \in Nat
      /\ MIGRATION_LIMIT \in Nat
  BY PoolAssumption DEF IInv, TypeOK
<1>5. /\ DOMAIN page_owner' = DOMAIN page_owner
      /\ Cardinality(MovedPages') <= i' /\ i' <= MIGRATION_LIMIT
      /\ migrated_pages' = i'
  <2>. PICK o \in Sockets : MigrateBaseline(p, o)
    BY <1>1 DEF BaselineStep
  <2>1. CASE UNCHANGED baseline
    BY <1>1, <1>3, <2>1 DEF baseline, MovedPages
  <2>2. CASE /\ i < MIGRATION_LIMIT /\ i' = i + 1
             /\ migrated_pages' = migrated_pages + 1
             /\ page_owner' = [page_owner EXCEPT ![p] = o]
    <3>1. MovedPages' \subseteq MovedPages \cup {p}
      BY <1>1, <2>2 DEF MovedPages, Changed
    <3>2. Cardinality(MovedPages') <= Cardinality(MovedPages) + 1
          /\ Cardinality(MovedPages') \in Nat
      BY <1>2, <3>1, OneMore
    <3>. QED
      BY <1>2, <1>3, <1>4, <2>2, <3>2
  <2>. QED
    BY <2>1, <2>2 DEF MigrateBaseline
<1>6. /\ DOMAIN page_owner_CI' = DOMAIN page_owner_CI
      /\ Cardinality(MovedPagesCI') <= i_cxi' /\ i_cxi' <= MIGRATION_LIMIT + 1
      /\ Cardinality(NewInPool') <= pages_to_CI'
      /\ Cardinality(MovedToSockets') <= migrated_pages_CI' + pages_to_CI'
  <2>1. CASE UNCHANGED island
    BY <1>1, <1>3, <2>1 DEF island, MovedPagesCI, Changed, NewInPool, MovedToSockets, Pool
  <2>2. CASE \E o \in Sockets : MoveCI(p, o)
    <3>. PICK o \in Sockets : MoveCI(p, o)
      BY <2>2
    <3>1. /\ i_cxi < MIGRATION_LIMIT /\ i_cxi' = i_cxi + 1
          /\ page_owner_CI' = [page_owner_CI EXCEPT ![p] = o]
          /\ migrated_pages_CI' = migrated_pages_CI + 1 /\ pages_to_CI' = pages_to_CI
      BY DEF MoveCI, MayMoveCI
    <3>2. MovedPagesCI' \subseteq MovedPagesCI \cup {p}
      BY <1>1, <3>1 DEF MovedPagesCI, Changed
    <3>3. NewInPool' \subseteq NewInPool
      BY <1>1, <3>1, PoolAssumption DEF NewInPool, Pool
    <3>4. MovedToSockets' \subseteq MovedToSockets \cup {p}
      BY <1>1, <3>1 DEF MovedToSockets, MovedPagesCI, Changed, Pool
    <3>5. Cardinality(MovedPagesCI') <= Cardinality(MovedPagesCI) + 1
          /\ Cardinality(MovedPagesCI') \in Nat
      BY <1>2, <3>2, OneMore
    <3>6. Cardinality(NewInPool') <= Cardinality(NewInPool) /\ Cardinality(NewInPool') \in Nat
      BY <1>2, <3>3, FS_Subset, FS_CardinalityType
    <3>7. Cardinality(MovedToSockets') <= Cardinality(MovedToSockets) + 1
          /\ Cardinality(MovedToSockets') \in Nat
      BY <1>2, <3>4, OneMore
    <3>. QED
      BY <1>2, <1>3, <1>4, <3>1, <3>5, <3>6, <3>7
  <2>3. CASE EnterPool(p)
    <3>1. /\ i_cxi < MIGRATION_LIMIT /\ i_cxi' = i_cxi + 1
          /\ page_owner_CI' = [page_owner_CI EXCEPT ![p] = CXO]
          /\ migrated_pages_CI' = migrated_pages_CI /\ pages_to_CI' = pages_to_CI + 1
      BY <2>3 DEF EnterPool, EntersPool, MayMoveCI
    <3>2. MovedPagesCI' \subseteq MovedPagesCI \cup {p}
      BY <1>1, <3>1 DEF MovedPagesCI, Changed
    <3>3. NewInPool' \subseteq NewInPool \cup {p}
      BY <1>1, <3>1 DEF NewInPool, Pool
    <3>4. MovedToSockets' \subseteq MovedToSockets
      BY <1>1, <3>1 DEF MovedToSockets, MovedPagesCI, Changed, Pool
    <3>5. Cardinality(MovedPagesCI') <= Cardinality(MovedPagesCI) + 1
          /\ Cardinality(MovedPagesCI') \in Nat
      BY <1>2, <3>2, OneMore
    <3>6. Cardinality(NewInPool') <= Cardinality(NewInPool) + 1
          /\ Cardinality(NewInPool') \in Nat
      BY <1>2, <3>3, OneMore
    <3>7. Cardinality(MovedToSockets') <= Cardinality(MovedToSockets)
          /\ Cardinality(MovedToSockets') \in Nat
      BY <1>2, <3>4, FS_Subset, FS_CardinalityType
    <3>. QED
      BY <1>2, <1>3, <1>4, <3>1, <3>5, <3>6, <3>7
  <2>4. CASE \E k \in Nat, o \in Sockets : Swaps(p, k, o)
    <3>. PICK k \in Nat, o \in Sockets : Swaps(p, k, o)
      BY <2>4
    <3>1. PICK v : v = sorted_candidates[k]
      OBVIOUS
    <3>2. /\ i_cxi < MIGRATION_LIMIT /\ i_cxi' = i_cxi + 2
          /\ page_owner_CI' = [q \in DOMAIN page_owner_CI |->
                                  IF q = v THEN o ELSE IF q = p THEN CXO ELSE page_owner_CI[q]]
          /\ migrated_pages_CI' = migrated_pages_CI /\ pages_to_CI' = pages_to_CI + 1
      BY <3>1 DEF Swaps, EntersPool, MayMoveCI
    <3>3. MovedPagesCI' \subseteq (MovedPagesCI \cup {p}) \cup {v}
      BY <1>1, <3>2 DEF MovedPagesCI, Changed
    <3>4. MovedToSockets' \subseteq MovedToSockets \cup {v}
      BY <1>1, <3>2 DEF MovedToSockets, MovedPagesCI, Changed, Pool
    <3>8. NewInPool' \subseteq NewInPool \cup {p}
      BY <1>1, <3>2, PoolAssumption DEF NewInPool, Pool
    <3>5. /\ IsFiniteSet(MovedPagesCI \cup {p})
          /\ Cardinality(MovedPagesCI \cup {p}) <= Cardinality(MovedPagesCI) + 1
          /\ Cardinality(MovedPagesCI \cup {p}) \in Nat
      BY <1>2, OneMore
    <3>6. Cardinality(MovedPagesCI') <= Cardinality(MovedPagesCI \cup {p}) + 1
          /\ Cardinality(MovedPagesCI') \in Nat
      BY <3>3, <3>5, OneMore
    <3>7. Cardinality(MovedToSockets') <= Cardinality(MovedToSockets) + 1
          /\ Cardinality(MovedToSockets') \in Nat
      BY <1>2, <3>4, OneMore
    <3>9. Cardinality(NewInPool') <= Cardinality(NewInPool) + 1
          /\ Cardinality(NewInPool') \in Nat
      BY <1>2, <3>8, OneMore
    <3>. QED
      BY <1>2, <1>3, <1>4, <3>2, <3>5, <3>6, <3>7, <3>9
  <2>. QED
    BY <1>1, <2>1, <2>2, <2>3, <2>4 DEF IslandStep
<1>7. TypeOK'
  BY IterationTypeOK
<1>8. /\ DOMAIN dumped'.owner \subseteq DOMAIN page_owner'
      /\ DOMAIN dumped'.owner_CI \subseteq DOMAIN page_owner_CI'
  BY <1>1, <1>5, <1>6 DEF Counted
<1>9. Cardinality(MovedPages') \in Nat /\ Cardinality(MovedPagesCI') \in Nat
  <2>1. MovedPages' \subseteq Pages /\ MovedPagesCI' \subseteq Pages
    BY <1>7, TypeOKGivesMaps DEF MapsOK, OwnerMap, MovedPages, MovedPagesCI, Changed
  <2>. QED
    BY <2>1, FinitePages
<1>10. /\ Cardinality(MovedPages') <= MIGRATION_LIMIT
       /\ Cardinality(MovedPagesCI') <= MIGRATION_LIMIT + 1
  <2>1. i' \in Nat /\ i_cxi' \in Nat
    BY <1>7 DEF TypeOK
  <2>. QED
    BY <1>4, <1>5, <1>6, <1>9, <2>1
<1>11. MigrationLimited'
  BY <1>10 DEF MigrationLimited, MovedPages, MovedPagesCI
<1>. QED
  BY <1>5, <1>6, <1>8, <1>11 DEF Counted

LEMMA EntersCounted ==
    ASSUME IInv, Enters
    PROVE  Counted'
<1>1. /\ MapsOK' /\ MapsOK /\ Grows /\ NoCounts
      /\ dumped' = [owner |-> page_owner, owner_CI |-> page_owner_CI]
  BY TypeOKGivesMaps DEF IInv, Enters, Grows
<1>2. dumped'.owner = page_owner /\ dumped'.owner_CI = page_owner_CI
  BY <1>1
<1>3. /\ DOMAIN page_owner \subseteq DOMAIN page_owner'
      /\ DOMAIN page_owner_CI \subseteq DOMAIN page_owner_CI'
  BY <1>1 DEF Grows, MapsOK
<1>4. MovedPages' = {} /\ MovedPagesCI' = {} /\ NewInPool' = {} /\ MovedToSockets' = {}
  <2>1. MovedPages' = {} /\ MovedPagesCI' = {}
    BY <1>1, <1>2, <1>3 DEF Grows, MovedPages, MovedPagesCI, Changed
  <2>2. NewInPool' = {}
    BY <1>1, <1>2, <1>3 DEF Grows, NewInPool, Pool
  <2>. QED
    BY <2>1, <2>2 DEF MovedToSockets
<1>5. MigrationLimited'
  BY <1>4, FS_EmptySet, PoolAssumption DEF MigrationLimited, MovedPages, MovedPagesCI
<1>. QED
  BY <1>1, <1>2, <1>3, <1>4, <1>5, FS_EmptySet, PoolAssumption DEF Counted, NoCounts

LEMMA OutsideCounted ==
    ASSUME IInv, Counted, Waits \/ Leaves
    PROVE  Counted'
<1>1. CASE dumped' = dumped
  <2>1. Grows /\ ~inLoop'
    BY <1>1, SameMapsGrow DEF Waits, Leaves
  <2>2. /\ DOMAIN page_owner \subseteq DOMAIN page_owner'
        /\ DOMAIN page_owner_CI \subseteq DOMAIN page_owner_CI'
    BY <2>1, TypeOKGivesMaps DEF Grows, MapsOK, IInv
  <2>3. MovedPages' = MovedPages /\ MovedPagesCI' = MovedPagesCI
    BY <1>1, <2>1, <2>2 DEF Grows, MovedPages, MovedPagesCI, Changed, Counted
  <2>4. MigrationLimited'
    BY <2>3 DEF MigrationLimited, MovedPages, MovedPagesCI, Counted
  <2>. QED
    BY <1>1, <2>1, <2>2, <2>4 DEF Counted
<1>2. CASE /\ Leaves
           /\ dumped' = [owner |-> page_owner, owner_CI |-> page_owner_CI]
  <2>1. /\ ~inLoop' /\ UNCHANGED <<page_owner, page_owner_CI>>
        /\ dumped'.owner = page_owner /\ dumped'.owner_CI = page_owner_CI
    BY <1>2 DEF Leaves
  <2>2. MovedPages' = {} /\ MovedPagesCI' = {}
    BY <2>1 DEF MovedPages, MovedPagesCI, Changed
  <2>3. MigrationLimited'
    BY <2>2, FS_EmptySet, PoolAssumption DEF MigrationLimited, MovedPages, MovedPagesCI
  <2>. QED
    BY <2>1, <2>3 DEF Counted
<1>. QED
  BY <1>1, <1>2 DEF Waits, Leaves

LEMMA InitCounted ==
    ProgramInit => Counted
<1>. SUFFICES ASSUME ProgramInit PROVE Counted
  OBVIOUS
<1>1. Init
  BY DEF ProgramInit
<1>2. /\ page_owner = NoMap /\ page_owner_CI = NoMap /\ ~inLoop
      /\ dumped.owner = NoMap /\ dumped.owner_CI = NoMap
  BY <1>1 DEF Init
<1>3. MovedPages = {} /\ MovedPagesCI = {}
  BY <1>2 DEF MovedPages, MovedPagesCI, Changed
<1>4. MigrationLimited
  BY <1>3, FS_EmptySet, PoolAssumption DEF MigrationLimited, MovedPages, MovedPagesCI
<1>. QED
  BY <1>2, <1>4 DEF Counted

LEMMA StepCounted ==
    ASSUME IInv, Counted, [Generate \/ Simulate]_simVars
    PROVE  Counted'
<1>1. CASE UNCHANGED simVars
  BY <1>1 DEF simVars, vars, persistent, baseline, island, Counted, MigrationLimited,
              MovedPages, MovedPagesCI, NewInPool, MovedToSockets, Pool, Changed
<1>2. CASE \E p : Iteration(p)
  BY <1>2, IterationCounted
<1>3. CASE Enters
  BY <1>3, EntersCounted
<1>4. CASE Waits \/ Leaves
  BY <1>4, OutsideCounted
<1>. QED
  BY <1>1, <1>2, <1>3, <1>4, StepKinds

\* A phase changes the owners of at most MIGRATION_LIMIT pages of the baseline and
\* one more of the island, whichever of the moves of the loop are evictions.
THEOREM MigrationsAreLimited ==
    ProgramSpec => []MigrationLimited
<1>1. Counted => MigrationLimited
  BY DEF Counted
<1>. QED
  BY InitIInv, StepIInv, StutterIInv, InitCounted, StepCounted, <1>1, PTL DEF ProgramSpec

\* The counts that a phase reports cover the pages it moved: those of the baseline,
\* those it put in the pool, and those that another socket of the island has now,
\* evicted pages included, which are not reported but came with an entering page.
THEOREM ReportsCoverMoves ==
    ProgramSpec => []ReportCoversMoves
<1>1. IInv /\ Counted => ReportCoversMoves
  BY DEF Counted, ReportCoversMoves, MovedPages, MovedPagesCI, MovedToSockets
<1>. QED
  BY InitIInv, StepIInv, StutterIInv, InitCounted, StepCounted, <1>1, PTL DEF ProgramSpec

-----------------------------------------------------------------------------
(* Pages moved to the pool.                                                *)

\* The pages that entered the pool are candidates that were looked at; as long as no
\* hot page was evicted all of them are still in the pool
Seen == {sorted_candidates[k] : k \in 1 .. it_migration - 1}

Staying == entered \cap Pool

Stayed ==
    /\ MovedPagesAreInPool
    /\ inLoop => entered \subseteq Seen
    /\ inLoop /\ ~eviction_candidate_was_hot => pages_to_CI <= Cardinality(Staying)

LEMMA StayingFinite ==
    /\ TypeOK => IsFiniteSet(Staying) /\ Cardinality(Staying) \in Nat
    /\ TypeOK' => IsFiniteSet(Staying') /\ Cardinality(Staying') \in Nat
<1>1. TypeOK => Staying \subseteq Pages
  BY DEF TypeOK, Staying
<1>2. TypeOK' => Staying' \subseteq Pages
  BY DEF TypeOK, Staying
<1>. QED
  BY <1>1, <1>2, FinitePages

LEMMA IterationStayed ==
    ASSUME IInv, Stayed, NEW p, Iteration(p)
    PROVE  Stayed'
<1>. DEFINE sc == sorted_candidates
            here == it_migration
<1>1. /\ inLoop /\ here' = here + 1
      /\ p = sc[here] /\ p \in DOMAIN page_owner_CI
      /\ here \in 1 .. Len(sc)
      /\ IslandStep(p)
      /\ sc' = sc
  BY DEF Iteration
<1>2. /\ Len(sc) \in Nat
      /\ \A k \in 1 .. Len(sc) : sc[k] \in DOMAIN page_owner_CI
      /\ \A k, m \in 1 .. Len(sc) : k # m => sc[k] # sc[m]
      /\ eviction_it \in 0 .. Len(sc)
  BY <1>1, LoopFacts
<1>3. here \in Int /\ here - 1 \in Int /\ here' - 1 = here
  BY <1>1, <1>2
<1>4. /\ IsFiniteSet(Staying) /\ Cardinality(Staying) \in Nat
      /\ IsFiniteSet(Staying') /\ Cardinality(Staying') \in Nat
  BY IterationTypeOK, StayingFinite DEF IInv
<1>5. /\ pages_to_CI \in Nat
      /\ pages_to_CI <= 1 + Cardinality(Staying)
      /\ ~eviction_candidate_was_hot => pages_to_CI <= Cardinality(Staying)
      /\ entered \subseteq Seen
  BY <1>1 DEF IInv, TypeOK, Stayed, MovedPagesAreInPool, Staying
<1>6. Seen' = Seen \cup {p}
  <2>1. Seen' = {sc[k] : k \in 1 .. here}
    BY <1>1, <1>3 DEF Seen
  <2>2. \A k \in 1 .. here : k = here \/ k \in 1 .. here - 1
    BY <1>3
  <2>3. here \in 1 .. here /\ 1 .. here - 1 \subseteq 1 .. here
    BY <1>1, <1>2
  <2>. QED
    BY <1>1, <2>1, <2>2, <2>3 DEF Seen
<1>7. p \notin entered
  <2>1. \A k \in 1 .. here - 1 : sc[k] # p
    BY <1>1, <1>2
  <2>. QED
    BY <1>5, <2>1 DEF Seen
<1>8. SUFFICES /\ entered' \subseteq entered \cup {p}
               /\ pages_to_CI' <= 1 + Cardinality(Staying')
               /\ ~eviction_candidate_was_hot' => pages_to_CI' <= Cardinality(Staying')
  BY <1>5, <1>6 DEF Stayed, MovedPagesAreInPool, Staying
<1>9. ASSUME Staying \subseteq Staying'
      PROVE  Cardinality(Staying) <= Cardinality(Staying')
  BY <1>4, <1>9, FS_Subset
<1>10. /\ IsFiniteSet(Staying \cup {p})
       /\ Cardinality(Staying \cup {p}) = Cardinality(Staying) + 1
  BY <1>4, <1>7, FS_AddElement DEF Staying
<1>11. CASE UNCHANGED island
  <2>1. Staying' = Staying /\ entered' = entered
    BY <1>11 DEF island, Staying, Pool
  <2>. QED
    BY <1>5, <1>11, <2>1 DEF island
<1>12. CASE \E o \in Sockets : MoveCI(p, o)
  <2>. PICK o \in Sockets : MoveCI(p, o)
    BY <1>12
  <2>1. /\ page_owner_CI' = [page_owner_CI EXCEPT ![p] = o]
        /\ UNCHANGED <<pages_to_CI, eviction_candidate_was_hot, entered>>
    BY DEF MoveCI
  <2>2. Staying \subseteq Staying'
    BY <1>7, <2>1 DEF Staying, Pool
  <2>. QED
    BY <1>4, <1>5, <1>9, <2>1, <2>2
<1>13. CASE EnterPool(p)
  <2>1. /\ page_owner_CI' = [page_owner_CI EXCEPT ![p] = CXO]
        /\ pages_to_CI' = pages_to_CI + 1
        /\ entered' = entered \cup {p}
        /\ ~eviction_candidate_was_hot
    BY <1>13 DEF EnterPool, EntersPool, ForPool
  <2>2. Staying \cup {p} \subseteq Staying'
    BY <1>1, <2>1 DEF Staying, Pool
  <2>3. Cardinality(Staying) + 1 <= Cardinality(Staying')
    BY <1>4, <1>10, <2>2, FS_Subset
  <2>. QED
    BY <1>4, <1>5, <2>1, <2>3
<1>14. CASE \E k \in Nat, o \in Sockets : Swaps(p, k, o)
  <2>. PICK f \in Nat, o \in Sockets : Swaps(p, f, o)
    BY <1>14
  <2>0. PICK v : v = sc[f]
    OBVIOUS
  <2>1. /\ f \in 1 .. eviction_it
        /\ page_owner_CI' = [q \in DOMAIN page_owner_CI |->
                                IF q = v THEN o
                                ELSE IF q = p THEN CXO ELSE page_owner_CI[q]]
        /\ pages_to_CI' = pages_to_CI + 1
        /\ entered' = entered \cup {p}
        /\ ~eviction_candidate_was_hot
        /\ ~eviction_candidate_was_hot' => here < f
    BY <2>0 DEF Swaps, EntersPool, ForPool
  <2>2. f \in 1 .. Len(sc)
    BY <1>2, <2>1
  <2>3. PICK G : G = Staying \cup {p}
    OBVIOUS
  <2>4. G \ {v} \subseteq Staying'
    BY <1>1, <2>1, <2>3 DEF Staying, Pool
  <2>5. IsFiniteSet(G) /\ Cardinality(G) = Cardinality(Staying) + 1
    BY <1>10, <2>3
  <2>6. Cardinality(G \ {v}) <= Cardinality(Staying')
    BY <1>4, <2>4, FS_Subset
  <2>7. Cardinality(G \ {v}) = IF v \in G THEN Cardinality(G) - 1 ELSE Cardinality(G)
    BY <2>5, FS_RemoveElement
  <2>8. pages_to_CI' <= 1 + Cardinality(Staying')
    BY <1>4, <1>5, <2>1, <2>5, <2>6, <2>7
  <2>9. ASSUME ~eviction_candidate_was_hot'
        PROVE  pages_to_CI' <= Cardinality(Staying')
    <3>1. here < f
      BY <2>1, <2>9
    <3>2. v # p /\ \A k \in 1 .. here - 1 : sc[k] # v
      BY <1>1, <1>2, <2>0, <2>2, <3>1
    <3>3. v \notin G
      BY <1>5, <2>3, <3>2 DEF Staying, Seen
    <3>. QED
      BY <1>4, <1>5, <2>1, <2>5, <2>6, <2>7, <3>3
  <2>. QED
    BY <2>1, <2>8, <2>9
<1>. QED
  BY <1>1, <1>11, <1>12, <1>13, <1>14 DEF IslandStep

\* Of the pages that a phase moves to the pool and reports, all but one are in it as
\* long as the loop runs: only the eviction that closes the pool can take one of them.
THEOREM MovedPagesStay ==
    ProgramSpec => []MovedPagesAreInPool
<1>1. ASSUME TypeOK, pages_to_CI = 0, inLoop => entered = {}
      PROVE  Stayed
  <2>1. Cardinality(Staying) \in Nat
    BY <1>1, StayingFinite
  <2>. QED
    BY <1>1, <2>1 DEF Stayed, MovedPagesAreInPool, Staying
<1>2. ProgramInit => Stayed
  BY <1>1, InitIInv DEF IInv, ProgramInit, Init
<1>3. ASSUME IInv, Stayed, [Generate \/ Simulate]_simVars
      PROVE  Stayed'
  <2>1. CASE UNCHANGED simVars
    BY <1>3, <2>1 DEF simVars, vars, persistent, island, Stayed, MovedPagesAreInPool,
                      Staying, Pool, Seen
  <2>2. CASE \E p : Iteration(p)
    BY <1>3, <2>2, IterationStayed
  <2>3. CASE Enters \/ Waits \/ Leaves
    <3>1. TypeOK'
      BY <1>3, StepIInv, StutterIInv DEF IInv
    <3>2. pages_to_CI' = 0 /\ (inLoop' => entered' = {})
      <4>1. ~inLoop => pages_to_CI = 0
        BY <1>3 DEF IInv, Control, Between
      <4>. QED
        BY <2>3, <4>1 DEF Enters, Waits, Leaves, NoCounts
    <3>3. Cardinality(Staying') \in Nat
      BY <3>1, StayingFinite
    <3>. QED
      BY <3>2, <3>3 DEF Stayed, MovedPagesAreInPool, Staying
  <2>. QED
    BY <1>3, <2>1, <2>2, <2>3, StepKinds
<1>4. Stayed => MovedPagesAreInPool
  BY DEF Stayed
<1>. QED
  BY InitIInv, StepIInv, StutterIInv, <1>2, <1>3, <1>4, PTL DEF ProgramSpec

=============================================================================
