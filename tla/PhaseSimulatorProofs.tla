------------------------ MODULE PhaseSimulatorProofs ------------------------
(***************************************************************************)
(* What the statistics of the simulator of phases say, for any number of   *)
(* sockets and pages, any grouping of sockets and any accesses.  A socket  *)
(* is accounted by adding, to each entry of each array, a sum over some of *)
(* the pages that it uses.  The sums of the arrays grow by sums over the   *)
(* same pages, sorted in different ways: by the kind of access, by the     *)
(* number of sharers, by hops, by owner.                                   *)
(***************************************************************************)
EXTENDS PoolMigrationProofs, SumTheorems

-----------------------------------------------------------------------------
(* The accesses of a phase, summed in several ways.                        *)

\* The pages that are counted for s
UsedBy(s) == {p \in Pages : s \in SharersOf(accesses, p)}

WithSharers(Q, n) == {p \in Q : Sharers(p) = n}

\* What is read of the accesses of a phase are numbers.
LEMMA AccessesAreCounts ==
    ASSUME TypeOK, NEW s \in Sockets, NEW p \in Pages
    PROVE  /\ accesses[s][p].r \in Nat /\ accesses[s][p].w \in Nat
           /\ AllRequests(s)[p] = accesses[s][p].r + accesses[s][p].w
           /\ Requests("r", s)[p] = accesses[s][p].r
           /\ Requests("w", s)[p] = accesses[s][p].w
           /\ AccessCounts("W", s)[p] = accesses[s][p].w
           /\ AccessCounts("RtoRW", s)[p] = IF IsWritten(p) THEN accesses[s][p].r ELSE 0
           /\ AccessCounts("RO", s)[p] = IF IsWritten(p) THEN 0 ELSE accesses[s][p].r
           /\ AccessCounts("all", s) = AllRequests(s)
<1>1. accesses \in [Sockets -> [Pages -> [r : Nat, w : Nat]]]
  <2>1. NoAccesses \in [Sockets -> [Pages -> [r : Nat, w : Nat]]]
    BY DEF NoAccesses
  <2>2. accesses \in Phases \cup {NoAccesses}
    BY DEF TypeOK
  <2>. QED
    BY <2>1, <2>2, PoolAssumption
<1>2. accesses[s][p] \in [r : Nat, w : Nat]
  BY <1>1
<1>3. accesses[s][p].r \in Nat /\ accesses[s][p].w \in Nat
  BY <1>2
<1>4. /\ AllRequests(s)[p] = accesses[s][p].r + accesses[s][p].w
      /\ Requests("r", s)[p] = accesses[s][p].r
      /\ Requests("w", s)[p] = accesses[s][p].w
  BY DEF AllRequests, Requests, AccsOf
<1>5. /\ AccessesOf("W", s, p) = accesses[s][p].w
      /\ AccessesOf("RtoRW", s, p) = IF IsWritten(p) THEN accesses[s][p].r ELSE 0
      /\ AccessesOf("RO", s, p) = IF IsWritten(p) THEN 0 ELSE accesses[s][p].r
  <2>1. IsWritten(p) \in BOOLEAN
    BY DEF IsWritten
  <2>2. CASE IsWritten(p) = TRUE
    BY <2>2 DEF AccessesOf
  <2>3. CASE IsWritten(p) = FALSE
    BY <2>3 DEF AccessesOf
  <2>. QED
    BY <2>1, <2>2, <2>3
<1>6. \A k : AccessCounts(k, s)[p] = AccessesOf(k, s, p)
  BY DEF AccessCounts
<1>7. AccessCounts("all", s) = AllRequests(s)
  BY DEF AccessCounts, AllRequests, AccessesOf
<1>. QED
  BY <1>3, <1>4, <1>5, <1>6, <1>7

\* They are numbers over any set of pages, which is finite.
LEMMA RequestsAreCounts ==
    ASSUME TypeOK, NEW s \in Sockets, NEW Q \in SUBSET Pages
    PROVE  /\ IsFiniteSet(Q)
           /\ Counts(AllRequests(s), Q)
           /\ \A rw \in {"r", "w"} : Counts(Requests(rw, s), Q)
           /\ \A k \in KindsAndTotal : Counts(AccessCounts(k, s), Q)
<1>1. IsFiniteSet(Q)
  BY PoolAssumption, FS_Subset
<1>2. ASSUME NEW p \in Q
      PROVE  /\ AllRequests(s)[p] \in Nat
             /\ Requests("r", s)[p] \in Nat /\ Requests("w", s)[p] \in Nat
             /\ AccessCounts("W", s)[p] \in Nat
             /\ AccessCounts("RtoRW", s)[p] \in Nat
             /\ AccessCounts("RO", s)[p] \in Nat
  <2>1. PICK u \in Nat, v \in Nat : u = accesses[s][p].r /\ v = accesses[s][p].w
    BY AccessesAreCounts
  <2>2. /\ AllRequests(s)[p] = u + v
        /\ Requests("r", s)[p] = u
        /\ Requests("w", s)[p] = v
        /\ AccessCounts("W", s)[p] = v
        /\ AccessCounts("RtoRW", s)[p] = IF IsWritten(p) THEN u ELSE 0
        /\ AccessCounts("RO", s)[p] = IF IsWritten(p) THEN 0 ELSE u
    BY <2>1, AccessesAreCounts
  <2>. QED
    BY <2>2
<1>3. Q # {} => AccessCounts("all", s) = AllRequests(s)
  BY AccessesAreCounts
<1>4. /\ Counts(AllRequests(s), Q)
      /\ \A rw \in {"r", "w"} : Counts(Requests(rw, s), Q)
      /\ \A k \in Kinds : Counts(AccessCounts(k, s), Q)
  BY <1>2 DEF Counts, Kinds
<1>5. Counts(AccessCounts("all", s), Q)
  BY <1>3, <1>4 DEF Counts
<1>. QED
  BY <1>1, <1>4, <1>5 DEF KindsAndTotal

\* The accesses of a socket are its reads and writes, and those of the three kinds.
LEMMA SumsByKind ==
    ASSUME TypeOK, NEW s \in Sockets, NEW Q \in SUBSET Pages
    PROVE  /\ SumFunctionOnSet(AllRequests(s), Q)
                = SumFunctionOnSet(Requests("r", s), Q) + SumFunctionOnSet(Requests("w", s), Q)
           /\ SumFunctionOnSet(AllRequests(s), Q)
                = SumFunctionOnSet(AccessCounts("W", s), Q)
                    + SumFunctionOnSet(AccessCounts("RtoRW", s), Q)
                    + SumFunctionOnSet(AccessCounts("RO", s), Q)
<1>1. PICK f : f = AllRequests(s)
  OBVIOUS
<1>2. PICK g1 : g1 = Requests("r", s)
  OBVIOUS
<1>3. PICK g2 : g2 = Requests("w", s)
  OBVIOUS
<1>4. PICK h1 : h1 = AccessCounts("RtoRW", s)
  OBVIOUS
<1>5. PICK h2 : h2 = AccessCounts("RO", s)
  OBVIOUS
<1>6. PICK h3 : h3 = AccessCounts("W", s)
  OBVIOUS
<1>7. /\ IsFiniteSet(Q) /\ Counts(f, Q) /\ Counts(g1, Q) /\ Counts(g2, Q)
      /\ Counts(h1, Q) /\ Counts(h2, Q) /\ Counts(h3, Q)
  BY <1>1, <1>2, <1>3, <1>4, <1>5, <1>6, RequestsAreCounts DEF Kinds, KindsAndTotal
<1>8. ASSUME NEW p \in Q
      PROVE  f[p] = g1[p] + g2[p] /\ g1[p] = h1[p] + h2[p] /\ g2[p] = h3[p]
  <2>1. PICK u \in Nat, v \in Nat : u = accesses[s][p].r /\ v = accesses[s][p].w
    BY AccessesAreCounts
  <2>2. /\ f[p] = u + v
        /\ g1[p] = u
        /\ g2[p] = v
        /\ h3[p] = v
        /\ h1[p] = IF IsWritten(p) THEN u ELSE 0
        /\ h2[p] = IF IsWritten(p) THEN 0 ELSE u
    BY <1>1, <1>2, <1>3, <1>4, <1>5, <1>6, <2>1, AccessesAreCounts
  <2>3. u = u + 0 /\ u = 0 + u
    OBVIOUS
  <2>. QED
    BY <2>2, <2>3
<1>9. SumFunctionOnSet(f, Q) = SumFunctionOnSet(g1, Q) + SumFunctionOnSet(g2, Q)
  BY <1>7, <1>8, SumPlus
<1>10. SumFunctionOnSet(g1, Q) = SumFunctionOnSet(h1, Q) + SumFunctionOnSet(h2, Q)
  BY <1>7, <1>8, SumPlus
<1>11. SumFunctionOnSet(g2, Q) = SumFunctionOnSet(h3, Q)
  BY <1>7, <1>8, SumSame
<1>12. PICK a \in Nat, b \in Nat, c \in Nat :
          /\ a = SumFunctionOnSet(h1, Q) /\ b = SumFunctionOnSet(h2, Q)
          /\ c = SumFunctionOnSet(h3, Q)
  BY <1>7, SumType
<1>13. (a + b) + c = c + a + b
  OBVIOUS
<1>. QED
  BY <1>1, <1>2, <1>3, <1>4, <1>5, <1>6, <1>9, <1>10, <1>11, <1>12, <1>13

\* A page has some number of sharers, for which the histograms have an entry.
LEMMA SharersAreCounted ==
    ASSUME NEW p \in Pages
    PROVE  Sharers(p) \in SharerCounts
<1>1. IsFiniteSet(0 .. N_SOCKETS - 1) /\ Cardinality(0 .. N_SOCKETS - 1) = N_SOCKETS
  <2>1. PICK b \in Int : b = N_SOCKETS - 1 /\ b + 1 = N_SOCKETS /\ b >= 0
    BY PoolAssumption
  <2>2. IsFiniteSet(0 .. b) /\ Cardinality(0 .. b) = b + 1
    BY <2>1, FS_Interval
  <2>. QED
    BY <2>1, <2>2
<1>2. SharersOf(accesses, p) \subseteq 0 .. N_SOCKETS - 1
  BY DEF SharersOf, Sockets
<1>3. Cardinality(SharersOf(accesses, p)) \in Nat
        /\ Cardinality(SharersOf(accesses, p)) <= N_SOCKETS
  BY <1>1, <1>2, FS_Subset, FS_CardinalityType
<1>. QED
  BY <1>3, PoolAssumption DEF Sharers, SharerCounts, N_SOCKETS_OFFSET

\* The entries of a histogram are finitely many.
LEMMA FiniteSharerCounts ==
    IsFiniteSet(SharerCounts)
<1>1. PICK b \in Int : b = N_SOCKETS_OFFSET - 1
  BY PoolAssumption DEF N_SOCKETS_OFFSET
<1>. QED
  BY <1>1, FS_Interval DEF SharerCounts

\* Sums over the pages sorted by sharers.
LEMMA SumsBySharers ==
    ASSUME NEW Q \in SUBSET Pages, NEW f, Counts(f, Q), IsFiniteSet(Q),
           NEW g, \A n \in SharerCounts : g[n] = SumFunctionOnSet(f, WithSharers(Q, n))
    PROVE  SumFunctionOnSet(g, SharerCounts) = SumFunctionOnSet(f, Q)
<1>1. PICK c : c = [p \in Q |-> Sharers(p)]
  OBVIOUS
<1>2. \A p \in Q : c[p] = Sharers(p) /\ c[p] \in SharerCounts
  BY <1>1, SharersAreCounted
<1>3. \A n \in SharerCounts : g[n] = SumFunctionOnSet(f, Class(c, Q, n))
  <2>. SUFFICES ASSUME NEW n \in SharerCounts
                PROVE  WithSharers(Q, n) = Class(c, Q, n)
    OBVIOUS
  <2>. QED
    BY <1>2 DEF WithSharers, Class
<1>. QED
  BY <1>2, <1>3, FiniteSharerCounts, SumByClass

-----------------------------------------------------------------------------
(* What the accounting of a socket adds.                                   *)

\* The owners by which a phase is accounted: those saved, once they are
OwnerOf(m) ==
    IF inLoop THEN Saved(m) ELSE IF m = "island" THEN page_owner_CI ELSE page_owner

\* The pages to which the accesses of s travel h hops
Asked(m, s, h) == {p \in UsedBy(s) : gethop(s, OwnerOf(m)[p]) = h}

InPoolOf(s) == {p \in UsedBy(s) : page_owner_CI[p] = CXO}

LocalTo(m, s) == {p \in UsedBy(s) : m = "island" => page_owner_CI[p] # CXO}

OwnedBy(m, s, o) == {p \in LocalTo(m, s) : page_owner[p] = o}

\* Each entry of the arrays grows by a sum over pages that s uses
AccountsFor(s) ==
    /\ \A m \in Maps, k \in Kinds, n \in SharerCounts, h \in Hops :
          hop_hist'[m][k][n][h] = hop_hist[m][k][n][h]
             + SumFunctionOnSet(AccessCounts(k, s), WithSharers(Asked(m, s, h)', n))
    /\ \A k \in KindsAndTotal, n \in SharerCounts :
          hist_access_sharers'[k][n] = hist_access_sharers[k][n]
             + SumFunctionOnSet(AccessCounts(k, s), WithSharers(UsedBy(s), n))
    /\ \A m \in Maps, rw \in {"r", "w"}, o \in Sockets :
          link_traffic'[m][rw][s][o] = link_traffic[m][rw][s][o]
             + SumFunctionOnSet(Requests(rw, s), OwnedBy(m, s, o)')
    /\ \A m \in Maps :
          mem_traffic'[m][s] = mem_traffic[m][s]
             + SumFunctionOnSet(AllRequests(s), LocalTo(m, s)')
    /\ \A rw \in {"r", "w"} :
          CI_traffic'[rw][s] = CI_traffic[rw][s]
             + SumFunctionOnSet(Requests(rw, s), InPoolOf(s)')

\* and what the arrays have for other sockets stays
KeepsOthers(s) ==
    \A t \in Sockets \ {s} :
       /\ \A m \in Maps :
             /\ mem_traffic'[m][t] = mem_traffic[m][t]
             /\ \A rw \in {"r", "w"}, o \in Sockets :
                   link_traffic'[m][rw][t][o] = link_traffic[m][rw][t][o]
       /\ \A rw \in {"r", "w"} : CI_traffic'[rw][t] = CI_traffic[rw][t]

StatsOK ==
    /\ hop_hist \in [Maps -> [Kinds -> [SharerCounts -> [Hops -> Nat]]]]
    /\ hist_access_sharers \in [KindsAndTotal -> [SharerCounts -> Nat]]
    /\ link_traffic \in [Maps -> [{"r", "w"} -> [Sockets -> [Sockets -> Nat]]]]
    /\ CI_traffic \in [{"r", "w"} -> [Sockets -> Nat]]
    /\ mem_traffic \in [Maps -> [Sockets -> Nat]]

\* An owner found for a page that s uses is in the maps, and is the one that the
\* accesses are counted by.
LEMMA AccountSocketOwners ==
    ASSUME IInv, AccountSocket
    PROVE  \E newCI :
             /\ i_socket \in Sockets
             /\ \A p \in UsedBy(i_socket) : newCI[p] = page_owner_CI'[p]
             /\ AddTraffic(UsedBy(i_socket), newCI)
             /\ ~inLoop /\ ~inLoop' /\ UNCHANGED accesses
<1>. DEFINE pages == {p \in Pages : i_socket \in SharersOf(accesses, p)}
<1>0. i_socket \in Sockets /\ ~inLoop /\ ~inLoop' /\ UNCHANGED accesses
  <2>1. i_socket < N_SOCKETS /\ UNCHANGED <<inLoop, accesses>>
    BY DEF AccountSocket
  <2>. QED
    BY <2>1, PoolAssumption DEF IInv, Control, Sockets
<1>1. PICK newCI : newCI = [p \in pages |-> IslandOwner(p)]
  OBVIOUS
<1>2. /\ page_owner_CI' = FirstTouch(page_owner_CI, newCI)
      /\ AddTraffic(pages, newCI)
  BY <1>1 DEF AccountSocket
<1>3. pages = UsedBy(i_socket)
  BY DEF UsedBy
<1>4. ASSUME NEW p \in pages
      PROVE  newCI[p] = page_owner_CI'[p]
  <2>1. DOMAIN newCI = pages /\ newCI[p] = IslandOwner(p)
    BY <1>1
  <2>2. page_owner_CI'[p] =
           IF p \in DOMAIN page_owner_CI THEN page_owner_CI[p] ELSE newCI[p]
    BY <1>2, <2>1 DEF FirstTouch
  <2>. QED
    BY <2>1, <2>2 DEF IslandOwner
<1>. QED
  BY <1>0, <1>2, <1>3, <1>4

\* So the arrays grow as AccountsFor has it.
LEMMA AccountSocketAdds ==
    ASSUME IInv, StatsOK, AccountSocket
    PROVE  \E s \in Sockets : s = i_socket /\ AccountsFor(s) /\ KeepsOthers(s)
<1>a. PICK newCI :
             /\ i_socket \in Sockets
             /\ \A p \in UsedBy(i_socket) : newCI[p] = page_owner_CI'[p]
             /\ AddTraffic(UsedBy(i_socket), newCI)
             /\ ~inLoop /\ ~inLoop' /\ UNCHANGED accesses
  BY AccountSocketOwners
<1>b. PICK s \in Sockets : s = i_socket
  BY <1>a
<1>1. /\ s = i_socket
      /\ \A p \in UsedBy(s) : newCI[p] = page_owner_CI'[p]
      /\ AddTraffic(UsedBy(s), newCI)
      /\ ~inLoop /\ ~inLoop' /\ UNCHANGED accesses
  BY <1>a, <1>b
<1>2. UsedBy(s)' = UsedBy(s)
  BY <1>1 DEF UsedBy, SharersOf, AccsOf
<1>3. ASSUME NEW m \in Maps, NEW k \in Kinds, NEW n \in SharerCounts, NEW h \in Hops
      PROVE  hop_hist'[m][k][n][h] = hop_hist[m][k][n][h]
             + SumFunctionOnSet(AccessCounts(k, s), WithSharers(Asked(m, s, h)', n))
  <2>1. PICK Q : Q = {p \in UsedBy(s) : Sharers(p) = n
                    /\ gethop(s, IF m = "island" THEN newCI[p] ELSE page_owner'[p]) = h}
    OBVIOUS
  <2>2. hop_hist'[m][k][n][h] = hop_hist[m][k][n][h] + SumFunctionOnSet(AccessCounts(k, s), Q)
    BY <1>1, <2>1 DEF AddTraffic
  <2>3. WithSharers(Asked(m, s, h)', n) = Q
    <3>1. \A p \in UsedBy(s) : (IF m = "island" THEN newCI[p] ELSE page_owner'[p])
                                  = OwnerOf(m)'[p]
      BY <1>1 DEF OwnerOf
    <3>2. PICK q : q = OwnerOf(m)'
      OBVIOUS
    <3>3. Q = {p \in UsedBy(s) : Sharers(p) = n /\ gethop(s, q[p]) = h}
      BY <2>1, <3>1, <3>2
    <3>4. Asked(m, s, h)' = {p \in UsedBy(s) : gethop(s, q[p]) = h}
      BY <1>2, <3>2 DEF Asked, gethop
    <3>. QED
      BY <3>3, <3>4 DEF WithSharers
  <2>. QED
    BY <2>2, <2>3
<1>4. ASSUME NEW k \in KindsAndTotal, NEW n \in SharerCounts
      PROVE  hist_access_sharers'[k][n] = hist_access_sharers[k][n]
             + SumFunctionOnSet(AccessCounts(k, s), WithSharers(UsedBy(s), n))
  BY <1>1 DEF AddTraffic, WithSharers
<1>5. ASSUME NEW m \in Maps
      PROVE  /\ LocalTo(m, s)' = {p \in UsedBy(s) : m = "island" => InMemory(newCI[p])}
             /\ InPoolOf(s)' = {p \in UsedBy(s) : newCI[p] = CXO}
  BY <1>1, <1>2 DEF LocalTo, InPoolOf, InMemory
<1>6. ASSUME NEW m \in Maps, NEW rw \in {"r", "w"}, NEW t \in Sockets, NEW o \in Sockets
      PROVE  link_traffic'[m][rw][t][o] = link_traffic[m][rw][t][o]
              + SumFunctionOnSet(Requests(rw, t),
                                 {p \in LocalTo(m, s)' : t = s /\ page_owner'[p] = o})
  BY <1>1, <1>5 DEF AddTraffic
<1>7. ASSUME NEW m \in Maps, NEW t \in Sockets
      PROVE  mem_traffic'[m][t] = mem_traffic[m][t]
              + SumFunctionOnSet(AllRequests(t), {p \in LocalTo(m, s)' : t = s})
  BY <1>1, <1>5 DEF AddTraffic
<1>8. ASSUME NEW rw \in {"r", "w"}, NEW t \in Sockets
      PROVE  CI_traffic'[rw][t] = CI_traffic[rw][t]
              + SumFunctionOnSet(Requests(rw, t), {p \in InPoolOf(s)' : t = s})
  <2>1. {p \in InPoolOf(s)' : t = s} = {p \in UsedBy(s) : t = s /\ newCI[p] = CXO}
    <3>1. PICK m \in Maps : m = "island"
      BY DEF Maps
    <3>. QED
      BY <1>5, <3>1
  <2>. QED
    BY <1>1, <2>1 DEF AddTraffic
<1>9. AccountsFor(s)
  <2>1. \A m \in Maps, o \in Sockets :
           {p \in LocalTo(m, s)' : s = s /\ page_owner'[p] = o} = OwnedBy(m, s, o)'
    BY DEF OwnedBy
  <2>2. \A S : {p \in S : s = s} = S
    OBVIOUS
  <2>3. \A m \in Maps, rw \in {"r", "w"}, o \in Sockets :
          link_traffic'[m][rw][s][o] = link_traffic[m][rw][s][o]
             + SumFunctionOnSet(Requests(rw, s), OwnedBy(m, s, o)')
    BY <1>6, <2>1
  <2>4. \A m \in Maps :
          mem_traffic'[m][s] = mem_traffic[m][s]
             + SumFunctionOnSet(AllRequests(s), LocalTo(m, s)')
    BY <1>7, <2>2
  <2>5. \A rw \in {"r", "w"} :
          CI_traffic'[rw][s] = CI_traffic[rw][s]
             + SumFunctionOnSet(Requests(rw, s), InPoolOf(s)')
    BY <1>8, <2>2
  <2>. QED
    BY <1>3, <1>4, <2>3, <2>4, <2>5 DEF AccountsFor
<1>10. KeepsOthers(s)
  <2>. SUFFICES ASSUME NEW t \in Sockets \ {s}
                PROVE  /\ \A m \in Maps :
                            /\ mem_traffic'[m][t] = mem_traffic[m][t]
                            /\ \A rw \in {"r", "w"}, o \in Sockets :
                                  link_traffic'[m][rw][t][o] = link_traffic[m][rw][t][o]
                       /\ \A rw \in {"r", "w"} : CI_traffic'[rw][t] = CI_traffic[rw][t]
    BY DEF KeepsOthers
  <2>1. \A f : SumFunctionOnSet(f, {}) = 0
    BY SumEmpty
  <2>2. \A S : {p \in S : t = s} = {}
    OBVIOUS
  <2>3. ASSUME NEW m \in Maps
        PROVE  mem_traffic'[m][t] = mem_traffic[m][t]
    <3>1. mem_traffic'[m][t] = mem_traffic[m][t] + 0
      BY <1>7, <2>1, <2>2
    <3>. QED
      BY <3>1 DEF StatsOK
  <2>4. ASSUME NEW m \in Maps, NEW rw \in {"r", "w"}, NEW o \in Sockets
        PROVE  link_traffic'[m][rw][t][o] = link_traffic[m][rw][t][o]
    <3>1. link_traffic'[m][rw][t][o] = link_traffic[m][rw][t][o] + 0
      <4>1. {p \in LocalTo(m, s)' : t = s /\ page_owner'[p] = o} = {}
        OBVIOUS
      <4>2. t \in Sockets
        OBVIOUS
      <4>3. link_traffic'[m][rw][t][o] = link_traffic[m][rw][t][o]
              + SumFunctionOnSet(Requests(rw, t), {})
        BY <1>6, <4>1, <4>2
      <4>. QED
        BY <2>1, <4>3
    <3>2. link_traffic[m][rw][t][o] \in Nat
      BY DEF StatsOK
    <3>. QED
      BY <3>1, <3>2
  <2>5. ASSUME NEW rw \in {"r", "w"}
        PROVE  CI_traffic'[rw][t] = CI_traffic[rw][t]
    <3>1. CI_traffic'[rw][t] = CI_traffic[rw][t] + 0
      BY <1>8, <2>1, <2>2
    <3>2. CI_traffic[rw][t] \in Nat
      BY DEF StatsOK
    <3>. QED
      BY <3>1, <3>2
  <2>. QED
    BY <2>3, <2>4, <2>5
<1>. QED
  BY <1>b, <1>9, <1>10

\* A sum over some pages is a number.
LEMMA RequestSums ==
    ASSUME TypeOK, NEW s \in Sockets, NEW Q \in SUBSET Pages
    PROVE  /\ SumFunctionOnSet(AllRequests(s), Q) \in Nat
           /\ \A rw \in {"r", "w"} : SumFunctionOnSet(Requests(rw, s), Q) \in Nat
           /\ \A k \in KindsAndTotal : SumFunctionOnSet(AccessCounts(k, s), Q) \in Nat
BY RequestsAreCounts, SumType

\* The entries stay numbers.
LEMMA AccountSocketStats ==
    ASSUME IInv, StatsOK, AccountSocket
    PROVE  StatsOK'
<1>0. TypeOK
  BY DEF IInv
<1>1. PICK newCI :
             /\ i_socket \in Sockets
             /\ AddTraffic(UsedBy(i_socket), newCI)
  BY AccountSocketOwners
<1>2. PICK pages \in SUBSET Pages : pages = UsedBy(i_socket)
  BY DEF UsedBy
<1>3. AddTraffic(pages, newCI) /\ i_socket \in Sockets
  BY <1>1, <1>2
<1>5. hop_hist' \in [Maps -> [Kinds -> [SharerCounts -> [Hops -> Nat]]]]
  <2>1. hop_hist' =
          [m \in Maps |-> [k \in Kinds |-> [n \in SharerCounts |-> [h \in Hops |-> hop_hist[m][k][n][h] + SumFunctionOnSet(AccessCounts(k, i_socket),
             {p \in pages : Sharers(p) = n /\ gethop(i_socket, IF m = "island" THEN newCI[p] ELSE page_owner'[p]) = h})]]]]
    BY <1>3 DEF AddTraffic
  <2>2. ASSUME NEW m \in Maps, NEW k \in Kinds, NEW n \in SharerCounts, NEW h \in Hops
        PROVE  hop_hist[m][k][n][h] + SumFunctionOnSet(AccessCounts(k, i_socket),
             {p \in pages : Sharers(p) = n /\ gethop(i_socket, IF m = "island" THEN newCI[p] ELSE page_owner'[p]) = h}) \in Nat
    <3>1. PICK Q \in SUBSET Pages :
             Q = {p \in pages : Sharers(p) = n /\ gethop(i_socket, IF m = "island" THEN newCI[p] ELSE page_owner'[p]) = h}
      OBVIOUS
    <3>2. SumFunctionOnSet(AccessCounts(k, i_socket), Q) \in Nat
      BY <1>0, <1>3, RequestSums DEF KindsAndTotal
    <3>3. hop_hist[m][k][n][h] \in Nat
      BY DEF StatsOK
    <3>. QED
      BY <3>1, <3>2, <3>3
  <2>3. ASSUME NEW m \in Maps
        PROVE  hop_hist'[m] \in [Kinds -> [SharerCounts -> [Hops -> Nat]]]
    <3>1. ASSUME NEW k \in Kinds
          PROVE  hop_hist'[m][k] \in [SharerCounts -> [Hops -> Nat]]
      <4>1. hop_hist'[m][k] =
          [n \in SharerCounts |-> [h \in Hops |-> hop_hist[m][k][n][h] + SumFunctionOnSet(AccessCounts(k, i_socket),
             {p \in pages : Sharers(p) = n /\ gethop(i_socket, IF m = "island" THEN newCI[p] ELSE page_owner'[p]) = h})]]
        BY <2>1
      <4>. QED
        BY <2>2, <4>1
    <3>2. hop_hist'[m] = [k \in Kinds |-> hop_hist'[m][k]]
      BY <2>1
    <3>. QED
      BY <3>1, <3>2
  <2>4. hop_hist' = [m \in Maps |-> hop_hist'[m]]
    BY <2>1
  <2>. QED
    BY <2>3, <2>4
<1>6. hist_access_sharers' \in [KindsAndTotal -> [SharerCounts -> Nat]]
  <2>1. hist_access_sharers' =
          [k \in KindsAndTotal |-> [n \in SharerCounts |-> hist_access_sharers[k][n] + SumFunctionOnSet(AccessCounts(k, i_socket),
             {p \in pages : Sharers(p) = n})]]
    BY <1>3 DEF AddTraffic
  <2>2. ASSUME NEW k \in KindsAndTotal, NEW n \in SharerCounts
        PROVE  hist_access_sharers[k][n] + SumFunctionOnSet(AccessCounts(k, i_socket),
             {p \in pages : Sharers(p) = n}) \in Nat
    <3>1. PICK Q \in SUBSET Pages :
             Q = {p \in pages : Sharers(p) = n}
      OBVIOUS
    <3>2. SumFunctionOnSet(AccessCounts(k, i_socket), Q) \in Nat
      BY <1>0, <1>3, RequestSums
    <3>3. hist_access_sharers[k][n] \in Nat
      BY DEF StatsOK
    <3>. QED
      BY <3>1, <3>2, <3>3
  <2>. QED
    BY <2>1, <2>2
<1>7. link_traffic' \in [Maps -> [{"r", "w"} -> [Sockets -> [Sockets -> Nat]]]]
  <2>1. link_traffic' =
          [m \in Maps |-> [rw \in {"r", "w"} |-> [s \in Sockets |-> [o \in Sockets |-> link_traffic[m][rw][s][o] + SumFunctionOnSet(Requests(rw, s),
             {p \in {p \in pages : m = "island" => InMemory(newCI[p])} : s = i_socket /\ page_owner'[p] = o})]]]]
    BY <1>3 DEF AddTraffic
  <2>2. ASSUME NEW m \in Maps, NEW rw \in {"r", "w"}, NEW s \in Sockets, NEW o \in Sockets
        PROVE  link_traffic[m][rw][s][o] + SumFunctionOnSet(Requests(rw, s),
             {p \in {p \in pages : m = "island" => InMemory(newCI[p])} : s = i_socket /\ page_owner'[p] = o}) \in Nat
    <3>1. PICK Q \in SUBSET Pages :
             Q = {p \in {p \in pages : m = "island" => InMemory(newCI[p])} : s = i_socket /\ page_owner'[p] = o}
      OBVIOUS
    <3>2. SumFunctionOnSet(Requests(rw, s), Q) \in Nat
      BY <1>0, <1>3, RequestSums
    <3>3. link_traffic[m][rw][s][o] \in Nat
      BY DEF StatsOK
    <3>. QED
      BY <3>1, <3>2, <3>3
  <2>3. ASSUME NEW m \in Maps
        PROVE  link_traffic'[m] \in [{"r", "w"} -> [Sockets -> [Sockets -> Nat]]]
    <3>1. ASSUME NEW rw \in {"r", "w"}
          PROVE  link_traffic'[m][rw] \in [Sockets -> [Sockets -> Nat]]
      <4>1. link_traffic'[m][rw] =
              [s \in Sockets |-> [o \in Sockets |-> link_traffic'[m][rw][s][o]]]
        BY <2>1
      <4>2. \A s \in Sockets, o \in Sockets : link_traffic'[m][rw][s][o] \in Nat
        BY <2>1, <2>2
      <4>. QED
        BY <4>1, <4>2
    <3>2. link_traffic'[m] = [rw \in {"r", "w"} |-> link_traffic'[m][rw]]
      BY <2>1
    <3>. QED
      BY <3>1, <3>2
  <2>4. link_traffic' = [m \in Maps |-> link_traffic'[m]]
    BY <2>1
  <2>. QED
    BY <2>3, <2>4
<1>8. mem_traffic' \in [Maps -> [Sockets -> Nat]]
  <2>1. mem_traffic' =
          [m \in Maps |-> [s \in Sockets |-> mem_traffic[m][s] + SumFunctionOnSet(AllRequests(s),
             {p \in {p \in pages : m = "island" => InMemory(newCI[p])} : s = i_socket})]]
    BY <1>3 DEF AddTraffic
  <2>2. ASSUME NEW m \in Maps, NEW s \in Sockets
        PROVE  mem_traffic[m][s] + SumFunctionOnSet(AllRequests(s),
             {p \in {p \in pages : m = "island" => InMemory(newCI[p])} : s = i_socket}) \in Nat
    <3>1. PICK Q \in SUBSET Pages :
             Q = {p \in {p \in pages : m = "island" => InMemory(newCI[p])} : s = i_socket}
      OBVIOUS
    <3>2. SumFunctionOnSet(AllRequests(s), Q) \in Nat
      BY <1>0, <1>3, RequestSums
    <3>3. mem_traffic[m][s] \in Nat
      BY DEF StatsOK
    <3>. QED
      BY <3>1, <3>2, <3>3
  <2>. QED
    BY <2>1, <2>2
<1>9. CI_traffic' \in [{"r", "w"} -> [Sockets -> Nat]]
  <2>1. CI_traffic' =
          [rw \in {"r", "w"} |-> [s \in Sockets |-> CI_traffic[rw][s] + SumFunctionOnSet(Requests(rw, s),
             {p \in pages : s = i_socket /\ newCI[p] = CXO})]]
    BY <1>3 DEF AddTraffic
  <2>2. ASSUME NEW rw \in {"r", "w"}, NEW s \in Sockets
        PROVE  CI_traffic[rw][s] + SumFunctionOnSet(Requests(rw, s),
             {p \in pages : s = i_socket /\ newCI[p] = CXO}) \in Nat
    <3>1. PICK Q \in SUBSET Pages :
             Q = {p \in pages : s = i_socket /\ newCI[p] = CXO}
      OBVIOUS
    <3>2. SumFunctionOnSet(Requests(rw, s), Q) \in Nat
      BY <1>0, <1>3, RequestSums
    <3>3. CI_traffic[rw][s] \in Nat
      BY DEF StatsOK
    <3>. QED
      BY <3>1, <3>2, <3>3
  <2>. QED
    BY <2>1, <2>2
<1>. QED
  BY <1>5, <1>6, <1>7, <1>8, <1>9 DEF StatsOK

-----------------------------------------------------------------------------
(* The sums of the arrays grow by sums over the same pages.                *)

\* There are three kinds.
LEMMA FiniteKinds ==
    IsFiniteSet(Kinds)
<1>1. IsFiniteSet({"W"}) /\ IsFiniteSet({"W"} \cup {"RtoRW"})
        /\ IsFiniteSet(({"W"} \cup {"RtoRW"}) \cup {"RO"})
  BY FS_Singleton, FS_AddElement
<1>2. Kinds = ({"W"} \cup {"RtoRW"}) \cup {"RO"}
  BY DEF Kinds
<1>. QED
  BY <1>1, <1>2

\* Over all kinds and numbers of sharers, the accesses of a socket to Q.
LEMMA SumsOverKinds ==
    ASSUME TypeOK, NEW s \in Sockets, NEW Q \in SUBSET Pages,
           NEW d, \A k \in Kinds, n \in SharerCounts :
                     d[<<k, n>>] = SumFunctionOnSet(AccessCounts(k, s), WithSharers(Q, n))
    PROVE  /\ IsFiniteSet(Kinds \X SharerCounts)
           /\ Counts(d, Kinds \X SharerCounts)
           /\ SumFunctionOnSet(d, Kinds \X SharerCounts)
                = SumFunctionOnSet(AllRequests(s), Q)
<1>1. IsFiniteSet(SharerCounts) /\ IsFiniteSet(Kinds)
  BY FiniteSharerCounts, FiniteKinds
<1>2. Counts(d, Kinds \X SharerCounts)
  <2>. SUFFICES ASSUME NEW k \in Kinds, NEW n \in SharerCounts
                PROVE  d[<<k, n>>] \in Nat
    BY DEF Counts
  <2>1. WithSharers(Q, n) \in SUBSET Pages
    BY DEF WithSharers
  <2>. QED
    BY <2>1, RequestSums DEF KindsAndTotal
<1>3. PICK r : r = [k \in Kinds |-> SumFunctionOnSet(Row(d, k, SharerCounts), SharerCounts)]
  OBVIOUS
<1>4. SumFunctionOnSet(d, Kinds \X SharerCounts) = SumFunctionOnSet(r, Kinds)
  <2>1. \A k \in Kinds : r[k] = SumFunctionOnSet(Row(d, k, SharerCounts), SharerCounts)
    BY <1>3
  <2>. QED
    BY <1>1, <1>2, <2>1, SumPairs
<1>5. ASSUME NEW k \in Kinds
      PROVE  r[k] = SumFunctionOnSet(AccessCounts(k, s), Q)
  <2>1. PICK g : g = Row(d, k, SharerCounts)
    OBVIOUS
  <2>2. PICK f : f = AccessCounts(k, s)
    OBVIOUS
  <2>3. \A n \in SharerCounts : g[n] = SumFunctionOnSet(f, WithSharers(Q, n))
    BY <2>1, <2>2 DEF Row
  <2>4. Counts(f, Q) /\ IsFiniteSet(Q)
    BY <2>2, RequestsAreCounts DEF KindsAndTotal
  <2>5. SumFunctionOnSet(g, SharerCounts) = SumFunctionOnSet(f, Q)
    BY <2>3, <2>4, SumsBySharers
  <2>. QED
    BY <1>3, <2>1, <2>2, <2>5
<1>6. Counts(r, Kinds)
  BY <1>5, RequestSums DEF Counts, KindsAndTotal
<1>7. SumFunctionOnSet(r, Kinds) = r["W"] + r["RtoRW"] + r["RO"]
  <2>1. Counts(r, {"W", "RtoRW", "RO"}) /\ Kinds = {"W", "RtoRW", "RO"}
    BY <1>6 DEF Kinds
  <2>2. "W" # "RtoRW" /\ "W" # "RO" /\ "RtoRW" # "RO"
    OBVIOUS
  <2>. QED
    BY <2>1, <2>2, SumThree
<1>8. SumFunctionOnSet(r, Kinds) = SumFunctionOnSet(AllRequests(s), Q)
  <2>1. "W" \in Kinds /\ "RtoRW" \in Kinds /\ "RO" \in Kinds
    BY DEF Kinds
  <2>2. SumFunctionOnSet(AllRequests(s), Q)
                = SumFunctionOnSet(AccessCounts("W", s), Q)
                    + SumFunctionOnSet(AccessCounts("RtoRW", s), Q)
                    + SumFunctionOnSet(AccessCounts("RO", s), Q)
    BY SumsByKind
  <2>3. /\ r["W"] = SumFunctionOnSet(AccessCounts("W", s), Q)
        /\ r["RtoRW"] = SumFunctionOnSet(AccessCounts("RtoRW", s), Q)
        /\ r["RO"] = SumFunctionOnSet(AccessCounts("RO", s), Q)
    BY <1>5, <2>1
  <2>. QED
    BY <1>7, <2>2, <2>3
<1>. QED
  BY <1>1, <1>2, <1>4, <1>8, FS_Product

\* The histograms of hops grow by the accesses of the socket that travel so far.
LEMMA HopCountGrows ==
    ASSUME TypeOK, StatsOK, NEW s \in Sockets, AccountsFor(s),
           NEW m \in Maps, NEW h \in Hops, Asked(m, s, h)' \in SUBSET Pages
    PROVE  HopCount(m, h)' = HopCount(m, h) + SumFunctionOnSet(AllRequests(s), Asked(m, s, h)')
<1>1. PICK Q \in SUBSET Pages : Q = Asked(m, s, h)'
  OBVIOUS
<1>2. PICK E : E = Kinds \X SharerCounts
  OBVIOUS
<1>3. PICK f : f = [e \in E |-> hop_hist[m][e[1]][e[2]][h]]
  OBVIOUS
<1>4. PICK g : g = [e \in E |-> hop_hist'[m][e[1]][e[2]][h]]
  OBVIOUS
<1>5. PICK d : d = [e \in E |->
                      SumFunctionOnSet(AccessCounts(e[1], s), WithSharers(Q, e[2]))]
  OBVIOUS
<1>6. \A k \in Kinds, n \in SharerCounts :
         d[<<k, n>>] = SumFunctionOnSet(AccessCounts(k, s), WithSharers(Q, n))
  BY <1>2, <1>5
<1>7. IsFiniteSet(E) /\ Counts(d, E)
        /\ SumFunctionOnSet(d, E) = SumFunctionOnSet(AllRequests(s), Q)
  BY <1>2, <1>6, SumsOverKinds
<1>8. ASSUME NEW e \in E
      PROVE  f[e] \in Nat /\ g[e] = f[e] + d[e]
  <2>1. PICK k \in Kinds, n \in SharerCounts : e = <<k, n>>
    BY <1>2
  <2>2. f[e] = hop_hist[m][k][n][h] /\ g[e] = hop_hist'[m][k][n][h]
    BY <1>3, <1>4, <2>1
  <2>3. hop_hist[m][k][n][h] \in Nat
    BY DEF StatsOK
  <2>4. hop_hist'[m][k][n][h] = hop_hist[m][k][n][h]
             + SumFunctionOnSet(AccessCounts(k, s), WithSharers(Q, n))
    BY <1>1 DEF AccountsFor
  <2>. QED
    BY <1>6, <2>1, <2>2, <2>3, <2>4
<1>9. Counts(f, E)
  BY <1>8 DEF Counts
<1>10. SumFunctionOnSet(g, E) = SumFunctionOnSet(f, E) + SumFunctionOnSet(d, E)
  BY <1>7, <1>8, <1>9, SumPlus
<1>11. HopCount(m, h) = SumFunctionOnSet(f, E) /\ HopCount(m, h)' = SumFunctionOnSet(g, E)
  <2>1. HopCount(m, h) = SumFunction(f) /\ HopCount(m, h)' = SumFunction(g)
    BY <1>2, <1>3, <1>4 DEF HopCount
  <2>2. DOMAIN f = E /\ DOMAIN g = E
    BY <1>3, <1>4
  <2>. QED
    BY <2>1, <2>2 DEF SumFunction
<1>. QED
  BY <1>1, <1>7, <1>10, <1>11

-----------------------------------------------------------------------------
(* The histograms of hops and the maps that are saved.                     *)

Hopped(m, h) == [s \in Sockets |-> SumFunctionOnSet(AllRequests(s), Asked(m, s, h))]

\* The histograms have the accesses of the sockets accounted so far, by the owners
\* of their pages now: a page that was accounted keeps its owner until the maps are
\* saved.
HopsAccounted ==
    \A m \in Maps, h \in Hops :
       HopCount(m, h) = SumFunctionOnSet(Hopped(m, h), 0 .. i_socket - 1)

\* The sockets accounted keep the owners of their pages.
LEMMA OwnersKept ==
    ASSUME IInv, program = "simulator", accesses # NoAccesses, AccountSocket,
           NEW t \in Sockets, t < i_socket, NEW m \in Maps, NEW h \in Hops
    PROVE  Asked(m, t, h)' = Asked(m, t, h)
<1>1. ~inLoop /\ ~inLoop' /\ UNCHANGED accesses
  BY AccountSocketOwners
<1>2. Grows
  BY AccountSocketGrows
<1>3. UsedBy(t)' = UsedBy(t)
  BY <1>1 DEF UsedBy, SharersOf, AccsOf
<1>4. ASSUME NEW p \in UsedBy(t)
      PROVE  OwnerOf(m)'[p] = OwnerOf(m)[p]
  <2>1. p \in DOMAIN page_owner_CI
    BY <1>1 DEF IInv, Control, Between, UsedBy
  <2>2. p \in DOMAIN page_owner
    BY <2>1, TypeOKGivesMaps DEF IInv, MapsOK
  <2>3. page_owner'[p] = page_owner[p] /\ page_owner_CI'[p] = page_owner_CI[p]
    BY <1>2, <2>1, <2>2 DEF Grows
  <2>. QED
    BY <1>1, <2>3 DEF OwnerOf
<1>5. PICK q : q = OwnerOf(m)'
  OBVIOUS
<1>6. Asked(m, t, h)' = {p \in UsedBy(t) : gethop(t, q[p]) = h}
  BY <1>3, <1>5 DEF Asked, gethop
<1>. QED
  BY <1>4, <1>5, <1>6 DEF Asked

LEMMA AccountSocketHops ==
    ASSUME IInv, StatsOK, HopsAccounted, program = "simulator", accesses # NoAccesses,
           AccountSocket
    PROVE  HopsAccounted'
<1>1. PICK s \in Sockets : s = i_socket /\ AccountsFor(s)
  BY AccountSocketAdds
<1>2. i_socket' = s + 1 /\ UNCHANGED accesses
  BY <1>1 DEF AccountSocket
<1>3. TypeOK
  BY DEF IInv
<1>4. SUFFICES ASSUME NEW m \in Maps, NEW h \in Hops
               PROVE  HopCount(m, h)' = SumFunctionOnSet(Hopped(m, h)', 0 .. i_socket' - 1)
  BY DEF HopsAccounted
<1>5. s \in Nat /\ s < N_SOCKETS /\ \A t \in 0 .. s : t \in Sockets
  BY PoolAssumption DEF Sockets
<1>6. \A t \in Sockets : Asked(m, t, h) \in SUBSET Pages /\ Asked(m, t, h)' \in SUBSET Pages
  BY DEF Asked, UsedBy
<1>7. \A t \in Sockets : AllRequests(t)' = AllRequests(t)
  BY <1>2 DEF AllRequests, AccsOf
<1>8. PICK f : f = Hopped(m, h)
  OBVIOUS
<1>9. PICK g : g = Hopped(m, h)'
  OBVIOUS
<1>10. PICK S : S = 0 .. s - 1
  OBVIOUS
<1>11. S \subseteq Sockets /\ s \notin S /\ IsFiniteSet(S) /\ S \cup {s} = 0 .. (s + 1) - 1
  <2>1. PICK b \in Int : b = s - 1
    BY <1>5
  <2>2. IsFiniteSet(0 .. b)
    BY FS_Interval
  <2>3. 0 .. (s + 1) - 1 = S \cup {s} /\ s \notin S
    BY <1>5, <1>10
  <2>. QED
    BY <1>5, <1>10, <2>1, <2>2, <2>3
<1>12. \A t \in S : g[t] = f[t]
  <2>. SUFFICES ASSUME NEW t \in S PROVE g[t] = f[t]
    OBVIOUS
  <2>1. t \in Sockets /\ t < i_socket
    BY <1>1, <1>5, <1>10, <1>11
  <2>2. Asked(m, t, h)' = Asked(m, t, h)
    BY <2>1, OwnersKept
  <2>3. f[t] = SumFunctionOnSet(AllRequests(t), Asked(m, t, h))
    BY <1>8, <2>1 DEF Hopped
  <2>4. g[t] = SumFunctionOnSet(AllRequests(t)', Asked(m, t, h)')
    BY <1>9, <2>1 DEF Hopped
  <2>. QED
    BY <1>7, <2>1, <2>2, <2>3, <2>4
<1>13. g[s] = SumFunctionOnSet(AllRequests(s), Asked(m, s, h)')
  <2>1. g[s] = SumFunctionOnSet(AllRequests(s)', Asked(m, s, h)')
    BY <1>9 DEF Hopped
  <2>. QED
    BY <1>7, <2>1
<1>14. Counts(f, S) /\ Counts(g, S \cup {s})
  <2>1. \A t \in Sockets : f[t] \in Nat
    BY <1>3, <1>6, <1>8, RequestSums DEF Hopped
  <2>2. g[s] \in Nat
    BY <1>3, <1>6, <1>13, RequestSums
  <2>. QED
    BY <1>11, <1>12, <2>1, <2>2 DEF Counts
<1>15. SumFunctionOnSet(g, S \cup {s}) = g[s] + SumFunctionOnSet(g, S)
  BY <1>11, <1>14, SumAdd
<1>16. SumFunctionOnSet(g, S) = SumFunctionOnSet(f, S)
  BY <1>11, <1>12, <1>14, SumSame
<1>17. HopCount(m, h) = SumFunctionOnSet(f, S)
  BY <1>1, <1>8, <1>10 DEF HopsAccounted
<1>18. HopCount(m, h)' = HopCount(m, h) + g[s]
  BY <1>1, <1>3, <1>6, <1>13, HopCountGrows
<1>19. PICK u \in Nat, v \in Nat : u = g[s] /\ v = SumFunctionOnSet(f, S)
  BY <1>11, <1>14, SumType DEF Counts
<1>20. u + v = v + u
  OBVIOUS
<1>. QED
  BY <1>2, <1>9, <1>11, <1>15, <1>16, <1>17, <1>18, <1>19, <1>20

\* Once the maps are saved, all sockets are accounted.
LEMMA HopsAccountedExact ==
    ASSUME IInv, HopsAccounted, ~aborted
    PROVE  HopsMatchSavedMap
<1>1. SUFFICES ASSUME Simulated, NEW m \in Maps, NEW h \in Hops
               PROVE  HopCount(m, h) =
                        SumFunction([a \in {a \in Sockets \X Touched(accesses) :
                                              gethop(a[1], Saved(m)[a[2]]) = h} |->
                                        AccsOf(accesses, a[1], a[2])])
  BY DEF HopsMatchSavedMap
<1>2. TypeOK /\ inLoop /\ i_socket = N_SOCKETS
  BY <1>1 DEF IInv, Control, Simulated
<1>3. PICK A : A = {a \in Sockets \X Touched(accesses) :
                        gethop(a[1], Saved(m)[a[2]]) = h}
  OBVIOUS
<1>4. PICK f : f = [a \in A |-> AccsOf(accesses, a[1], a[2])]
  OBVIOUS
<1>5. PICK g : g = Hopped(m, h)
  OBVIOUS
<1>6. IsFiniteSet(A) /\ IsFiniteSet(Sockets)
  <2>1. Touched(accesses) \in SUBSET Pages
    BY DEF Touched
  <2>2. IsFiniteSet(Touched(accesses))
    BY <2>1, PoolAssumption, FS_Subset
  <2>3. IsFiniteSet(Sockets)
    <3>1. PICK b \in Int : b = N_SOCKETS - 1
      BY PoolAssumption
    <3>. QED
      BY <3>1, FS_Interval DEF Sockets
  <2>4. IsFiniteSet(Sockets \X Touched(accesses))
    BY <2>2, <2>3, FS_Product
  <2>5. A \subseteq Sockets \X Touched(accesses)
    BY <1>3
  <2>. QED
    BY <2>3, <2>4, <2>5, FS_Subset
<1>7. ASSUME NEW a \in A
      PROVE  /\ a[1] \in Sockets /\ a[2] \in Pages
             /\ f[a] = AllRequests(a[1])[a[2]] /\ f[a] \in Nat
  <2>1. a[1] \in Sockets /\ a[2] \in Pages
    BY <1>3 DEF Touched
  <2>2. f[a] = AllRequests(a[1])[a[2]]
    BY <1>4, <2>1 DEF AllRequests
  <2>3. AllRequests(a[1])[a[2]] \in Nat
    <3>1. PICK u \in Nat, v \in Nat :
             u = accesses[a[1]][a[2]].r /\ v = accesses[a[1]][a[2]].w
      BY <1>2, <2>1, AccessesAreCounts
    <3>2. AllRequests(a[1])[a[2]] = u + v
      BY <1>2, <2>1, <3>1, AccessesAreCounts
    <3>. QED
      BY <3>2
  <2>. QED
    BY <2>1, <2>2, <2>3
<1>8. PICK c : c = [a \in A |-> a[1]]
  OBVIOUS
<1>9. ASSUME NEW s \in Sockets
      PROVE  g[s] = SumFunctionOnSet(f, Class(c, A, s))
  <2>1. PICK T : T = Class(c, A, s)
    OBVIOUS
  <2>2. PICK Q : Q = Asked(m, s, h)
    OBVIOUS
  <2>3. T = {a \in A : a[1] = s} /\ T \subseteq A
    BY <1>8, <2>1 DEF Class
  <2>4. Q = {p \in UsedBy(s) : gethop(s, Saved(m)[p]) = h} /\ Q \subseteq Pages
    BY <1>2, <2>2 DEF Asked, OwnerOf, UsedBy
  <2>5. PICK R : R = {p \in Touched(accesses) : gethop(s, Saved(m)[p]) = h}
    OBVIOUS
  <2>6. Q \in SUBSET R /\ R \in SUBSET Pages
    BY <2>4, <2>5 DEF Touched, UsedBy
  <2>7. PICK r : r = AllRequests(s)
    OBVIOUS
  <2>8. IsFiniteSet(R) /\ IsFiniteSet(T) /\ Counts(r, R) /\ Counts(r, Q)
    BY <1>2, <1>6, <2>3, <2>6, <2>7, FS_Subset, RequestsAreCounts
  <2>9. \A p \in R \ Q : r[p] = 0
    <3>. SUFFICES ASSUME NEW p \in R \ Q PROVE r[p] = 0
      OBVIOUS
    <3>1. p \notin UsedBy(s) /\ p \in Pages
      BY <2>4, <2>5, <2>6
    <3>2. ~ (AccsOf(accesses, s, p) > 0)
      BY <3>1 DEF UsedBy, SharersOf
    <3>3. r[p] = AccsOf(accesses, s, p) /\ r[p] \in Nat
      BY <2>7, <2>8, <3>1 DEF AllRequests, Counts
    <3>. QED
      BY <3>2, <3>3
  <2>10. SumFunctionOnSet(r, R) = SumFunctionOnSet(r, Q)
    BY <2>6, <2>8, <2>9, SumSupport
  <2>11. PICK b : b = [p \in R |-> <<s, p>>]
    OBVIOUS
  <2>12. \A p \in R : b[p] \in T /\ f[b[p]] = r[p]
    BY <1>3, <1>7, <2>3, <2>5, <2>7, <2>11
  <2>13. \A p, q \in R : b[p] = b[q] => p = q
    BY <2>11
  <2>14. \A t \in T : \E p \in R : b[p] = t
    BY <1>3, <2>3, <2>5, <2>11
  <2>15. SumFunctionOnSet(f, T) = SumFunctionOnSet(r, R)
    BY <2>8, <2>12, <2>13, <2>14, SumRenamed
  <2>16. g[s] = SumFunctionOnSet(r, Q)
    BY <1>5, <2>2, <2>7 DEF Hopped
  <2>. QED
    BY <2>1, <2>10, <2>15, <2>16
<1>10. SumFunctionOnSet(g, Sockets) = SumFunctionOnSet(f, A)
  <2>1. Counts(f, A)
    BY <1>7 DEF Counts
  <2>2. \A a \in A : c[a] \in Sockets
    BY <1>7, <1>8
  <2>. QED
    BY <1>6, <1>9, <2>1, <2>2, SumByClass
<1>11. HopCount(m, h) = SumFunctionOnSet(g, Sockets)
  BY <1>2, <1>5 DEF HopsAccounted, Sockets
<1>12. SumFunction(f) = SumFunctionOnSet(f, A)
  <2>1. DOMAIN f = A
    BY <1>4
  <2>. QED
    BY <2>1 DEF SumFunction
<1>. QED
  BY <1>3, <1>4, <1>10, <1>11, <1>12

-----------------------------------------------------------------------------
(* The arrays agree.                                                       *)

\* The sum of a function is over its domain.
LEMMA SumOfFunction ==
    ASSUME NEW S, IsFiniteSet(S), NEW f \in [S -> Nat]
    PROVE  /\ SumFunction(f) = SumFunctionOnSet(f, S)
           /\ Counts(f, S)
           /\ SumFunction(f) \in Nat
<1>1. DOMAIN f = S /\ \A x \in S : f[x] \in Nat
  OBVIOUS
<1>2. SumFunction(f) = SumFunctionOnSet(f, S)
  BY <1>1 DEF SumFunction
<1>. QED
  BY <1>1, <1>2, SumType DEF Counts

\* The sockets are an interval.
LEMMA FiniteSockets ==
    IsFiniteSet(Sockets)
<1>1. PICK b \in Int : b = N_SOCKETS - 1
  BY PoolAssumption
<1>. QED
  BY <1>1, FS_Interval DEF Sockets

\* There are four numbers of hops.
LEMMA FiniteHops ==
    IsFiniteSet(Hops)
<1>1. PICK b \in Int : b = 3
  OBVIOUS
<1>2. IsFiniteSet(0 .. b)
  BY FS_Interval
<1>. QED
  BY <1>1, <1>2 DEF Hops

\* A hop is one of four, and only the pool is three hops away.
LEMMA HopIsCounted ==
    ASSUME NEW a, NEW b
    PROVE  gethop(a, b) \in Hops /\ (gethop(a, b) = 3 <=> b = CXO)
<1>1. gethop(a, b) \in {0, 1, 2, 3} /\ (gethop(a, b) = 3 <=> b = CXO)
  BY DEF gethop
<1>2. Hops = {0, 1, 2, 3}
  BY DEF Hops
<1>. QED
  BY <1>1, <1>2

\* What a socket uses does not change while it is accounted, and the accounting
\* finds an owner for it.
LEMMA AccountSocketPages ==
    ASSUME IInv, AccountSocket, NEW s \in Sockets, s = i_socket
    PROVE  /\ UsedBy(s)' = UsedBy(s) /\ UsedBy(s) \in SUBSET Pages
           /\ \A p \in UsedBy(s) : page_owner'[p] \in Sockets
           /\ OwnerOf("island")' = page_owner_CI'
<1>1. ~inLoop' /\ UNCHANGED accesses
  BY AccountSocketOwners
<1>2. UsedBy(s)' = UsedBy(s) /\ UsedBy(s) \in SUBSET Pages
  BY <1>1 DEF UsedBy, SharersOf, AccsOf
<1>3. MapsOK' /\ \A p \in UsedBy(s) : p \in DOMAIN page_owner_CI'
  BY AccountSocketGrows DEF Grows, UsedBy
<1>4. \A p \in UsedBy(s) : page_owner'[p] \in Sockets
  BY <1>3 DEF MapsOK, OwnerMap
<1>. QED
  BY <1>1, <1>2, <1>4 DEF OwnerOf

\* The hops of a kind of access to pages with n sharers are all of them.
HopsBySharers ==
    \A m \in Maps, k \in Kinds, n \in SharerCounts :
       SumFunction(hop_hist[m][k][n]) = hist_access_sharers[k][n]

\* The total by sharers is that of the three kinds.
TotalsAgree ==
    \A n \in SharerCounts :
       hist_access_sharers["all"][n]
         = hist_access_sharers["W"][n] + hist_access_sharers["RtoRW"][n]
             + hist_access_sharers["RO"][n]

\* An access in the baseline is one of memories or the pool in the island.
SocketsAgree ==
    \A s \in Sockets :
       mem_traffic["island"][s] + CI_traffic["r"][s] + CI_traffic["w"][s]
         = mem_traffic["baseline"][s]

\* What is asked of memories comes over the links.
LinksAgree ==
    \A m \in Maps, s \in Sockets :
       SumFunction(link_traffic[m]["r"][s]) + SumFunction(link_traffic[m]["w"][s])
         = mem_traffic[m][s]

\* The accesses of three hops are those of the pool.
PoolAgrees ==
    HopCount("island", 3) = SumFunction(CI_traffic["r"]) + SumFunction(CI_traffic["w"])

ArraysAgree ==
    HopsBySharers /\ TotalsAgree /\ SocketsAgree /\ LinksAgree /\ PoolAgrees

LEMMA AccountSocketSharers ==
    ASSUME IInv, StatsOK, StatsOK', AccountSocket, HopsBySharers
    PROVE  HopsBySharers'
<1>1. PICK s \in Sockets : s = i_socket /\ AccountsFor(s)
  BY AccountSocketAdds
<1>2. UsedBy(s)' = UsedBy(s) /\ UsedBy(s) \in SUBSET Pages /\ TypeOK
  BY <1>1, AccountSocketPages DEF IInv
<1>3. SUFFICES ASSUME NEW m \in Maps, NEW k \in Kinds, NEW n \in SharerCounts
               PROVE  SumFunction(hop_hist'[m][k][n]) = hist_access_sharers'[k][n]
  BY DEF HopsBySharers
<1>4. PICK W \in SUBSET Pages : W = WithSharers(UsedBy(s), n)
  BY <1>2 DEF WithSharers
<1>5. PICK r : r = AccessCounts(k, s)
  OBVIOUS
<1>6. IsFiniteSet(W) /\ Counts(r, W)
  BY <1>2, <1>5, RequestsAreCounts DEF KindsAndTotal
<1>7. PICK q : q = OwnerOf(m)'
  OBVIOUS
<1>8. PICK c : c = [p \in W |-> gethop(s, q[p])]
  OBVIOUS
<1>9. PICK d : d = [h \in Hops |-> SumFunctionOnSet(r, Class(c, W, h))]
  OBVIOUS
<1>10. \A p \in W : c[p] \in Hops
  BY <1>8, HopIsCounted
<1>11. IsFiniteSet(Hops)
  BY FiniteHops
<1>12. SumFunctionOnSet(d, Hops) = SumFunctionOnSet(r, W)
  BY <1>6, <1>9, <1>10, <1>11, SumByClass
<1>13. PICK f \in [Hops -> Nat] : f = hop_hist[m][k][n]
  BY DEF StatsOK
<1>14. PICK g \in [Hops -> Nat] : g = hop_hist'[m][k][n]
  BY DEF StatsOK
<1>15. ASSUME NEW h \in Hops
       PROVE  d[h] \in Nat /\ g[h] = f[h] + d[h]
  <2>1. WithSharers(Asked(m, s, h)', n) = Class(c, W, h)
    <3>1. Asked(m, s, h)' = {p \in UsedBy(s) : gethop(s, q[p]) = h}
      BY <1>2, <1>7 DEF Asked, gethop
    <3>2. Class(c, W, h) = {p \in W : gethop(s, q[p]) = h}
      BY <1>8 DEF Class
    <3>. QED
      BY <1>4, <3>1, <3>2 DEF WithSharers
  <2>2. hop_hist'[m][k][n][h] = hop_hist[m][k][n][h] + SumFunctionOnSet(r, Class(c, W, h))
    BY <1>1, <1>5, <2>1 DEF AccountsFor
  <2>3. Class(c, W, h) \in SUBSET Pages
    BY DEF Class
  <2>4. SumFunctionOnSet(r, Class(c, W, h)) \in Nat
    BY <1>2, <1>5, <2>3, RequestSums DEF KindsAndTotal
  <2>. QED
    BY <1>9, <1>13, <1>14, <2>2, <2>4
<1>16. Counts(d, Hops)
  BY <1>15 DEF Counts
<1>17. SumFunctionOnSet(g, Hops) = SumFunctionOnSet(f, Hops) + SumFunctionOnSet(d, Hops)
  BY <1>11, <1>15, <1>16, SumOfFunction, SumPlus
<1>18. SumFunction(f) = SumFunctionOnSet(f, Hops) /\ SumFunction(g) = SumFunctionOnSet(g, Hops)
  BY <1>11, SumOfFunction
<1>19. SumFunction(f) = hist_access_sharers[k][n]
  BY <1>13 DEF HopsBySharers
<1>20. hist_access_sharers'[k][n] = hist_access_sharers[k][n] + SumFunctionOnSet(r, W)
  BY <1>1, <1>4, <1>5 DEF AccountsFor, KindsAndTotal
<1>. QED
  BY <1>12, <1>14, <1>17, <1>18, <1>19, <1>20

\* An access is of one kind.
LEMMA AccountSocketTotals ==
    ASSUME IInv, StatsOK, AccountSocket, TotalsAgree
    PROVE  TotalsAgree'
<1>1. PICK s \in Sockets : s = i_socket /\ AccountsFor(s)
  BY AccountSocketAdds
<1>2. UsedBy(s) \in SUBSET Pages /\ TypeOK
  BY <1>1, AccountSocketPages DEF IInv
<1>3. SUFFICES ASSUME NEW n \in SharerCounts
               PROVE  hist_access_sharers'["all"][n]
                        = hist_access_sharers'["W"][n] + hist_access_sharers'["RtoRW"][n]
                            + hist_access_sharers'["RO"][n]
  BY DEF TotalsAgree
<1>4. PICK W \in SUBSET Pages : W = WithSharers(UsedBy(s), n)
  BY <1>2 DEF WithSharers
<1>5. PICK x \in Nat, y \in Nat, z \in Nat :
         /\ x = SumFunctionOnSet(AccessCounts("W", s), W)
         /\ y = SumFunctionOnSet(AccessCounts("RtoRW", s), W)
         /\ z = SumFunctionOnSet(AccessCounts("RO", s), W)
  BY <1>2, RequestSums DEF Kinds, KindsAndTotal
<1>6. SumFunctionOnSet(AccessCounts("all", s), W) = x + y + z
  <2>1. AccessCounts("all", s) = AllRequests(s)
    BY DEF AccessCounts, AllRequests, AccessesOf
  <2>. QED
    BY <1>2, <1>5, <2>1, SumsByKind
<1>7. PICK a \in Nat, u \in Nat, v \in Nat, w \in Nat :
         /\ a = hist_access_sharers["all"][n] /\ u = hist_access_sharers["W"][n]
         /\ v = hist_access_sharers["RtoRW"][n] /\ w = hist_access_sharers["RO"][n]
  BY DEF StatsOK, Kinds, KindsAndTotal
<1>8. /\ hist_access_sharers'["all"][n] = a + (x + y + z)
      /\ hist_access_sharers'["W"][n] = u + x
      /\ hist_access_sharers'["RtoRW"][n] = v + y
      /\ hist_access_sharers'["RO"][n] = w + z
  BY <1>1, <1>4, <1>5, <1>6, <1>7 DEF AccountsFor, Kinds, KindsAndTotal
<1>9. a = u + v + w
  BY <1>7 DEF TotalsAgree
<1>10. a + (x + y + z) = (u + x) + (v + y) + (w + z)
  BY <1>9
<1>. QED
  BY <1>8, <1>10

LEMMA AccountSocketMemories ==
    ASSUME IInv, StatsOK, AccountSocket, SocketsAgree
    PROVE  SocketsAgree'
<1>1. PICK s \in Sockets : s = i_socket /\ AccountsFor(s) /\ KeepsOthers(s)
  BY AccountSocketAdds
<1>2. UsedBy(s)' = UsedBy(s) /\ UsedBy(s) \in SUBSET Pages /\ TypeOK
  BY <1>1, AccountSocketPages DEF IInv
<1>3. "island" \in Maps /\ "baseline" \in Maps
  BY DEF Maps
<1>4. ASSUME NEW t \in Sockets \ {s}
      PROVE  mem_traffic'["island"][t] + CI_traffic'["r"][t] + CI_traffic'["w"][t]
               = mem_traffic'["baseline"][t]
  BY <1>1, <1>3 DEF KeepsOthers, SocketsAgree
<1>5. mem_traffic'["island"][s] + CI_traffic'["r"][s] + CI_traffic'["w"][s]
         = mem_traffic'["baseline"][s]
  <2>1. PICK U \in SUBSET Pages : U = UsedBy(s)
    BY <1>2
  <2>2. PICK P \in SUBSET U : P = InPoolOf(s)'
    BY <1>2, <2>1 DEF InPoolOf
  <2>3. PICK L : L = U \ P
    OBVIOUS
  <2>4. LocalTo("island", s)' = L /\ LocalTo("baseline", s)' = U
    <3>1. LocalTo("baseline", s)' = U
      BY <1>2, <2>1 DEF LocalTo
    <3>2. LocalTo("island", s)' = {p \in U : page_owner_CI'[p] # CXO}
      BY <1>2, <2>1 DEF LocalTo
    <3>3. P = {p \in U : page_owner_CI'[p] = CXO}
      BY <1>2, <2>1, <2>2 DEF InPoolOf
    <3>. QED
      BY <2>3, <3>1, <3>2, <3>3
  <2>5. PICK a : a = AllRequests(s)
    OBVIOUS
  <2>6. IsFiniteSet(U) /\ Counts(a, U)
    BY <1>2, <2>5, RequestsAreCounts
  <2>7. SumFunctionOnSet(a, U) = SumFunctionOnSet(a, P) + SumFunctionOnSet(a, L)
    BY <2>3, <2>6, SumUnion
  <2>8. P \in SUBSET Pages /\ L \in SUBSET Pages
    BY <2>3
  <2>9. SumFunctionOnSet(a, P)
          = SumFunctionOnSet(Requests("r", s), P) + SumFunctionOnSet(Requests("w", s), P)
    BY <1>2, <2>5, <2>8, SumsByKind
  <2>10. PICK x \in Nat, y \in Nat, z \in Nat :
            /\ x = SumFunctionOnSet(Requests("r", s), P)
            /\ y = SumFunctionOnSet(Requests("w", s), P)
            /\ z = SumFunctionOnSet(a, L)
    BY <1>2, <2>5, <2>8, RequestSums
  <2>11. PICK u \in Nat, v \in Nat, w \in Nat, b \in Nat :
            /\ u = mem_traffic["island"][s] /\ v = CI_traffic["r"][s]
            /\ w = CI_traffic["w"][s] /\ b = mem_traffic["baseline"][s]
    BY <1>3 DEF StatsOK
  <2>12. /\ mem_traffic'["island"][s] = u + z
         /\ CI_traffic'["r"][s] = v + x
         /\ CI_traffic'["w"][s] = w + y
         /\ mem_traffic'["baseline"][s] = b + SumFunctionOnSet(a, U)
    BY <1>1, <1>3, <2>2, <2>4, <2>5, <2>10, <2>11 DEF AccountsFor
  <2>13. SumFunctionOnSet(a, U) = (x + y) + z
    BY <2>7, <2>9, <2>10
  <2>14. u + v + w = b
    BY <2>11 DEF SocketsAgree
  <2>15. (u + z) + (v + x) + (w + y) = b + ((x + y) + z)
    BY <2>14
  <2>. QED
    BY <2>12, <2>13, <2>15
<1>. QED
  BY <1>4, <1>5 DEF SocketsAgree

\* What a socket asks of the sockets that own its pages is all it asks of memories.
LEMMA AccountSocketLinks ==
    ASSUME IInv, StatsOK, StatsOK', AccountSocket, LinksAgree
    PROVE  LinksAgree'
<1>1. PICK s \in Sockets : s = i_socket /\ AccountsFor(s) /\ KeepsOthers(s)
  BY AccountSocketAdds
<1>2. /\ UsedBy(s)' = UsedBy(s) /\ UsedBy(s) \in SUBSET Pages /\ TypeOK
      /\ \A p \in UsedBy(s) : page_owner'[p] \in Sockets
  BY <1>1, AccountSocketPages DEF IInv
<1>3. ASSUME NEW m \in Maps, NEW t \in Sockets \ {s}
      PROVE  SumFunction(link_traffic'[m]["r"][t]) + SumFunction(link_traffic'[m]["w"][t])
               = mem_traffic'[m][t]
  <2>1. ASSUME NEW rw \in {"r", "w"}
        PROVE  link_traffic'[m][rw][t] = link_traffic[m][rw][t]
    <3>1. PICK f \in [Sockets -> Nat] : f = link_traffic[m][rw][t]
      BY DEF StatsOK
    <3>2. PICK g \in [Sockets -> Nat] : g = link_traffic'[m][rw][t]
      BY DEF StatsOK
    <3>3. \A o \in Sockets : g[o] = f[o]
      BY <1>1, <3>1, <3>2 DEF KeepsOthers
    <3>. QED
      BY <3>1, <3>2, <3>3
  <2>2. mem_traffic'[m][t] = mem_traffic[m][t]
    BY <1>1 DEF KeepsOthers
  <2>3. /\ link_traffic'[m]["r"][t] = link_traffic[m]["r"][t]
        /\ link_traffic'[m]["w"][t] = link_traffic[m]["w"][t]
    BY <2>1
  <2>. QED
    BY <2>2, <2>3 DEF LinksAgree
<1>4. ASSUME NEW m \in Maps
      PROVE  SumFunction(link_traffic'[m]["r"][s]) + SumFunction(link_traffic'[m]["w"][s])
               = mem_traffic'[m][s]
  <2>1. PICK L \in SUBSET Pages : L = LocalTo(m, s)' /\ L \subseteq UsedBy(s)
    BY <1>2 DEF LocalTo
  <2>2. PICK c : c = page_owner'
    OBVIOUS
  <2>3. \A p \in L : c[p] \in Sockets
    BY <1>2, <2>1, <2>2
  <2>4. ASSUME NEW rw \in {"r", "w"}
        PROVE  /\ SumFunction(link_traffic'[m][rw][s])
                    = SumFunction(link_traffic[m][rw][s]) + SumFunctionOnSet(Requests(rw, s), L)
               /\ SumFunction(link_traffic[m][rw][s]) \in Nat
    <3>1. PICK f \in [Sockets -> Nat] : f = link_traffic[m][rw][s]
      BY DEF StatsOK
    <3>2. PICK g \in [Sockets -> Nat] : g = link_traffic'[m][rw][s]
      BY DEF StatsOK
    <3>3. PICK r : r = Requests(rw, s)
      OBVIOUS
    <3>4. IsFiniteSet(L) /\ Counts(r, L)
      BY <1>2, <3>3, RequestsAreCounts
    <3>5. PICK d : d = [o \in Sockets |-> SumFunctionOnSet(r, Class(c, L, o))]
      OBVIOUS
    <3>6. SumFunctionOnSet(d, Sockets) = SumFunctionOnSet(r, L)
      BY <2>3, <3>4, <3>5, FiniteSockets, SumByClass
    <3>7. ASSUME NEW o \in Sockets
          PROVE  d[o] \in Nat /\ g[o] = f[o] + d[o]
      <4>1. OwnedBy(m, s, o)' = Class(c, L, o)
        BY <2>1, <2>2 DEF OwnedBy, Class
      <4>2. link_traffic'[m][rw][s][o] = link_traffic[m][rw][s][o]
              + SumFunctionOnSet(r, Class(c, L, o))
        BY <1>1, <3>3, <4>1 DEF AccountsFor
      <4>3. Class(c, L, o) \in SUBSET Pages
        BY DEF Class
      <4>4. SumFunctionOnSet(r, Class(c, L, o)) \in Nat
        BY <1>2, <3>3, <4>3, RequestSums
      <4>. QED
        BY <3>1, <3>2, <3>5, <4>2, <4>4
    <3>8. Counts(d, Sockets)
      BY <3>7 DEF Counts
    <3>9. /\ SumFunction(f) = SumFunctionOnSet(f, Sockets) /\ Counts(f, Sockets)
          /\ SumFunction(g) = SumFunctionOnSet(g, Sockets)
          /\ SumFunction(f) \in Nat
      BY FiniteSockets, SumOfFunction
    <3>10. SumFunctionOnSet(g, Sockets)
             = SumFunctionOnSet(f, Sockets) + SumFunctionOnSet(d, Sockets)
      BY <3>7, <3>8, <3>9, FiniteSockets, SumPlus
    <3>. QED
      BY <3>1, <3>2, <3>3, <3>6, <3>9, <3>10
  <2>5. PICK x \in Nat, y \in Nat :
           /\ x = SumFunctionOnSet(Requests("r", s), L)
           /\ y = SumFunctionOnSet(Requests("w", s), L)
    BY <1>2, RequestSums
  <2>6. SumFunctionOnSet(AllRequests(s), L) = x + y
    BY <1>2, <2>5, SumsByKind
  <2>7. PICK u \in Nat, v \in Nat :
           /\ u = SumFunction(link_traffic[m]["r"][s])
           /\ v = SumFunction(link_traffic[m]["w"][s])
    BY <2>4
  <2>8. mem_traffic[m][s] = u + v
    BY <2>7 DEF LinksAgree
  <2>9. mem_traffic'[m][s] = mem_traffic[m][s] + SumFunctionOnSet(AllRequests(s), L)
    BY <1>1, <2>1 DEF AccountsFor
  <2>10. /\ SumFunction(link_traffic'[m]["r"][s]) = u + x
         /\ SumFunction(link_traffic'[m]["w"][s]) = v + y
    BY <2>4, <2>5, <2>7
  <2>11. (u + x) + (v + y) = (u + v) + (x + y)
    OBVIOUS
  <2>. QED
    BY <2>6, <2>8, <2>9, <2>10, <2>11
<1>. QED
  BY <1>3, <1>4 DEF LinksAgree

\* The accesses that travel three hops are those to pages in the pool.
LEMMA AccountSocketPool ==
    ASSUME IInv, StatsOK, StatsOK', AccountSocket, PoolAgrees
    PROVE  PoolAgrees'
<1>1. PICK s \in Sockets : s = i_socket /\ AccountsFor(s) /\ KeepsOthers(s)
  BY AccountSocketAdds
<1>2. /\ UsedBy(s)' = UsedBy(s) /\ UsedBy(s) \in SUBSET Pages /\ TypeOK
      /\ OwnerOf("island")' = page_owner_CI'
  BY <1>1, AccountSocketPages DEF IInv
<1>3. PICK P \in SUBSET Pages : P = InPoolOf(s)'
  BY <1>2 DEF InPoolOf
<1>4. PICK m \in Maps : m = "island"
  BY DEF Maps
<1>5. PICK h \in Hops : h = 3
  BY DEF Hops
<1>6. Asked(m, s, h)' = P
  <2>1. PICK q : q = OwnerOf(m)'
    OBVIOUS
  <2>2. Asked(m, s, h)' = {p \in UsedBy(s) : gethop(s, q[p]) = h}
    BY <1>2, <2>1 DEF Asked, gethop
  <2>3. P = {p \in UsedBy(s) : q[p] = CXO}
    BY <1>2, <1>3, <1>4, <2>1 DEF InPoolOf
  <2>. QED
    BY <1>5, <2>2, <2>3, HopIsCounted
<1>7. HopCount(m, h)' = HopCount(m, h) + SumFunctionOnSet(AllRequests(s), P)
  BY <1>1, <1>2, <1>6, HopCountGrows
<1>8. ASSUME NEW rw \in {"r", "w"}
      PROVE  /\ SumFunction(CI_traffic'[rw])
                  = SumFunction(CI_traffic[rw]) + SumFunctionOnSet(Requests(rw, s), P)
             /\ SumFunction(CI_traffic[rw]) \in Nat
  <2>1. PICK f \in [Sockets -> Nat] : f = CI_traffic[rw]
    BY DEF StatsOK
  <2>2. PICK g \in [Sockets -> Nat] : g = CI_traffic'[rw]
    BY DEF StatsOK
  <2>3. PICK d \in Nat : d = SumFunctionOnSet(Requests(rw, s), P)
    BY <1>2, RequestSums
  <2>4. g[s] = f[s] + d
    BY <1>1, <1>3, <2>1, <2>2, <2>3 DEF AccountsFor
  <2>5. \A t \in Sockets \ {s} : g[t] = f[t]
    BY <1>1, <2>1, <2>2 DEF KeepsOthers
  <2>6. /\ SumFunction(f) = SumFunctionOnSet(f, Sockets) /\ Counts(f, Sockets)
        /\ SumFunction(g) = SumFunctionOnSet(g, Sockets)
        /\ SumFunction(f) \in Nat
    BY FiniteSockets, SumOfFunction
  <2>7. SumFunctionOnSet(g, Sockets) = SumFunctionOnSet(f, Sockets) + d
    BY <2>4, <2>5, <2>6, FiniteSockets, SumChange
  <2>. QED
    BY <2>1, <2>2, <2>3, <2>6, <2>7
<1>9. PICK x \in Nat, y \in Nat, u \in Nat, v \in Nat :
         /\ x = SumFunctionOnSet(Requests("r", s), P)
         /\ y = SumFunctionOnSet(Requests("w", s), P)
         /\ u = SumFunction(CI_traffic["r"])
         /\ v = SumFunction(CI_traffic["w"])
  BY <1>2, <1>8, RequestSums
<1>10. SumFunctionOnSet(AllRequests(s), P) = x + y
  BY <1>2, <1>9, SumsByKind
<1>11. HopCount(m, h) = u + v
  BY <1>4, <1>5, <1>9 DEF PoolAgrees
<1>12. SumFunction(CI_traffic'["r"]) = u + x /\ SumFunction(CI_traffic'["w"]) = v + y
  BY <1>8, <1>9
<1>13. (u + v) + (x + y) = (u + x) + (v + y)
  OBVIOUS
<1>14. HopCount(m, h)' = SumFunction(CI_traffic'["r"]) + SumFunction(CI_traffic'["w"])
  BY <1>7, <1>10, <1>11, <1>12, <1>13
<1>15. HopCount("island", 3)' = HopCount(m, h)'
  BY <1>4, <1>5
<1>. QED
  BY <1>14, <1>15 DEF PoolAgrees

-----------------------------------------------------------------------------
(* Before a phase nothing is counted.                                      *)

NothingCounted ==
    /\ hop_hist = NoHops
    /\ hist_access_sharers = NoSharers(KindsAndTotal)
    /\ link_traffic = NoLinks
    /\ CI_traffic = NoTraffic({"r", "w"})
    /\ mem_traffic = NoTraffic(Maps)

NoHopsCounted == \A m \in Maps, h \in Hops : HopCount(m, h) = 0

\* Arrays of zeros agree.
LEMMA NothingAgrees ==
    NothingCounted => StatsOK /\ ArraysAgree /\ NoHopsCounted
<1>. SUFFICES ASSUME NothingCounted
              PROVE  StatsOK /\ ArraysAgree /\ NoHopsCounted
  OBVIOUS
<1>1. StatsOK
  <2>1. hop_hist \in [Maps -> [Kinds -> [SharerCounts -> [Hops -> Nat]]]]
    BY DEF NothingCounted, NoHops
  <2>2. hist_access_sharers \in [KindsAndTotal -> [SharerCounts -> Nat]]
    BY DEF NothingCounted, NoSharers
  <2>3. link_traffic \in [Maps -> [{"r", "w"} -> [Sockets -> [Sockets -> Nat]]]]
    BY DEF NothingCounted, NoLinks
  <2>4. CI_traffic \in [{"r", "w"} -> [Sockets -> Nat]]
    BY DEF NothingCounted, NoTraffic
  <2>5. mem_traffic \in [Maps -> [Sockets -> Nat]]
    BY DEF NothingCounted, NoTraffic
  <2>. QED
    BY <2>1, <2>2, <2>3, <2>4, <2>5 DEF StatsOK
<1>2. HopsBySharers
  <2>. SUFFICES ASSUME NEW m \in Maps, NEW k \in Kinds, NEW n \in SharerCounts
                PROVE  SumFunction(hop_hist[m][k][n]) = hist_access_sharers[k][n]
    BY DEF HopsBySharers
  <2>1. PICK f \in [Hops -> Nat] : f = hop_hist[m][k][n]
    BY <1>1 DEF StatsOK
  <2>2. \A h \in Hops : f[h] = 0
    BY <2>1 DEF NothingCounted, NoHops
  <2>3. SumFunction(f) = 0
    BY <2>2, FiniteHops, SumOfFunction, SumNothing
  <2>4. hist_access_sharers[k][n] = 0
    BY DEF NothingCounted, NoSharers, KindsAndTotal
  <2>. QED
    BY <2>1, <2>3, <2>4
<1>3. \A m \in Maps, s \in Sockets : mem_traffic[m][s] = 0
  BY DEF NothingCounted, NoTraffic
<1>4. \A rw \in {"r", "w"}, s \in Sockets : CI_traffic[rw][s] = 0
  BY DEF NothingCounted, NoTraffic
<1>5. SocketsAgree
  <2>. SUFFICES ASSUME NEW s \in Sockets
                PROVE  mem_traffic["island"][s] + CI_traffic["r"][s] + CI_traffic["w"][s]
                         = mem_traffic["baseline"][s]
    BY DEF SocketsAgree
  <2>1. /\ mem_traffic["island"][s] = 0 /\ mem_traffic["baseline"][s] = 0
        /\ CI_traffic["r"][s] = 0 /\ CI_traffic["w"][s] = 0
    BY <1>3, <1>4 DEF Maps
  <2>2. 0 + 0 + 0 = 0
    OBVIOUS
  <2>. QED
    BY <2>1, <2>2
<1>6. LinksAgree
  <2>. SUFFICES ASSUME NEW m \in Maps, NEW s \in Sockets
                PROVE  SumFunction(link_traffic[m]["r"][s])
                         + SumFunction(link_traffic[m]["w"][s]) = mem_traffic[m][s]
    BY DEF LinksAgree
  <2>1. ASSUME NEW rw \in {"r", "w"}
        PROVE  SumFunction(link_traffic[m][rw][s]) = 0
    <3>1. PICK f \in [Sockets -> Nat] : f = link_traffic[m][rw][s]
      BY <1>1 DEF StatsOK
    <3>2. \A o \in Sockets : f[o] = 0
      BY <3>1 DEF NothingCounted, NoLinks
    <3>3. SumFunction(f) = 0
      BY <3>2, FiniteSockets, SumOfFunction, SumNothing
    <3>. QED
      BY <3>1, <3>3
  <2>2. 0 + 0 = 0
    OBVIOUS
  <2>. QED
    BY <1>3, <2>1, <2>2
<1>7. NoHopsCounted
  <2>. SUFFICES ASSUME NEW m \in Maps, NEW h \in Hops
                PROVE  HopCount(m, h) = 0
    BY DEF NoHopsCounted
  <2>1. PICK E : E = Kinds \X SharerCounts
    OBVIOUS
  <2>2. PICK f : f = [e \in E |-> hop_hist[m][e[1]][e[2]][h]]
    OBVIOUS
  <2>3. \A e \in E : f[e] = 0
    <3>. SUFFICES ASSUME NEW e \in E PROVE f[e] = 0
      OBVIOUS
    <3>1. PICK k \in Kinds, n \in SharerCounts : e = <<k, n>>
      BY <2>1
    <3>2. f[e] = hop_hist[m][k][n][h]
      BY <2>2, <3>1
    <3>. QED
      BY <3>2 DEF NothingCounted, NoHops
  <2>4. IsFiniteSet(E)
    <3>1. IsFiniteSet(Kinds)
      BY FiniteKinds
    <3>. QED
      BY <2>1, <3>1, FiniteSharerCounts, FS_Product
  <2>5. SumFunctionOnSet(f, E) = 0
    BY <2>3, <2>4, SumNothing
  <2>6. HopCount(m, h) = SumFunction(f) /\ DOMAIN f = E
    BY <2>1, <2>2 DEF HopCount
  <2>. QED
    BY <2>5, <2>6 DEF SumFunction
<1>8. PoolAgrees
  <2>1. ASSUME NEW rw \in {"r", "w"}
        PROVE  SumFunction(CI_traffic[rw]) = 0
    <3>1. PICK f \in [Sockets -> Nat] : f = CI_traffic[rw]
      BY <1>1 DEF StatsOK
    <3>2. \A o \in Sockets : f[o] = 0
      BY <1>4, <3>1
    <3>3. SumFunction(f) = 0
      BY <3>2, FiniteSockets, SumOfFunction, SumNothing
    <3>. QED
      BY <3>1, <3>3
  <2>2. "island" \in Maps /\ 3 \in Hops
    BY DEF Maps, Hops
  <2>3. HopCount("island", 3) = 0
    BY <1>7, <2>2 DEF NoHopsCounted
  <2>4. 0 + 0 = 0
    OBVIOUS
  <2>. QED
    BY <2>1, <2>3, <2>4 DEF PoolAgrees
<1>9. TotalsAgree
  <2>1. \A k \in KindsAndTotal, n \in SharerCounts : hist_access_sharers[k][n] = 0
    BY DEF NothingCounted, NoSharers
  <2>2. 0 + 0 + 0 = 0
    OBVIOUS
  <2>. QED
    BY <2>1, <2>2 DEF TotalsAgree, Kinds, KindsAndTotal
<1>. QED
  BY <1>1, <1>2, <1>5, <1>6, <1>7, <1>8, <1>9 DEF ArraysAgree

-----------------------------------------------------------------------------
(* The invariant of the statistics.                                        *)

\* The histograms have what the sockets accounted so far add up to, and a socket
\* waits to be accounted only while there are accesses.
Accounted ==
    program = "simulator" =>
       HopsAccounted /\ (i_socket < N_SOCKETS => accesses # NoAccesses)

StatsInv == StatsOK /\ ArraysAgree /\ Accounted /\ ~aborted

NothingHopped ==
    \A m \in Maps, h \in Hops : SumFunctionOnSet(Hopped(m, h), 0 .. i_socket - 1) = 0

\* Without accesses no socket uses a page.
LEMMA NothingTravels ==
    IInv /\ accesses = NoAccesses => NothingHopped
<1>. SUFFICES ASSUME IInv, accesses = NoAccesses, NEW m \in Maps, NEW h \in Hops
              PROVE  SumFunctionOnSet(Hopped(m, h), 0 .. i_socket - 1) = 0
  BY DEF NothingHopped
<1>1. PICK f : f = Hopped(m, h)
  OBVIOUS
<1>2. \A s \in Sockets : f[s] = 0
  <2>. SUFFICES ASSUME NEW s \in Sockets PROVE f[s] = 0
    OBVIOUS
  <2>1. Asked(m, s, h) = {}
    BY DEF Asked, UsedBy, SharersOf, AccsOf, NoAccesses
  <2>2. f[s] = SumFunctionOnSet(AllRequests(s), {})
    BY <1>1, <2>1 DEF Hopped
  <2>. QED
    BY <2>2, SumEmpty
<1>3. PICK S : S = 0 .. i_socket - 1
  OBVIOUS
<1>4. S \in SUBSET Sockets
  BY <1>3, PoolAssumption DEF IInv, Control, Sockets
<1>5. SumFunctionOnSet(f, S) = 0
  BY <1>2, <1>4, FiniteSockets, FS_Subset, SumNothing
<1>. QED
  BY <1>1, <1>3, <1>5

LEMMA StatsInit ==
    ProgramInit => StatsInv
<1>. SUFFICES ASSUME ProgramInit PROVE StatsInv
  OBVIOUS
<1>1. NothingCounted
  BY DEF ProgramInit, NothingCounted
<1>2. StatsOK /\ ArraysAgree /\ NoHopsCounted
  BY <1>1, NothingAgrees
<1>3. IInv /\ accesses = NoAccesses /\ i_socket = N_SOCKETS
  BY InitIInv DEF ProgramInit, Init
<1>4. HopsAccounted
  BY <1>2, <1>3, NothingTravels DEF HopsAccounted, NoHopsCounted, NothingHopped
<1>5. ~(i_socket < N_SOCKETS)
  BY <1>3, PoolAssumption
<1>6. ~aborted
  BY DEF ProgramInit
<1>. QED
  BY <1>2, <1>4, <1>5, <1>6 DEF StatsInv, Accounted

\* A step that leaves the arrays alone leaves their sums alone.
LEMMA SameArrays ==
    ASSUME StatsOK, ArraysAgree,
           UNCHANGED <<hop_hist, hist_access_sharers, link_traffic, CI_traffic, mem_traffic>>
    PROVE  /\ StatsOK' /\ ArraysAgree'
           /\ \A m \in Maps, h \in Hops : HopCount(m, h)' = HopCount(m, h)
<1>1. StatsOK'
  BY DEF StatsOK
<1>2. \A m, h : HopCount(m, h)' = HopCount(m, h)
  BY DEF HopCount
<1>3. HopsBySharers' /\ TotalsAgree' /\ SocketsAgree' /\ LinksAgree'
  BY DEF ArraysAgree, HopsBySharers, TotalsAgree, SocketsAgree, LinksAgree
<1>4. PoolAgrees'
  BY <1>2 DEF ArraysAgree, PoolAgrees
<1>. QED
  BY <1>1, <1>2, <1>3, <1>4 DEF ArraysAgree

\* If the accesses and the owners stay, too, what was accounted is what it was.
LEMMA SameHops ==
    ASSUME StatsInv,
           UNCHANGED <<hop_hist, hist_access_sharers, link_traffic, CI_traffic, mem_traffic>>,
           UNCHANGED <<program, i_socket, accesses, aborted>>,
           \A m \in Maps : OwnerOf(m)' = OwnerOf(m)
    PROVE  StatsInv'
<1>1. /\ StatsOK' /\ ArraysAgree'
      /\ \A m \in Maps, h \in Hops : HopCount(m, h)' = HopCount(m, h)
  BY SameArrays DEF StatsInv
<1>2. ASSUME NEW m \in Maps, NEW h \in Hops
      PROVE  Hopped(m, h)' = Hopped(m, h)
  <2>1. \A s : AllRequests(s)' = AllRequests(s) /\ UsedBy(s)' = UsedBy(s)
    BY DEF AllRequests, UsedBy, SharersOf, AccsOf
  <2>2. PICK q : q = OwnerOf(m)
    OBVIOUS
  <2>3. q = OwnerOf(m)'
    BY <2>2
  <2>4. \A s : Asked(m, s, h)' = {p \in UsedBy(s) : gethop(s, q[p]) = h}
    BY <2>1, <2>3 DEF Asked, gethop
  <2>5. \A s : Asked(m, s, h) = {p \in UsedBy(s) : gethop(s, q[p]) = h}
    BY <2>2 DEF Asked
  <2>6. \A s : Asked(m, s, h)' = Asked(m, s, h)
    BY <2>4, <2>5
  <2>. QED
    BY <2>1, <2>6 DEF Hopped
<1>3. Accounted'
  BY <1>1, <1>2 DEF StatsInv, Accounted, HopsAccounted, NoAccesses
<1>. QED
  BY <1>1, <1>3 DEF StatsInv

LEMMA GenerateStats ==
    ASSUME StatsInv, Generate
    PROVE  StatsInv'
<1>1. program' = "generator" /\ aborted' = aborted
      /\ UNCHANGED <<hop_hist, hist_access_sharers, link_traffic, CI_traffic, mem_traffic>>
  BY DEF Generate, stats
<1>2. StatsOK' /\ ArraysAgree'
  BY <1>1, SameArrays DEF StatsInv
<1>. QED
  BY <1>1, <1>2 DEF StatsInv, Accounted

LEMMA SimulatePhaseStats ==
    ASSUME IInv, StatsInv, program = "simulator", NEW ph \in Phases, SimulatePhase(ph)
    PROVE  StatsInv'
<1>1. /\ UNCHANGED <<hop_hist, hist_access_sharers, link_traffic, CI_traffic, mem_traffic>>
      /\ accesses = NoAccesses /\ i_socket = N_SOCKETS
      /\ accesses' = ph /\ i_socket' = 0 /\ UNCHANGED <<program, aborted>>
  BY DEF SimulatePhase, stats
<1>2. /\ StatsOK' /\ ArraysAgree'
      /\ \A m \in Maps, h \in Hops : HopCount(m, h)' = HopCount(m, h)
  BY <1>1, SameArrays DEF StatsInv
<1>3. ph # NoAccesses
  <2>1. PICK s \in Sockets, p \in Pages : ph[s][p].r > 0
    BY PoolAssumption
  <2>2. NoAccesses[s][p].r = 0
    BY DEF NoAccesses
  <2>. QED
    BY <2>1, <2>2
<1>4. HopsAccounted'
  <2>. SUFFICES ASSUME NEW m \in Maps, NEW h \in Hops
                PROVE  HopCount(m, h)' = SumFunctionOnSet(Hopped(m, h)', 0 .. i_socket' - 1)
    BY DEF HopsAccounted
  <2>1. HopCount(m, h) = 0
    BY <1>1, NothingTravels DEF StatsInv, Accounted, HopsAccounted, NothingHopped
  <2>2. 0 .. i_socket' - 1 = {}
    BY <1>1
  <2>. QED
    BY <1>2, <2>1, <2>2, SumEmpty
<1>5. NoAccesses' = NoAccesses
  BY DEF NoAccesses
<1>. QED
  BY <1>1, <1>2, <1>3, <1>4, <1>5 DEF StatsInv, Accounted

\* No page of the baseline is as far away as the pool, and who is accounted shares
\* its pages.
LEMMA AccountSocketAsserts ==
    ASSUME IInv, AccountSocket
    PROVE  ~aborted'
<1>1. PICK s \in Sockets : s = i_socket
  BY AccountSocketOwners
<1>2. aborted' = ~AssertsHold(UsedBy(s))
  BY <1>1 DEF AccountSocket, UsedBy
<1>3. ASSUME NEW p \in UsedBy(s)
      PROVE  Sharers(p) > 0 /\ gethop(s, page_owner'[p]) < 3
  <2>1. p \in Pages /\ s \in SharersOf(accesses, p)
    BY DEF UsedBy
  <2>2. SharersOf(accesses, p) \subseteq Sockets
    BY DEF SharersOf
  <2>3. IsFiniteSet(SharersOf(accesses, p))
    BY <2>2, FiniteSockets, FS_Subset
  <2>4. Sharers(p) # 0 /\ Sharers(p) \in Nat
    BY <2>1, <2>3, FS_EmptySet, FS_CardinalityType DEF Sharers
  <2>5. page_owner'[p] \in Sockets
    BY <1>1, AccountSocketPages
  <2>6. page_owner'[p] # CXO
    BY <2>5, PoolAssumption
  <2>7. gethop(s, page_owner'[p]) \in Hops /\ gethop(s, page_owner'[p]) # 3
    BY <2>6, HopIsCounted
  <2>. QED
    BY <2>4, <2>7 DEF Hops
<1>4. AssertsHold(UsedBy(s))
  BY <1>1, <1>3 DEF AssertsHold
<1>. QED
  BY <1>2, <1>4

LEMMA AccountSocketStatsInv ==
    ASSUME IInv, StatsInv, program = "simulator", AccountSocket
    PROVE  StatsInv'
<1>1. StatsOK /\ ArraysAgree /\ HopsAccounted
  BY DEF StatsInv, Accounted
<1>2. accesses # NoAccesses /\ UNCHANGED <<accesses, program>>
  BY DEF StatsInv, Accounted, AccountSocket
<1>3. StatsOK'
  BY <1>1, AccountSocketStats
<1>4. HopsBySharers' /\ TotalsAgree' /\ SocketsAgree' /\ LinksAgree' /\ PoolAgrees'
  BY <1>1, <1>3, AccountSocketSharers, AccountSocketTotals, AccountSocketMemories,
     AccountSocketLinks, AccountSocketPool DEF ArraysAgree
<1>5. HopsAccounted'
  BY <1>1, <1>2, AccountSocketHops
<1>6. NoAccesses' = NoAccesses
  BY DEF NoAccesses
<1>7. ~aborted'
  BY AccountSocketAsserts
<1>. QED
  BY <1>2, <1>3, <1>4, <1>5, <1>6, <1>7 DEF StatsInv, ArraysAgree, Accounted

\* The maps that are saved have the owners that the sockets were accounted by.
LEMMA SaveMapsStats ==
    ASSUME IInv, StatsInv, SaveMaps
    PROVE  StatsInv'
<1>1. /\ UNCHANGED <<hop_hist, hist_access_sharers, link_traffic, CI_traffic, mem_traffic>>
      /\ UNCHANGED <<program, i_socket, accesses, aborted>>
      /\ ~inLoop /\ inLoop'
      /\ dumped' = [owner |-> page_owner, owner_CI |-> page_owner_CI]
  BY DEF SaveMaps, EnterLoop
<1>2. \A m \in Maps : OwnerOf(m)' = OwnerOf(m)
  BY <1>1 DEF OwnerOf, Saved
<1>. QED
  BY <1>1, <1>2, SameHops

\* What the loop reassigns are not the maps saved.
LEMMA ReassignStats ==
    ASSUME StatsInv, inLoop, Reassign, UNCHANGED <<program, i_socket, aborted, stats>>
    PROVE  StatsInv'
<1>1. /\ UNCHANGED <<hop_hist, hist_access_sharers, link_traffic, CI_traffic, mem_traffic>>
      /\ UNCHANGED <<program, i_socket, aborted, accesses, inLoop, dumped>>
  BY DEF Reassign, stats
<1>2. \A m \in Maps : OwnerOf(m)' = OwnerOf(m)
  BY <1>1 DEF OwnerOf, Saved
<1>. QED
  BY <1>1, <1>2, SameHops

LEMMA EndSimulationStats ==
    ASSUME IInv, IInv', StatsInv, EndSimulation
    PROVE  StatsInv'
<1>1. /\ NothingCounted' /\ accesses' = NoAccesses
      /\ i_socket' = N_SOCKETS
  <2>1. inLoop /\ NoStats /\ accesses' = NoAccesses /\ i_socket' = i_socket
    BY DEF EndSimulation, LeaveLoop, PhaseLocals
  <2>2. NothingCounted'
    BY <2>1 DEF NothingCounted, NoStats, NoHops, NoSharers, NoLinks, NoTraffic
  <2>. QED
    BY <2>1, <2>2 DEF IInv, Control
<1>2. StatsOK' /\ ArraysAgree' /\ NoHopsCounted'
  BY <1>1, NothingAgrees, PTL
<1>3. NothingHopped'
  <2>1. (accesses = NoAccesses)'
    BY <1>1 DEF NoAccesses
  <2>. QED
    BY <2>1, NothingTravels, PTL
<1>4. HopsAccounted'
  BY <1>2, <1>3 DEF HopsAccounted, NoHopsCounted, NothingHopped
<1>5. ~(i_socket' < N_SOCKETS) /\ ~aborted'
  BY <1>1, PoolAssumption DEF EndSimulation, StatsInv
<1>. QED
  BY <1>2, <1>4, <1>5 DEF StatsInv, Accounted

LEMMA StatsStep ==
    ASSUME IInv, StatsInv, Generate \/ Simulate
    PROVE  StatsInv'
<1>1. CASE Generate
  BY <1>1, GenerateStats
<1>2. CASE Simulate
  <2>1. program = "simulator"
    BY <1>2 DEF Simulate
  <2>2. CASE \E ph \in Phases : SimulatePhase(ph)
    BY <2>1, <2>2, SimulatePhaseStats
  <2>3. CASE AccountSocket
    BY <2>1, <2>3, AccountSocketStatsInv
  <2>4. CASE SaveMaps
    BY <2>4, SaveMapsStats
  <2>5. CASE Reassign /\ UNCHANGED <<program, i_socket, aborted, stats>>
    BY <2>5, ReassignStats DEF Reassign, Continues
  <2>6. CASE EndSimulation
    <3>1. IInv'
      BY StepIInv
    <3>. QED
      BY <2>6, <3>1, EndSimulationStats
  <2>. QED
    BY <1>2, <2>2, <2>3, <2>4, <2>5, <2>6 DEF Simulate
<1>. QED
  BY <1>1, <1>2

LEMMA StatsStutter ==
    ASSUME StatsInv, UNCHANGED simVars
    PROVE  StatsInv'
<1>1. /\ UNCHANGED <<hop_hist, hist_access_sharers, link_traffic, CI_traffic, mem_traffic>>
      /\ UNCHANGED <<program, i_socket, aborted, accesses, inLoop, dumped, page_owner,
                     page_owner_CI>>
  BY DEF simVars, vars, persistent, baseline, island, stats
<1>2. \A m \in Maps : OwnerOf(m)' = OwnerOf(m)
  BY <1>1 DEF OwnerOf, Saved
<1>. QED
  BY <1>1, <1>2, SameHops

LEMMA StatsInvariant ==
    ProgramSpec => [](IInv /\ StatsInv)
BY InitIInv, StepIInv, StutterIInv, StatsInit, StatsStep, StatsStutter, PTL DEF ProgramSpec

\* No assert of the accounting fails, and when the maps are saved, they explain the
\* histograms of hops: of the baseline and of the island, each access counted as far
\* away as its page's saved owner is.  A page that a socket was accounted for keeps
\* its owner until the maps are saved (HopsAccounted), and the loop reassigns other
\* maps than the saved ones.
THEOREM HopsMatchMaps ==
    ProgramSpec => []HopsMatchSavedMap
<1>1. IInv /\ StatsInv => HopsMatchSavedMap
  <2>1. IInv /\ StatsInv /\ program = "simulator" => HopsMatchSavedMap
    BY HopsAccountedExact DEF StatsInv, Accounted
  <2>2. ~aborted /\ program # "simulator" => HopsMatchSavedMap
    BY DEF HopsMatchSavedMap, Simulated
  <2>. QED
    BY <2>1, <2>2 DEF StatsInv
<1>. QED
  BY StatsInvariant, <1>1, PTL

\* The arrays agree, whatever the owners: each grows by sums over the pages of one
\* socket, which the lemmas sort by kind, by hops, by owner and by memory or pool.
\* The code adds to the memories' array at the socket that asks (LinksAgree), so that
\* all memories together serve what comes over all links.
THEOREM TrafficAgrees ==
    ProgramSpec => []TrafficAddsUp
<1>1. ASSUME StatsOK, SocketsAgree, LinksAgree
      PROVE  /\ \A s \in Sockets :
                   LinksFrom("island", s) + CI_traffic["r"][s] + CI_traffic["w"][s]
                     = LinksFrom("baseline", s)
             /\ \A m \in Maps :
                   SumFunction(mem_traffic[m])
                     = SumFunction([s \in Sockets |-> LinksFrom(m, s)])
  <2>1. \A m \in Maps, s \in Sockets : LinksFrom(m, s) = mem_traffic[m][s]
    BY <1>1 DEF LinksAgree, LinksFrom
  <2>2. ASSUME NEW m \in Maps
        PROVE  mem_traffic[m] = [s \in Sockets |-> LinksFrom(m, s)]
    <3>1. PICK f \in [Sockets -> Nat] : f = mem_traffic[m]
      BY <1>1 DEF StatsOK
    <3>. QED
      BY <2>1, <3>1
  <2>3. "island" \in Maps /\ "baseline" \in Maps
    BY DEF Maps
  <2>. QED
    BY <1>1, <2>1, <2>2, <2>3 DEF SocketsAgree
<1>2. IInv /\ StatsInv => TrafficAddsUp
  BY <1>1 DEF StatsInv, ArraysAgree, TrafficAddsUp, HopsBySharers, TotalsAgree, PoolAgrees
<1>. QED
  BY StatsInvariant, <1>2, PTL

=============================================================================
