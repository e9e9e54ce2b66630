---------------------------- MODULE SumTheorems ----------------------------
(***************************************************************************)
(* Facts the proofs of several components rest on: the least and the       *)
(* greatest number of a set and counting up; and SumFunctionOnSet of the   *)
(* community modules, the sum of the values a function has on a finite     *)
(* set: its equation, its type, that the order of the elements does not    *)
(* matter, what becomes of a sum when its set or its function changes, and *)
(* sums of sums.  Induction is had from the well-foundedness of the order  *)
(* of the numbers and of the inclusion of finite sets, applied to a set.   *)
(***************************************************************************)
EXTENDS Functions, FiniteSetTheorems, WellFoundedInduction, TLAPS

-----------------------------------------------------------------------------
(* Natural numbers.                                                        *)

\* A set of natural numbers has a least one.
LEMMA LeastNumber ==
    ASSUME NEW S \in SUBSET Nat, S # {}
    PROVE  \E n \in S : \A m \in S : n <= m
<1>. DEFINE R == {ss \in Nat \X Nat : ss[1] < ss[2]}
<1>1. IsWellFoundedOn(R, Nat)
  BY NatLessThanWellFounded DEF OpToRel
<1>2. PICK n \in S : \A m \in S : ~ (<<m, n>> \in R)
  <2>. HIDE DEF R
  <2>. QED
    BY <1>1, WFMin
<1>3. \A m \in S : n <= m
  <2>. SUFFICES ASSUME NEW m \in S PROVE n <= m
    OBVIOUS
  <2>1. n \in Nat /\ m \in Nat
    OBVIOUS
  <2>2. ~ (m < n)
    BY <1>2, <2>1
  <2>. QED
    BY <2>1, <2>2
<1>. QED
  BY <1>3

\* A set of natural numbers up to n has a greatest one.
LEMMA GreatestNumber ==
    ASSUME NEW n \in Nat, NEW S \in SUBSET (0 .. n), S # {}
    PROVE  \E w \in S : \A v \in S : v <= w
<1>1. PICK T : T = {n - w : w \in S}
  OBVIOUS
<1>2. T \in SUBSET Nat /\ T # {}
  <2>1. \A w \in S : n - w \in Nat
    OBVIOUS
  <2>. QED
    BY <1>1, <2>1
<1>3. PICK m \in T : \A k \in T : m <= k
  BY <1>2, LeastNumber
<1>4. PICK w \in S : m = n - w
  BY <1>1
<1>5. \A v \in S : v <= w
  <2>. SUFFICES ASSUME NEW v \in S PROVE v <= w
    OBVIOUS
  <2>1. n - v \in T
    BY <1>1
  <2>2. n - w <= n - v
    BY <1>3, <1>4, <2>1
  <2>. QED
    BY <2>2
<1>. QED
  BY <1>5

\* Induction up to n.
LEMMA CountUp ==
    ASSUME NEW n \in Nat, NEW P, 0 \in P, \A k \in 1 .. n : k - 1 \in P => k \in P
    PROVE  \A k \in 0 .. n : k \in P
<1>1. SUFFICES ASSUME NEW j \in 0 .. n, j \notin P PROVE FALSE
  OBVIOUS
<1>2. PICK S : S = {k \in 0 .. n : k \notin P}
  OBVIOUS
<1>3. S \in SUBSET Nat /\ S # {}
  BY <1>1, <1>2
<1>4. PICK k \in S : \A m \in S : k <= m
  BY <1>3, LeastNumber
<1>5. k \in 1 .. n /\ k \notin P
  BY <1>2, <1>4
<1>6. k - 1 \in 0 .. n /\ ~ (k <= k - 1)
  BY <1>5
<1>7. k - 1 \in P
  BY <1>2, <1>4, <1>6
<1>. QED
  BY <1>5, <1>7

-----------------------------------------------------------------------------
(* Induction over the subsets of a finite set.                             *)

\* A set of subsets of S that has every subset whose strict subsets it has,
\* has S.
LEMMA SubsetInduction ==
    ASSUME NEW S, IsFiniteSet(S), NEW P,
           \A T \in SUBSET S : (\A U \in SUBSET T : U # T => U \in P) => T \in P
    PROVE  \A T \in SUBSET S : T \in P
<1>. DEFINE Missed == {T \in SUBSET S : T \notin P}
<1>1. IsWellFoundedOn(StrictSubsetOrdering(S), SUBSET S)
  BY FS_StrictSubsetOrderingWellFounded, FS_FiniteSubsetsOfFinite
<1>2. Missed = {}
  <2>. SUFFICES ASSUME Missed # {} PROVE FALSE
    OBVIOUS
  <2>1. Missed \subseteq SUBSET S
    OBVIOUS
  <2>2. PICK T \in Missed : \A U \in Missed : ~ (<<U, T>> \in StrictSubsetOrdering(S))
    <3>. HIDE DEF Missed
    <3>. QED
      BY <1>1, <2>1, WFMin
  <2>3. ASSUME NEW U \in SUBSET T, U # T PROVE U \in P
    <3>1. U \in SUBSET S /\ T \in SUBSET S
      BY <2>2
    <3>2. <<U, T>> \in StrictSubsetOrdering(S)
      BY <3>1, <2>3 DEF StrictSubsetOrdering
    <3>. QED
      BY <2>2, <3>1, <3>2
  <2>4. T \in P
    BY <2>2, <2>3
  <2>. QED
    BY <2>2, <2>4
<1>. QED
  BY <1>2

\* A set of subsets of S that has the empty set, and with a set the set and one
\* more element of S, has S.
LEMMA ElementInduction ==
    ASSUME NEW S, IsFiniteSet(S), NEW P, {} \in P,
           \A T \in SUBSET S : \A x \in S \ T : T \in P => T \cup {x} \in P
    PROVE  S \in P
<1>1. ASSUME NEW T \in SUBSET S, \A U \in SUBSET T : U # T => U \in P
      PROVE  T \in P
  <2>1. CASE T = {}
    BY <2>1
  <2>2. CASE T # {}
    <3>1. PICK x \in T : TRUE
      BY <2>2
    <3>2. T \ {x} \in P
      BY <3>1, <1>1
    <3>3. T \ {x} \in SUBSET S /\ x \in S \ (T \ {x})
      BY <3>1
    <3>4. (T \ {x}) \cup {x} \in P
      BY <3>2, <3>3
    <3>5. (T \ {x}) \cup {x} = T
      BY <3>1
    <3>. QED
      BY <3>4, <3>5
  <2>. QED
    BY <2>1, <2>2
<1>2. \A T \in SUBSET S : T \in P
  BY <1>1, SubsetInduction
<1>. QED
  BY <1>2

-----------------------------------------------------------------------------
(* The equation of a sum.                                                  *)

Some(s) == CHOOSE x \in s : TRUE

\* g has the sums of f over the subsets of S, each by the element it chooses
IsPartialSums(f, S, g) ==
    g = [s \in SUBSET S |-> IF s = {} THEN 0 ELSE f[Some(s)] + g[s \ {Some(s)}]]

\* A sum is the last of its partial sums.
LEMMA SumDef ==
    ASSUME NEW f, NEW S
    PROVE  SumFunctionOnSet(f, S) = (CHOOSE g : IsPartialSums(f, S, g))[S]
BY DEF SumFunctionOnSet, FoldFunctionOnSet, MapThenFoldSet, IsPartialSums, Some

\* A partial sum is one value and the partial sum without it.
LEMMA PartialSumsStep ==
    ASSUME NEW f, NEW S, NEW g, IsPartialSums(f, S, g), NEW s \in SUBSET S
    PROVE  /\ s = {} => g[s] = 0
           /\ s # {} => /\ Some(s) \in s
                        /\ s \ {Some(s)} \in SUBSET S
                        /\ g[s] = f[Some(s)] + g[s \ {Some(s)}]
<1>1. g[s] = IF s = {} THEN 0 ELSE f[Some(s)] + g[s \ {Some(s)}]
  BY DEF IsPartialSums
<1>2. s # {} => Some(s) \in s
  BY DEF Some
<1>. QED
  BY <1>1, <1>2

\* The partial sums over a smaller set are the same.
LEMMA PartialSumsAgree ==
    ASSUME NEW f, NEW S, NEW T \in SUBSET S, IsFiniteSet(T),
           NEW g, IsPartialSums(f, S, g), NEW h, IsPartialSums(f, T, h)
    PROVE  h[T] = g[T]
<1>. DEFINE P == {s \in SUBSET T : h[s] = g[s]}
<1>1. ASSUME NEW s \in SUBSET T, \A u \in SUBSET s : u # s => u \in P
      PROVE  s \in P
  <2>1. CASE s = {}
    BY <2>1, PartialSumsStep
  <2>2. CASE s # {}
    <3>1. /\ Some(s) \in s
          /\ h[s] = f[Some(s)] + h[s \ {Some(s)}]
      BY <2>2, PartialSumsStep
    <3>2. s \in SUBSET S
      OBVIOUS
    <3>3. g[s] = f[Some(s)] + g[s \ {Some(s)}]
      BY <2>2, <3>2, PartialSumsStep
    <3>4. h[s \ {Some(s)}] = g[s \ {Some(s)}]
      BY <1>1, <3>1
    <3>. QED
      BY <3>1, <3>3, <3>4
  <2>. QED
    BY <2>1, <2>2
<1>2. \A s \in SUBSET T : s \in P
  <2>. HIDE DEF P
  <2>. QED
    BY <1>1, SubsetInduction
<1>. QED
  BY <1>2

\* Partial sums exist: those of a set are had from those of its strict subsets.
LEMMA PartialSumsExist ==
    ASSUME NEW f, NEW S, IsFiniteSet(S)
    PROVE  \E g : IsPartialSums(f, S, g)
<1>. DEFINE P == {T \in SUBSET S : \E g : IsPartialSums(f, T, g)}
            Sum(T) == (CHOOSE g : IsPartialSums(f, T, g))[T]
<1>1. ASSUME NEW T \in SUBSET S, \A U \in SUBSET T : U # T => U \in P
      PROVE  T \in P
  <2>. DEFINE value(s) == IF s = {} THEN 0 ELSE f[Some(s)] + Sum(s \ {Some(s)})
              G == [s \in SUBSET T |-> value(s)]
  <2>1. ASSUME NEW s \in SUBSET T, s # T
        PROVE  Sum(s) = value(s)
    <3>1. PICK g : g = CHOOSE h : IsPartialSums(f, s, h)
      OBVIOUS
    <3>2. IsPartialSums(f, s, g) /\ Sum(s) = g[s]
      BY <1>1, <2>1, <3>1
    <3>3. CASE s = {}
      BY <3>2, <3>3, PartialSumsStep
    <3>4. CASE s # {}
      <4>1. PICK t : t = s \ {Some(s)}
        OBVIOUS
      <4>2. Some(s) \in s /\ t \in SUBSET s /\ g[s] = f[Some(s)] + g[t]
        BY <3>2, <3>4, <4>1, PartialSumsStep
      <4>3. t \in SUBSET T /\ t # T
        BY <4>1, <4>2
      <4>4. PICK h : h = CHOOSE k : IsPartialSums(f, t, k)
        OBVIOUS
      <4>5. IsPartialSums(f, t, h) /\ Sum(t) = h[t]
        BY <1>1, <4>3, <4>4
      <4>6. IsFiniteSet(t)
        BY <4>3, FS_Subset
      <4>7. h[t] = g[t]
        BY <3>2, <4>2, <4>5, <4>6, PartialSumsAgree
      <4>. QED
        BY <3>2, <3>4, <4>1, <4>2, <4>5, <4>7
    <3>. QED
      BY <3>3, <3>4
  <2>2. ASSUME NEW s \in SUBSET T
        PROVE  G[s] = IF s = {} THEN 0 ELSE f[Some(s)] + G[s \ {Some(s)}]
    <3>1. CASE s = {}
      BY <3>1
    <3>2. CASE s # {}
      <4>1. PICK t : t = s \ {Some(s)}
        OBVIOUS
      <4>2. t \in SUBSET T /\ t # T
        BY <3>2, <4>1 DEF Some
      <4>3. G[t] = Sum(t)
        BY <4>2, <2>1
      <4>. QED
        BY <3>2, <4>1, <4>3
    <3>. QED
      BY <3>1, <3>2
  <2>3. IsPartialSums(f, T, G)
    <3>1. G = [s \in SUBSET T |-> G[s]]
      OBVIOUS
    <3>. HIDE DEF G
    <3>. QED
      BY <2>2, <3>1 DEF IsPartialSums
  <2>. QED
    BY <2>3
<1>2. \A T \in SUBSET S : T \in P
  <2>. HIDE DEF P
  <2>. QED
    BY <1>1, SubsetInduction
<1>. QED
  BY <1>2

\* The sum over no element is zero, and any other sum is the value at the
\* element chosen and the sum of the rest.
LEMMA SumEquation ==
    ASSUME NEW f, NEW S, IsFiniteSet(S)
    PROVE  /\ S = {} => SumFunctionOnSet(f, S) = 0
           /\ S # {} => /\ Some(S) \in S
                        /\ SumFunctionOnSet(f, S)
                             = f[Some(S)] + SumFunctionOnSet(f, S \ {Some(S)})
<1>1. PICK g : g = CHOOSE h : IsPartialSums(f, S, h)
  OBVIOUS
<1>2. IsPartialSums(f, S, g) /\ SumFunctionOnSet(f, S) = g[S]
  BY <1>1, PartialSumsExist, SumDef
<1>3. S \in SUBSET S
  OBVIOUS
<1>4. ASSUME S # {}
      PROVE  /\ Some(S) \in S
             /\ SumFunctionOnSet(f, S) = f[Some(S)] + SumFunctionOnSet(f, S \ {Some(S)})
  <2>1. PICK T : T = S \ {Some(S)}
    OBVIOUS
  <2>2. Some(S) \in S /\ T \in SUBSET S /\ g[S] = f[Some(S)] + g[T]
    BY <1>2, <1>3, <1>4, <2>1, PartialSumsStep
  <2>3. IsFiniteSet(T)
    BY <2>2, FS_Subset
  <2>4. PICK h : h = CHOOSE k : IsPartialSums(f, T, k)
    OBVIOUS
  <2>5. IsPartialSums(f, T, h) /\ SumFunctionOnSet(f, T) = h[T]
    BY <2>3, <2>4, PartialSumsExist, SumDef
  <2>6. h[T] = g[T]
    BY <1>2, <2>2, <2>3, <2>5, PartialSumsAgree
  <2>. QED
    BY <1>2, <2>1, <2>2, <2>5, <2>6
<1>5. S = {} => g[S] = 0
  BY <1>2, <1>3, PartialSumsStep
<1>. QED
  BY <1>2, <1>4, <1>5

-----------------------------------------------------------------------------
(* The elements of a sum.                                                  *)

Counts(f, S) == \A x \in S : f[x] \in Nat

\* A sum of natural numbers is one.
LEMMA SumType ==
    ASSUME NEW f, NEW S, IsFiniteSet(S), Counts(f, S)
    PROVE  SumFunctionOnSet(f, S) \in Nat
<1>. DEFINE P == {T \in SUBSET S : SumFunctionOnSet(f, T) \in Nat}
<1>1. ASSUME NEW T \in SUBSET S, \A U \in SUBSET T : U # T => U \in P
      PROVE  T \in P
  <2>1. IsFiniteSet(T)
    BY FS_Subset
  <2>2. CASE T = {}
    <3>1. SumFunctionOnSet(f, T) = 0
      BY <2>1, <2>2, SumEquation
    <3>. QED
      BY <3>1
  <2>3. CASE T # {}
    <3>1. /\ Some(T) \in T
          /\ SumFunctionOnSet(f, T) = f[Some(T)] + SumFunctionOnSet(f, T \ {Some(T)})
      BY <2>1, <2>3, SumEquation
    <3>2. T \ {Some(T)} \in P /\ f[Some(T)] \in Nat
      BY <1>1, <3>1 DEF Counts
    <3>. QED
      BY <3>1, <3>2
  <2>. QED
    BY <2>2, <2>3
<1>2. \A T \in SUBSET S : T \in P
  <2>. HIDE DEF P
  <2>. QED
    BY <1>1, SubsetInduction
<1>. QED
  BY <1>2

\* Any element may be the first.
LEMMA SumRemove ==
    ASSUME NEW f, NEW S, IsFiniteSet(S), Counts(f, S), NEW x \in S
    PROVE  SumFunctionOnSet(f, S) = f[x] + SumFunctionOnSet(f, S \ {x})
<1>. DEFINE P == {T \in SUBSET S : \A y \in T :
                    SumFunctionOnSet(f, T) = f[y] + SumFunctionOnSet(f, T \ {y})}
<1>1. ASSUME NEW T \in SUBSET S, \A U \in SUBSET T : U # T => U \in P
      PROVE  T \in P
  <2>. SUFFICES ASSUME NEW y \in T
                PROVE  SumFunctionOnSet(f, T) = f[y] + SumFunctionOnSet(f, T \ {y})
    OBVIOUS
  <2>1. \A U \in SUBSET T : IsFiniteSet(U) /\ SumFunctionOnSet(f, U) \in Nat
    <3>. SUFFICES ASSUME NEW U \in SUBSET T
                  PROVE  IsFiniteSet(U) /\ SumFunctionOnSet(f, U) \in Nat
      OBVIOUS
    <3>1. IsFiniteSet(U)
      BY FS_Subset
    <3>2. Counts(f, U)
      BY DEF Counts
    <3>. QED
      BY <3>1, <3>2, SumType
  <2>2. PICK z : z = Some(T)
    OBVIOUS
  <2>3. z \in T /\ SumFunctionOnSet(f, T) = f[z] + SumFunctionOnSet(f, T \ {z})
    BY <2>1, <2>2, SumEquation
  <2>4. CASE y = z
    BY <2>3, <2>4
  <2>5. CASE y # z
    <3>1. PICK A, B, C : A = T \ {z} /\ B = T \ {y} /\ C = T \ {y, z}
      OBVIOUS
    <3>2. /\ A \in SUBSET T /\ A # T /\ y \in A /\ A \ {y} = C
          /\ B \in SUBSET T /\ B # T /\ z \in B /\ B \ {z} = C
          /\ C \in SUBSET T
      BY <2>3, <2>5, <3>1
    <3>3. /\ SumFunctionOnSet(f, A) = f[y] + SumFunctionOnSet(f, C)
          /\ SumFunctionOnSet(f, B) = f[z] + SumFunctionOnSet(f, C)
      BY <1>1, <3>2
    <3>4. f[y] \in Nat /\ f[z] \in Nat /\ SumFunctionOnSet(f, C) \in Nat
      BY <2>1, <2>3, <3>2 DEF Counts
    <3>. QED
      BY <2>3, <3>1, <3>3, <3>4
  <2>. QED
    BY <2>4, <2>5
<1>2. \A T \in SUBSET S : T \in P
  <2>. HIDE DEF P
  <2>. QED
    BY <1>1, SubsetInduction
<1>. QED
  BY <1>2

\* One more element adds its value.
LEMMA SumAdd ==
    ASSUME NEW f, NEW S, IsFiniteSet(S), NEW x, x \notin S, Counts(f, S \cup {x})
    PROVE  SumFunctionOnSet(f, S \cup {x}) = f[x] + SumFunctionOnSet(f, S)
<1>1. IsFiniteSet(S \cup {x})
  BY FS_AddElement
<1>2. (S \cup {x}) \ {x} = S
  OBVIOUS
<1>. QED
  BY <1>1, <1>2, SumRemove

\* No element adds up to nothing.
LEMMA SumEmpty ==
    ASSUME NEW f
    PROVE  SumFunctionOnSet(f, {}) = 0
BY SumEquation, FS_EmptySet

\* One element adds up to its value.
LEMMA SumOne ==
    ASSUME NEW f, NEW x, f[x] \in Nat
    PROVE  SumFunctionOnSet(f, {x}) = f[x]
<1>1. IsFiniteSet({}) /\ {} \cup {x} = {x} /\ x \notin {}
  BY FS_EmptySet
<1>2. Counts(f, {} \cup {x})
  BY DEF Counts
<1>3. SumFunctionOnSet(f, {} \cup {x}) = f[x] + SumFunctionOnSet(f, {})
  BY <1>1, <1>2, SumAdd
<1>. QED
  BY <1>1, <1>3, SumEmpty

-----------------------------------------------------------------------------
(* Sums of related functions.                                              *)

\* The sum of the values that two functions add up to is the sum of theirs.
LEMMA SumPlus ==
    ASSUME NEW f, NEW g, NEW h, NEW S, IsFiniteSet(S), Counts(f, S), Counts(g, S),
           \A x \in S : h[x] = f[x] + g[x]
    PROVE  SumFunctionOnSet(h, S) = SumFunctionOnSet(f, S) + SumFunctionOnSet(g, S)
<1>. DEFINE P == {T \in SUBSET S :
                    SumFunctionOnSet(h, T) = SumFunctionOnSet(f, T) + SumFunctionOnSet(g, T)}
<1>1. {} \in P
  BY SumEmpty
<1>2. ASSUME NEW T \in SUBSET S, NEW x \in S \ T, T \in P
      PROVE  T \cup {x} \in P
  <2>1. IsFiniteSet(T) /\ T \cup {x} \in SUBSET S
    BY FS_Subset
  <2>2. /\ Counts(f, T) /\ Counts(f, T \cup {x})
        /\ Counts(g, T) /\ Counts(g, T \cup {x})
        /\ Counts(h, T \cup {x})
        /\ f[x] \in Nat /\ g[x] \in Nat /\ h[x] = f[x] + g[x]
    BY DEF Counts
  <2>3. /\ SumFunctionOnSet(f, T \cup {x}) = f[x] + SumFunctionOnSet(f, T)
        /\ SumFunctionOnSet(g, T \cup {x}) = g[x] + SumFunctionOnSet(g, T)
        /\ SumFunctionOnSet(h, T \cup {x}) = h[x] + SumFunctionOnSet(h, T)
    BY <2>1, <2>2, SumAdd
  <2>4. SumFunctionOnSet(f, T) \in Nat /\ SumFunctionOnSet(g, T) \in Nat
    BY <2>1, <2>2, SumType
  <2>5. SumFunctionOnSet(h, T) = SumFunctionOnSet(f, T) + SumFunctionOnSet(g, T)
    BY <1>2
  <2>. QED
    BY <2>1, <2>2, <2>3, <2>4, <2>5
<1>3. S \in P
  <2>. HIDE DEF P
  <2>. QED
    BY <1>1, <1>2, ElementInduction
<1>. QED
  BY <1>3

\* Only the values on the set matter.
LEMMA SumSame ==
    ASSUME NEW f, NEW g, NEW S, IsFiniteSet(S), Counts(f, S),
           \A x \in S : g[x] = f[x]
    PROVE  SumFunctionOnSet(g, S) = SumFunctionOnSet(f, S)
<1>. DEFINE P == {T \in SUBSET S : SumFunctionOnSet(g, T) = SumFunctionOnSet(f, T)}
<1>1. {} \in P
  BY SumEmpty
<1>2. ASSUME NEW T \in SUBSET S, NEW x \in S \ T, T \in P
      PROVE  T \cup {x} \in P
  <2>1. IsFiniteSet(T) /\ T \cup {x} \in SUBSET S
    BY FS_Subset
  <2>2. Counts(f, T \cup {x}) /\ Counts(g, T \cup {x})
    BY DEF Counts
  <2>3. /\ SumFunctionOnSet(f, T \cup {x}) = f[x] + SumFunctionOnSet(f, T)
        /\ SumFunctionOnSet(g, T \cup {x}) = g[x] + SumFunctionOnSet(g, T)
    BY <2>1, <2>2, SumAdd
  <2>. QED
    BY <1>2, <2>1, <2>3
<1>3. S \in P
  <2>. HIDE DEF P
  <2>. QED
    BY <1>1, <1>2, ElementInduction
<1>. QED
  BY <1>3

\* A value of zero adds nothing, wherever.
LEMMA SumSupport ==
    ASSUME NEW f, NEW S, IsFiniteSet(S), NEW T \in SUBSET S, Counts(f, T),
           \A x \in S \ T : f[x] = 0
    PROVE  SumFunctionOnSet(f, S) = SumFunctionOnSet(f, T)
<1>. DEFINE R == S \ T
            P == {U \in SUBSET R : SumFunctionOnSet(f, T \cup U) = SumFunctionOnSet(f, T)}
<1>1. IsFiniteSet(R) /\ IsFiniteSet(T)
  BY FS_Subset
<1>2. {} \in P
  <2>1. T \cup {} = T
    OBVIOUS
  <2>. QED
    BY <2>1
<1>3. ASSUME NEW U \in SUBSET R, NEW x \in R \ U, U \in P
      PROVE  U \cup {x} \in P
  <2>1. PICK V : V = T \cup U
    OBVIOUS
  <2>2. /\ V \in SUBSET S /\ x \notin V /\ V \cup {x} = T \cup (U \cup {x})
        /\ U \cup {x} \in SUBSET R
    BY <2>1
  <2>3. IsFiniteSet(V)
    BY <2>2, FS_Subset
  <2>4. Counts(f, V) /\ Counts(f, V \cup {x}) /\ f[x] = 0
    BY <2>1 DEF Counts
  <2>5. SumFunctionOnSet(f, V \cup {x}) = f[x] + SumFunctionOnSet(f, V)
    BY <2>2, <2>3, <2>4, SumAdd
  <2>6. SumFunctionOnSet(f, V) \in Nat
    BY <2>3, <2>4, SumType
  <2>7. SumFunctionOnSet(f, V \cup {x}) = SumFunctionOnSet(f, V)
    BY <2>4, <2>5, <2>6
  <2>. QED
    BY <1>3, <2>1, <2>2, <2>7
<1>4. R \in P
  <2>. HIDE DEF P, R
  <2>. QED
    BY <1>1, <1>2, <1>3, ElementInduction
<1>5. T \cup R = S
  OBVIOUS
<1>. QED
  BY <1>4, <1>5

\* The sum over a set is the sum over a part and over the rest.
LEMMA SumUnion ==
    ASSUME NEW f, NEW S, IsFiniteSet(S), Counts(f, S), NEW A \in SUBSET S,
           NEW B, B = S \ A
    PROVE  SumFunctionOnSet(f, S) = SumFunctionOnSet(f, A) + SumFunctionOnSet(f, B)
<1>1. PICK g : g = [x \in S |-> IF x \in A THEN f[x] ELSE 0]
  OBVIOUS
<1>2. PICK h : h = [x \in S |-> IF x \in A THEN 0 ELSE f[x]]
  OBVIOUS
<1>3. B \in SUBSET S /\ IsFiniteSet(A) /\ IsFiniteSet(B)
  BY FS_Subset
<1>4. /\ Counts(g, S) /\ Counts(h, S) /\ Counts(g, A) /\ Counts(h, B)
      /\ Counts(f, A) /\ Counts(f, B)
      /\ \A x \in S : f[x] = g[x] + h[x]
      /\ \A x \in A : g[x] = f[x]
      /\ \A x \in B : h[x] = f[x]
      /\ \A x \in S \ A : g[x] = 0
      /\ \A x \in S \ B : h[x] = 0
  BY <1>1, <1>2, <1>3 DEF Counts
<1>5. SumFunctionOnSet(f, S) = SumFunctionOnSet(g, S) + SumFunctionOnSet(h, S)
  BY <1>4, SumPlus
<1>6. SumFunctionOnSet(g, S) = SumFunctionOnSet(g, A)
  BY <1>4, SumSupport
<1>7. SumFunctionOnSet(h, S) = SumFunctionOnSet(h, B)
  BY <1>3, <1>4, SumSupport
<1>8. SumFunctionOnSet(g, A) = SumFunctionOnSet(f, A)
  BY <1>3, <1>4, SumSame
<1>9. SumFunctionOnSet(h, B) = SumFunctionOnSet(f, B)
  BY <1>3, <1>4, SumSame
<1>. QED
  BY <1>5, <1>6, <1>7, <1>8, <1>9

\* A function that differs at one element has a sum that differs as much.
LEMMA SumChange ==
    ASSUME NEW f, NEW g, NEW S, IsFiniteSet(S), Counts(f, S), NEW x \in S,
           NEW d \in Nat, g[x] = f[x] + d, \A y \in S \ {x} : g[y] = f[y]
    PROVE  SumFunctionOnSet(g, S) = SumFunctionOnSet(f, S) + d
<1>1. PICK T : T = S \ {x}
  OBVIOUS
<1>2. T \in SUBSET S /\ IsFiniteSet(T)
  BY <1>1, FS_Subset
<1>3. Counts(g, S) /\ Counts(f, T) /\ Counts(g, T) /\ f[x] \in Nat
  BY <1>1 DEF Counts
<1>4. SumFunctionOnSet(f, S) = f[x] + SumFunctionOnSet(f, T)
  BY <1>1, SumRemove
<1>5. SumFunctionOnSet(g, S) = g[x] + SumFunctionOnSet(g, T)
  BY <1>1, <1>3, SumRemove
<1>6. SumFunctionOnSet(g, T) = SumFunctionOnSet(f, T)
  BY <1>1, <1>2, <1>3, SumSame
<1>7. SumFunctionOnSet(f, T) \in Nat
  BY <1>2, <1>3, SumType
<1>. QED
  BY <1>3, <1>4, <1>5, <1>6, <1>7

-----------------------------------------------------------------------------
(* Sums of sums.                                                           *)

\* The elements of S of class k
Class(c, S, k) == {x \in S : c[x] = k}

\* The elements of a set are sorted into classes: the sums over the classes add up
\* to the sum over the set.
LEMMA SumByClass ==
    ASSUME NEW f, NEW S, IsFiniteSet(S), Counts(f, S), NEW I, IsFiniteSet(I),
           NEW c, \A x \in S : c[x] \in I,
           NEW g, \A k \in I : g[k] = SumFunctionOnSet(f, Class(c, S, k))
    PROVE  SumFunctionOnSet(g, I) = SumFunctionOnSet(f, S)
<1>. DEFINE Of(J) == {x \in S : c[x] \in J}
            P == {J \in SUBSET I : SumFunctionOnSet(g, J) = SumFunctionOnSet(f, Of(J))}
<1>1. {} \in P
  <2>1. Of({}) = {}
    OBVIOUS
  <2>. QED
    BY <2>1, SumEmpty
<1>2. ASSUME NEW J \in SUBSET I, NEW k \in I \ J, J \in P
      PROVE  J \cup {k} \in P
  <2>1. PICK A : A = Class(c, S, k)
    OBVIOUS
  <2>2. PICK B : B = Of(J)
    OBVIOUS
  <2>3. PICK U : U = Of(J \cup {k})
    OBVIOUS
  <2>4. U \in SUBSET S /\ A \in SUBSET U /\ B = U \ A
    BY <2>1, <2>2, <2>3 DEF Class
  <2>5. IsFiniteSet(U) /\ Counts(f, U)
    BY <2>4, FS_Subset DEF Counts
  <2>6. SumFunctionOnSet(f, U) = SumFunctionOnSet(f, A) + SumFunctionOnSet(f, B)
    BY <2>4, <2>5, SumUnion
  <2>7. g[k] = SumFunctionOnSet(f, A) /\ SumFunctionOnSet(g, J) = SumFunctionOnSet(f, B)
    BY <1>2, <2>1, <2>2
  <2>8. IsFiniteSet(J) /\ Counts(g, J \cup {k})
    <3>1. IsFiniteSet(J)
      BY FS_Subset
    <3>2. \A m \in J \cup {k} : g[m] \in Nat
      <4>. SUFFICES ASSUME NEW m \in J \cup {k} PROVE g[m] \in Nat
        OBVIOUS
      <4>1. PICK C : C = Class(c, S, m)
        OBVIOUS
      <4>2. C \in SUBSET S /\ m \in I
        BY <4>1 DEF Class
      <4>3. IsFiniteSet(C) /\ Counts(f, C)
        BY <4>2, FS_Subset DEF Counts
      <4>. QED
        BY <4>1, <4>2, <4>3, SumType
    <3>. QED
      BY <3>1, <3>2 DEF Counts
  <2>9. SumFunctionOnSet(g, J \cup {k}) = g[k] + SumFunctionOnSet(g, J)
    BY <2>8, SumAdd
  <2>10. J \cup {k} \in SUBSET I
    OBVIOUS
  <2>. QED
    BY <2>3, <2>6, <2>7, <2>9, <2>10
<1>3. I \in P
  <2>. HIDE DEF P
  <2>. QED
    BY <1>1, <1>2, ElementInduction
<1>4. Of(I) = S
  OBVIOUS
<1>. QED
  BY <1>3, <1>4

\* A sum does not change when its elements are renamed.
LEMMA SumRenamed ==
    ASSUME NEW g, NEW S, IsFiniteSet(S), Counts(g, S), NEW f, NEW T, IsFiniteSet(T),
           NEW b, \A x \in S : b[x] \in T /\ f[b[x]] = g[x],
           \A x, y \in S : b[x] = b[y] => x = y,
           \A t \in T : \E x \in S : b[x] = t
    PROVE  SumFunctionOnSet(f, T) = SumFunctionOnSet(g, S)
<1>1. ASSUME NEW t \in T
      PROVE  f[t] = SumFunctionOnSet(g, Class(b, S, t))
  <2>1. PICK x \in S : b[x] = t
    OBVIOUS
  <2>2. Class(b, S, t) = {x}
    BY <2>1 DEF Class
  <2>3. SumFunctionOnSet(g, {x}) = g[x]
    BY SumOne DEF Counts
  <2>. QED
    BY <2>1, <2>2, <2>3
<1>. QED
  BY <1>1, SumByClass

\* The values of f on the pairs that begin with a
Row(f, a, B) == [y \in B |-> f[<<a, y>>]]

\* A sum over pairs is a sum of sums.
LEMMA SumPairs ==
    ASSUME NEW f, NEW A, NEW B, IsFiniteSet(A), IsFiniteSet(B), Counts(f, A \X B),
           NEW g, \A a \in A : g[a] = SumFunctionOnSet(Row(f, a, B), B)
    PROVE  SumFunctionOnSet(f, A \X B) = SumFunctionOnSet(g, A)
<1>1. PICK S : S = A \X B
  OBVIOUS
<1>2. PICK c : c = [e \in S |-> e[1]]
  OBVIOUS
<1>3. IsFiniteSet(S) /\ Counts(f, S) /\ \A e \in S : c[e] = e[1] /\ c[e] \in A
  BY <1>1, <1>2, FS_Product
<1>4. ASSUME NEW a \in A
      PROVE  g[a] = SumFunctionOnSet(f, Class(c, S, a))
  <2>1. PICK T : T = Class(c, S, a)
    OBVIOUS
  <2>2. PICK h : h = Row(f, a, B)
    OBVIOUS
  <2>3. PICK b : b = [y \in B |-> <<a, y>>]
    OBVIOUS
  <2>4. IsFiniteSet(T)
    BY <1>3, <2>1, FS_Subset DEF Class
  <2>5. \A y \in B : b[y] \in T /\ f[b[y]] = h[y]
    BY <1>1, <1>3, <2>1, <2>2, <2>3 DEF Class, Row
  <2>6. \A x, y \in B : b[x] = b[y] => x = y
    BY <2>3
  <2>7. \A t \in T : \E y \in B : b[y] = t
    BY <1>1, <1>3, <2>1, <2>3 DEF Class
  <2>8. Counts(h, B)
    BY <1>1, <2>2 DEF Counts, Row
  <2>9. SumFunctionOnSet(f, T) = SumFunctionOnSet(h, B)
    BY <2>4, <2>5, <2>6, <2>7, <2>8, SumRenamed
  <2>. QED
    BY <2>1, <2>2, <2>9
<1>5. SumFunctionOnSet(g, A) = SumFunctionOnSet(f, S)
  BY <1>3, <1>4, SumByClass
<1>. QED
  BY <1>1, <1>5

\* Nothing adds up to nothing.
LEMMA SumNothing ==
    ASSUME NEW f, NEW S, IsFiniteSet(S), \A x \in S : f[x] = 0
    PROVE  SumFunctionOnSet(f, S) = 0
<1>1. Counts(f, {})
  BY DEF Counts
<1>2. PICK T \in SUBSET S : T = {}
  OBVIOUS
<1>3. SumFunctionOnSet(f, S) = SumFunctionOnSet(f, T)
  BY <1>1, <1>2, SumSupport
<1>. QED
  BY <1>2, <1>3, SumEmpty

\* Three terms.
LEMMA SumThree ==
    ASSUME NEW f, NEW a, NEW b, NEW c, a # b, a # c, b # c, Counts(f, {a, b, c})
    PROVE  SumFunctionOnSet(f, {a, b, c}) = f[a] + f[b] + f[c]
<1>1. f[a] \in Nat /\ f[b] \in Nat /\ f[c] \in Nat
  BY DEF Counts
<1>2. PICK B : B = {b} \cup {a}
  OBVIOUS
<1>3. IsFiniteSet({a}) /\ IsFiniteSet(B) /\ {a, b, c} = B \cup {c} /\ c \notin B
  BY <1>2, FS_Singleton, FS_AddElement
<1>4. SumFunctionOnSet(f, {a}) = f[a]
  BY <1>1, SumOne
<1>5. B = {a} \cup {b} /\ b \notin {a} /\ Counts(f, {a} \cup {b}) /\ Counts(f, B \cup {c})
  BY <1>2, <1>1 DEF Counts
<1>6. SumFunctionOnSet(f, B) = f[b] + SumFunctionOnSet(f, {a})
  BY <1>3, <1>5, SumAdd
<1>7. SumFunctionOnSet(f, B \cup {c}) = f[c] + SumFunctionOnSet(f, B)
  BY <1>3, <1>5, SumAdd
<1>8. PICK u \in Nat, v \in Nat, w \in Nat : u = f[a] /\ v = f[b] /\ w = f[c]
  BY <1>1
<1>9. SumFunctionOnSet(f, B \cup {c}) = w + (v + u)
  BY <1>4, <1>6, <1>7, <1>8
<1>10. w + (v + u) = u + v + w
  OBVIOUS
<1>. QED
  BY <1>3, <1>8, <1>9, <1>10

=============================================================================
