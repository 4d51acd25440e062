------------------------- MODULE SubsequencesProofs -------------------------
(***************************************************************************)
(* What Entries returns, for any sequence and any set of its indexes.      *)
(***************************************************************************)
EXTENDS Subsequences, FiniteSetTheorems, SequenceTheorems, WellFoundedInduction, TLAPS

\* The ranks of a set of positions are the numbers from 1 to its size, each once.
LEMMA RanksAreOnto ==
    ASSUME NEW n \in Nat, NEW S \in SUBSET (1 .. n)
    PROVE  /\ Cardinality(S) \in Nat
           /\ \A k \in 1 .. Cardinality(S) : \E i \in S : Cardinality({j \in S : j <= i}) = k
<1> DEFINE Below(i) == {j \in S : j <= i}
           T == 1 .. Cardinality(S)
           f == [i \in S |-> Cardinality(Below(i))]
<1>1. IsFiniteSet(S) /\ Cardinality(S) \in Nat
  <2>1. IsFiniteSet(1 .. n)
    BY FS_Interval
  <2>2. IsFiniteSet(S)
    BY <2>1, FS_Subset
  <2> QED
    BY <2>2, FS_CardinalityType
<1>2. ASSUME NEW i \in S
      PROVE  /\ IsFiniteSet(Below(i)) /\ Cardinality(Below(i)) \in Nat
             /\ Cardinality(Below(i)) \in T
  <2>1. Below(i) \in SUBSET S /\ i \in Below(i)
    OBVIOUS
  <2>2. IsFiniteSet(Below(i)) /\ Cardinality(Below(i)) <= Cardinality(S)
    BY <1>1, <2>1, FS_Subset
  <2>3. Cardinality(Below(i)) \in Nat /\ Cardinality(Below(i)) # 0
    BY <2>1, <2>2, FS_CardinalityType, FS_EmptySet
  <2> QED
    BY <1>1, <2>2, <2>3
<1>3. ASSUME NEW a \in S, NEW b \in S, a < b
      PROVE  Cardinality(Below(a)) # Cardinality(Below(b))
  <2>1. a \in Int /\ b \in Int /\ \A j \in S : j \in Int
    OBVIOUS
  <2>2. b <= b /\ ~(b <= a) /\ \A j \in S : j <= a => j <= b
    BY <1>3, <2>1
  <2>3. Below(a) \in SUBSET Below(b) /\ b \in Below(b) /\ b \notin Below(a)
    BY <2>2
  <2> QED
    BY <1>2, <2>3, FS_Subset
<1>4. f \in [S -> T]
  BY <1>2
<1>5. IsInjective(f)
  <2> SUFFICES ASSUME NEW a \in S, NEW b \in S, f[a] = f[b]
               PROVE  a = b
    BY DEF IsInjective
  <2>1. Cardinality(Below(a)) = Cardinality(Below(b))
    OBVIOUS
  <2>2. a \in Int /\ b \in Int
    OBVIOUS
  <2>3. ~(a < b) /\ ~(b < a)
    BY <1>3, <2>1
  <2> QED
    BY <2>2, <2>3
<1>6. IsFiniteSet(T) /\ Cardinality(T) = Cardinality(S)
  BY <1>1, FS_Interval
<1> HIDE DEF f, T
<1>7. f \in Injection(S, T)
  BY <1>4, <1>5 DEF Injection
<1>8. f \in Surjection(S, T)
  BY <1>1, <1>6, <1>7, FS_Injection
<1>9. \A k \in T : \E i \in S : f[i] = k
  BY <1>8 DEF Surjection
<1>10. \A i \in S : f[i] = Cardinality(Below(i))
  BY DEF f
<1> QED
  BY <1>1, <1>9, <1>10 DEF T

\* The entries at some indexes are a sequence of the same kind, and each stands at
\* one of those indexes.
LEMMA EntriesAreSequence ==
    ASSUME NEW T, NEW s \in Seq(T), NEW S \in SUBSET (1 .. Len(s))
    PROVE  /\ Entries(s, S) \in Seq(T)
           /\ Cardinality(S) \in Nat
           /\ DOMAIN Entries(s, S) = 1 .. Cardinality(S)
           /\ \A k \in DOMAIN Entries(s, S) : \E i \in S : Entries(s, S)[k] = s[i]
<1> DEFINE rank(i) == Cardinality({j \in S : j <= i})
           size == Cardinality(S)
           at(k) == CHOOSE i \in S : rank(i) = k
<1>1. /\ Len(s) \in Nat /\ DOMAIN s = 1 .. Len(s)
      /\ \A i \in DOMAIN s : s[i] \in T
  BY LenProperties, ElementOfSeq
<1>2. size \in Nat /\ \A k \in 1 .. size : \E i \in S : rank(i) = k
  BY <1>1, RanksAreOnto
<1>3. Entries(s, S) = [k \in 1 .. size |-> s[at(k)]]
  BY DEF Entries
<1> HIDE DEF rank, size
<1>4. \A k \in 1 .. size : at(k) \in S
  BY <1>2
<1> HIDE DEF at
<1>5. \A k \in 1 .. size : s[at(k)] \in T
  BY <1>1, <1>4
<1>6. Entries(s, S) \in [1 .. size -> T]
  BY <1>3, <1>5
<1>7. Entries(s, S) \in Seq(T)
  BY <1>2, <1>6, SeqDef
<1>8. DOMAIN Entries(s, S) = 1 .. size
  BY <1>3
<1>9. \A k \in 1 .. size : at(k) \in S /\ Entries(s, S)[k] = s[at(k)]
  BY <1>3, <1>4
<1> QED
  BY <1>2, <1>7, <1>8, <1>9 DEF size

\* All the entries are the sequence itself.
LEMMA EntriesAll ==
    ASSUME NEW T, NEW s \in Seq(T)
    PROVE  Entries(s, 1 .. Len(s)) = s
<1> DEFINE all == 1 .. Len(s)
           rank(i) == Cardinality({j \in all : j <= i})
<1>1. Len(s) \in Nat /\ DOMAIN s = all /\ s \in [all -> T]
  BY LenProperties
<1>2. Cardinality(all) = Len(s)
  <2>1. Cardinality(all) = IF 1 > Len(s) THEN 0 ELSE Len(s) - 1 + 1
    BY <1>1, FS_Interval
  <2> QED
    BY <1>1, <2>1
<1>3. ASSUME NEW i \in all
      PROVE  rank(i) = i
  <2>1. {j \in all : j <= i} = 1 .. i /\ i \in Nat \ {0}
    BY <1>1
  <2>2. Cardinality(1 .. i) = i
    BY <2>1, FS_Interval
  <2> QED
    BY <2>1, <2>2
<1>4. Entries(s, all) = [k \in all |-> s[CHOOSE i \in all : rank(i) = k]]
  BY <1>2 DEF Entries
<1> HIDE DEF rank
<1>5. \A k \in all : (CHOOSE i \in all : rank(i) = k) = k
  BY <1>3
<1>6. Entries(s, all) = [k \in all |-> s[k]]
  BY <1>4, <1>5
<1> QED
  BY <1>1, <1>6

\* g lists the members of S, which are m, in ascending order.
Enumerates(g, m, S) ==
    /\ g \in [1 .. m -> S]
    /\ \A k, l \in 1 .. m : k < l => g[k] < g[l]
    /\ \A i \in S : \E k \in 1 .. m : g[k] = i

\* The entries of s in the order of a list g of m positions.
Along(s, g, m) == [k \in 1 .. m |-> s[g[k]]]

\* Of two positions the smaller has the smaller rank.
LEMMA RanksAscend ==
    ASSUME NEW n \in Nat, NEW S \in SUBSET (1 .. n), NEW a \in S, NEW b \in S
    PROVE  /\ Cardinality({j \in S : j <= a}) \in 1 .. Cardinality(S)
           /\ a < b => Cardinality({j \in S : j <= a}) < Cardinality({j \in S : j <= b})
<1> DEFINE Below(i) == {j \in S : j <= i}
<1>1. IsFiniteSet(S) /\ Cardinality(S) \in Nat
  <2>1. IsFiniteSet(1 .. n)
    BY FS_Interval
  <2>2. IsFiniteSet(S)
    BY <2>1, FS_Subset
  <2> QED
    BY <2>2, FS_CardinalityType
<1>2. ASSUME NEW i \in S
      PROVE  /\ IsFiniteSet(Below(i)) /\ Cardinality(Below(i)) \in Nat
             /\ Cardinality(Below(i)) \in 1 .. Cardinality(S)
  <2>1. Below(i) \in SUBSET S /\ i \in Below(i)
    OBVIOUS
  <2>2. IsFiniteSet(Below(i)) /\ Cardinality(Below(i)) <= Cardinality(S)
    BY <1>1, <2>1, FS_Subset
  <2>3. Cardinality(Below(i)) \in Nat /\ Cardinality(Below(i)) # 0
    BY <2>1, <2>2, FS_CardinalityType, FS_EmptySet
  <2> QED
    BY <1>1, <2>2, <2>3
<1>3. ASSUME a < b
      PROVE  Cardinality(Below(a)) < Cardinality(Below(b))
  <2>1. a \in Int /\ b \in Int /\ \A j \in S : j \in Int
    OBVIOUS
  <2>2. b <= b /\ ~(b <= a) /\ \A j \in S : j <= a => j <= b
    BY <1>3, <2>1
  <2>3. Below(a) \in SUBSET Below(b) /\ Below(a) # Below(b)
    BY <2>2
  <2>4. Cardinality(Below(a)) <= Cardinality(Below(b)) /\ Cardinality(Below(a)) # Cardinality(Below(b))
    BY <1>2, <2>3, FS_Subset
  <2> QED
    BY <1>2, <2>4
<1> QED
  BY <1>2, <1>3

\* Entries reads s along a list of the positions.
LEMMA EntriesAreListed ==
    ASSUME NEW s, NEW n \in Nat, NEW S \in SUBSET (1 .. n)
    PROVE  /\ Cardinality(S) \in Nat
           /\ \E g : /\ Enumerates(g, Cardinality(S), S)
                     /\ Entries(s, S) = Along(s, g, Cardinality(S))
<1> DEFINE rank(i) == Cardinality({j \in S : j <= i})
           size == Cardinality(S)
           g == [k \in 1 .. size |-> CHOOSE i \in S : rank(i) = k]
<1>1. size \in Nat /\ \A k \in 1 .. size : \E i \in S : rank(i) = k
  BY RanksAreOnto
<1>2. \A a, b \in S : rank(a) \in 1 .. size /\ (a < b => rank(a) < rank(b))
  BY RanksAscend
<1>3. Entries(s, S) = [k \in 1 .. size |-> s[CHOOSE i \in S : rank(i) = k]]
  BY DEF Entries
<1> HIDE DEF rank, size
<1>4. \A k \in 1 .. size : g[k] \in S /\ rank(g[k]) = k
  BY <1>1
<1>5. Entries(s, S) = [k \in 1 .. size |-> s[g[k]]]
  BY <1>3
<1>6. g \in [1 .. size -> S]
  BY <1>4
<1> HIDE DEF g
<1>7. S \in SUBSET Int
  OBVIOUS
<1>8. ASSUME NEW k \in 1 .. size, NEW l \in 1 .. size, k < l
      PROVE  g[k] < g[l]
  <2>1. g[k] \in S /\ g[l] \in S /\ rank(g[k]) = k /\ rank(g[l]) = l
    BY <1>4
  <2>2. g[l] < g[k] => rank(g[l]) < rank(g[k])
    BY <1>2, <2>1
  <2>3. ~(g[l] < g[k]) /\ g[k] # g[l]
    BY <1>1, <1>8, <2>1, <2>2
  <2>4. g[k] \in Int /\ g[l] \in Int
    BY <1>7, <2>1
  <2> QED
    BY <2>3, <2>4
<1>9. ASSUME NEW i \in S
      PROVE  \E k \in 1 .. size : g[k] = i
  <2>1. rank(i) \in 1 .. size /\ g[rank(i)] \in S /\ rank(g[rank(i)]) = rank(i)
    BY <1>2, <1>4
  <2>2. /\ g[rank(i)] < i => rank(g[rank(i)]) < rank(i)
        /\ i < g[rank(i)] => rank(i) < rank(g[rank(i)])
    BY <1>2, <2>1
  <2>3. ~(g[rank(i)] < i) /\ ~(i < g[rank(i)])
    BY <1>1, <2>1, <2>2
  <2>4. g[rank(i)] \in Int /\ i \in Int
    BY <1>7, <2>1
  <2>5. g[rank(i)] = i
    BY <2>3, <2>4
  <2> QED
    BY <2>1, <2>5
<1>10. Enumerates(g, size, S)
  BY <1>6, <1>8, <1>9 DEF Enumerates
<1> QED
  BY <1>1, <1>5, <1>10 DEF size, Along

\* There is one list of the positions only.
LEMMA ListsAreEntries ==
    ASSUME NEW s, NEW n \in Nat, NEW S \in SUBSET (1 .. n), NEW m \in Nat, NEW g, Enumerates(g, m, S)
    PROVE  /\ Cardinality(S) = m
           /\ Entries(s, S) = Along(s, g, m)
<1>1. /\ g \in [1 .. m -> S]
      /\ \A k, l \in 1 .. m : k < l => g[k] < g[l]
      /\ \A i \in S : \E k \in 1 .. m : g[k] = i
      /\ \A k \in 1 .. m : g[k] \in S /\ g[k] \in Int
  <2>1. /\ g \in [1 .. m -> S]
        /\ \A k, l \in 1 .. m : k < l => g[k] < g[l]
        /\ \A i \in S : \E k \in 1 .. m : g[k] = i
    BY DEF Enumerates
  <2>2. S \in SUBSET Int
    OBVIOUS
  <2> QED
    BY <2>1, <2>2
<1>2. \A k, l \in 1 .. m : g[k] = g[l] => k = l
  <2> SUFFICES ASSUME NEW k \in 1 .. m, NEW l \in 1 .. m, g[k] = g[l]
               PROVE  k = l
    OBVIOUS
  <2>1. ~(k < l) /\ ~(l < k)
    BY <1>1
  <2> QED
    BY <2>1
<1>3. ASSUME NEW k \in 0 .. m, NEW R, R = {g[l] : l \in 1 .. k}
      PROVE  Cardinality(R) = k
  <2> DEFINE h == [l \in 1 .. k |-> g[l]]
  <2>1. h \in [1 .. k -> R]
    BY <1>3
  <2>2. IsInjective(h)
    BY <1>2 DEF IsInjective
  <2>3. \A t \in R : \E l \in 1 .. k : h[l] = t
    BY <1>3
  <2> HIDE DEF h
  <2>4. h \in Bijection(1 .. k, R)
    BY <2>1, <2>2, <2>3 DEF Bijection, Injection, Surjection
  <2> QED
    BY <2>4, FS_CountingElements DEF ExistsBijection
<1>4. Cardinality(S) = m
  <2>1. S = {g[l] : l \in 1 .. m}
    BY <1>1
  <2>2. m \in 0 .. m
    OBVIOUS
  <2> QED
    BY <1>3, <2>1, <2>2
<1>5. ASSUME NEW k \in 1 .. m
      PROVE  Cardinality({j \in S : j <= g[k]}) = k
  <2>1. \A l \in 1 .. m : g[l] <= g[k] <=> l <= k
    <3> SUFFICES ASSUME NEW l \in 1 .. m
                 PROVE  g[l] <= g[k] <=> l <= k
      OBVIOUS
    <3>1. (l < k => g[l] < g[k]) /\ (k < l => g[k] < g[l])
      BY <1>1
    <3>2. g[l] \in Int /\ g[k] \in Int /\ l \in Int /\ k \in Int
      BY <1>1
    <3>3. l = k => g[l] = g[k]
      OBVIOUS
    <3> QED
      BY <3>1, <3>2, <3>3
  <2>2. {j \in S : j <= g[k]} = {g[l] : l \in 1 .. k}
    <3>1. ASSUME NEW j \in S, j <= g[k]
          PROVE  \E l \in 1 .. k : j = g[l]
      <4> PICK l \in 1 .. m : g[l] = j
        BY <1>1
      <4>1. l <= k
        BY <2>1, <3>1
      <4>2. l \in 1 .. k
        BY <4>1
      <4> QED
        BY <4>2
    <3>2. ASSUME NEW l \in 1 .. k
          PROVE  g[l] \in S /\ g[l] <= g[k]
      <4>1. l \in 1 .. m /\ l <= k
        OBVIOUS
      <4> QED
        BY <1>1, <2>1, <4>1
    <3> QED
      BY <3>1, <3>2
  <2> QED
    BY <1>3, <2>2
<1>6. ASSUME NEW k \in 1 .. m
      PROVE  (CHOOSE i \in S : Cardinality({j \in S : j <= i}) = k) = g[k]
  <2> DEFINE rank(i) == Cardinality({j \in S : j <= i})
  <2>1. \A i \in S : rank(i) = k => i = g[k]
    <3> SUFFICES ASSUME NEW i \in S, rank(i) = k
                 PROVE  i = g[k]
      OBVIOUS
    <3> PICK l \in 1 .. m : g[l] = i
      BY <1>1
    <3>1. rank(i) = l
      BY <1>5
    <3> QED
      BY <3>1
  <2>2. g[k] \in S /\ rank(g[k]) = k
    BY <1>1, <1>5
  <2> HIDE DEF rank
  <2>3. (CHOOSE i \in S : rank(i) = k) = g[k]
    BY <2>1, <2>2
  <2> QED
    BY <2>3 DEF rank
<1> DEFINE c(k) == CHOOSE i \in S : Cardinality({j \in S : j <= i}) = k
<1>7. Entries(s, S) = [k \in 1 .. m |-> s[c(k)]]
  BY <1>4 DEF Entries
<1>8. \A k \in 1 .. m : c(k) = g[k]
  BY <1>6
<1> HIDE DEF c
<1>9. Entries(s, S) = [k \in 1 .. m |-> s[g[k]]]
  BY <1>7, <1>8
<1> QED
  BY <1>4, <1>9 DEF Along

\* A set of numbers from 1 to m that has, with each of them, all the smaller ones
\* is itself such an interval.
LEMMA InitialSegment ==
    ASSUME NEW m \in Nat, NEW K \in SUBSET (1 .. m),
           \A k \in K, l \in 1 .. m : l <= k => l \in K
    PROVE  \E c \in 0 .. m : K = 1 .. c
<1> DEFINE Out == {k \in 1 .. m + 1 : k \notin K}
           R == OpToRel(<, Nat)
<1>1. m + 1 \in Out /\ Out \subseteq Nat
  OBVIOUS
<1>2. \E x \in Out : \A y \in Out : <<y, x>> \notin R
  <2>1. IsWellFoundedOn(R, Nat)
    BY NatLessThanWellFounded
  <2>2. Out \subseteq Nat /\ Out # {}
    BY <1>1
  <2> HIDE DEF R, Out
  <2> QED
    BY <2>1, <2>2, WFMin, Zenon
<1> PICK x \in Out : \A y \in Out : <<y, x>> \notin R
  BY <1>2
<1>3. \A y \in Out : ~(y < x)
  BY <1>1 DEF OpToRel
<1> HIDE DEF R
<1>4. x \in 1 .. m + 1 /\ x \notin K
  OBVIOUS
<1>5. \A k \in 1 .. x - 1 : k \in K
  <2> SUFFICES ASSUME NEW k \in 1 .. x - 1, k \notin K
               PROVE  FALSE
    OBVIOUS
  <2>1. k \in 1 .. m + 1 /\ k < x
    BY <1>4
  <2>2. k \in Out
    BY <2>1
  <2> QED
    BY <1>3, <2>1, <2>2
<1>6. \A k \in K : k \in 1 .. x - 1
  <2> SUFFICES ASSUME NEW k \in K, ~(k < x)
               PROVE  FALSE
    BY <1>4
  <2>1. x \in 1 .. m /\ x <= k
    BY <1>4
  <2> QED
    BY <1>4, <2>1
<1>7. K = 1 .. x - 1
  BY <1>5, <1>6
<1>8. x - 1 \in 0 .. m
  BY <1>4
<1> QED
  BY <1>7, <1>8

\* Positions that move by some distance, and those up to a certain one.
Moved(S, d) == {i + d : i \in S}
UpTo(S, p)  == {i \in S : i <= p}

\* What s has at the positions S, of which none is behind n, is d further on in t.
Shifted(s, t, n, d, S) ==
    n \in Nat /\ d \in Nat /\ S \in SUBSET (1 .. n) /\ \A i \in S : t[i + d] = s[i]

\* Entries depends on what stands at the positions and on their order, not on the
\* positions: they may all move by the same distance.
LEMMA EntriesMoved ==
    ASSUME NEW s, NEW t, NEW n, NEW d, NEW S, Shifted(s, t, n, d, S)
    PROVE  Entries(t, Moved(S, d)) = Entries(s, S)
<1>0. n \in Nat /\ d \in Nat /\ S \in SUBSET (1 .. n) /\ \A i \in S : t[i + d] = s[i]
  BY DEF Shifted
<1> DEFINE m == Cardinality(S)
           R == {i + d : i \in S}
<1>1. m \in Nat /\ \E g : Enumerates(g, m, S) /\ Entries(s, S) = Along(s, g, m)
  BY <1>0, EntriesAreListed
<1> HIDE DEF m
<1>g. PICK g : Enumerates(g, m, S) /\ Entries(s, S) = Along(s, g, m)
  BY <1>1
<1>2. /\ g \in [1 .. m -> S]
      /\ \A k, l \in 1 .. m : k < l => g[k] < g[l]
      /\ \A i \in S : \E k \in 1 .. m : g[k] = i
  BY <1>g DEF Enumerates
<1>3. S \in SUBSET Int /\ d \in Int
  BY <1>0
<1> DEFINE h == [k \in 1 .. m |-> g[k] + d]
<1>4. \A k \in 1 .. m : g[k] \in S /\ g[k] \in Int /\ h[k] = g[k] + d
  BY <1>2, <1>3
<1>5. h \in [1 .. m -> R]
  BY <1>2
<1> HIDE DEF h
<1>6. \A k, l \in 1 .. m : k < l => h[k] < h[l]
  BY <1>2, <1>3, <1>4
<1>7. \A i \in R : \E k \in 1 .. m : h[k] = i
  <2> SUFFICES ASSUME NEW i \in S
               PROVE  \E k \in 1 .. m : h[k] = i + d
    OBVIOUS
  <2> PICK k \in 1 .. m : g[k] = i
    BY <1>2
  <2> QED
    BY <1>4
<1>8. Enumerates(h, m, R)
  BY <1>5, <1>6, <1>7 DEF Enumerates
<1>9. n + d \in Nat /\ R \in SUBSET (1 .. n + d)
  BY <1>0
<1> HIDE DEF R
<1>10. Entries(t, R) = Along(t, h, m)
  <2>1. m \in Nat
    BY <1>1
  <2>2. n + d \in Nat /\ R \in SUBSET (1 .. n + d)
    BY <1>9
  <2> DEFINE N == n + d
  <2> HIDE DEF N
  <2>3. N \in Nat /\ R \in SUBSET (1 .. N)
    BY <2>2 DEF N
  <2> QED
    BY <2>1, <2>3, <1>8, ListsAreEntries, Zenon
<1>11. \A k \in 1 .. m : t[h[k]] = s[g[k]]
  BY <1>0, <1>4
<1> QED
  BY <1>g, <1>1, <1>10, <1>11 DEF Along, R, Moved

\* Two sequences that agree at the positions have the same entries there.
LEMMA EntriesAgree ==
    ASSUME NEW s, NEW t, NEW n \in Nat, NEW S \in SUBSET (1 .. n),
           \A i \in S : t[i] = s[i]
    PROVE  Entries(t, S) = Entries(s, S)
<1> DEFINE rank(i) == Cardinality({j \in S : j <= i})
           m == Cardinality(S)
<1>1. \A k \in 1 .. m : \E i \in S : rank(i) = k
  BY RanksAreOnto
<1>2. /\ Entries(t, S) = [k \in 1 .. m |-> t[CHOOSE i \in S : rank(i) = k]]
      /\ Entries(s, S) = [k \in 1 .. m |-> s[CHOOSE i \in S : rank(i) = k]]
  BY DEF Entries
<1> HIDE DEF rank, m
<1>3. \A k \in 1 .. m : (CHOOSE i \in S : rank(i) = k) \in S
  BY <1>1
<1> QED
  BY <1>2, <1>3

\* A position behind all the others adds an entry at the end.
LEMMA EntriesAppended ==
    ASSUME NEW T, NEW s \in Seq(T), NEW S \in SUBSET (1 .. Len(s)),
           NEW i \in 1 .. Len(s), \A j \in S : j < i
    PROVE  Entries(s, S \cup {i}) = Append(Entries(s, S), s[i])
<1> DEFINE m == Cardinality(S)
           n == Len(s)
<1>0. n \in Nat /\ s[i] \in T
  BY LenProperties, ElementOfSeq
<1>1. m \in Nat /\ \E g : Enumerates(g, m, S) /\ Entries(s, S) = Along(s, g, m)
  BY <1>0, EntriesAreListed
<1>e. Entries(s, S) \in Seq(T)
  BY EntriesAreSequence
<1> HIDE DEF m
<1>g. PICK g : Enumerates(g, m, S) /\ Entries(s, S) = Along(s, g, m)
  BY <1>1
<1>2. /\ g \in [1 .. m -> S]
      /\ \A k, l \in 1 .. m : k < l => g[k] < g[l]
      /\ \A j \in S : \E k \in 1 .. m : g[k] = j
  BY <1>g DEF Enumerates
<1> DEFINE R == S \cup {i}
           h == [k \in 1 .. m + 1 |-> IF k = m + 1 THEN i ELSE g[k]]
<1>3. /\ m + 1 \in Nat /\ m + 1 \in 1 .. m + 1
      /\ \A k \in 1 .. m + 1 : k # m + 1 => k \in 1 .. m
      /\ \A k \in 1 .. m : k \in 1 .. m + 1 /\ k # m + 1
  BY <1>1
<1>4. /\ h[m + 1] = i
      /\ \A k \in 1 .. m : h[k] = g[k] /\ g[k] \in S /\ g[k] < i
  BY <1>2, <1>3
<1>5. h \in [1 .. m + 1 -> R]
  BY <1>2, <1>3
<1> HIDE DEF h
<1>6. ASSUME NEW k \in 1 .. m + 1, NEW l \in 1 .. m + 1, k < l
      PROVE  h[k] < h[l]
  <2>1. k \in 1 .. m
    BY <1>1, <1>6
  <2>2. CASE l = m + 1
    BY <1>4, <2>1, <2>2
  <2>3. CASE l # m + 1
    BY <1>2, <1>3, <1>4, <1>6, <2>1, <2>3
  <2> QED
    BY <2>2, <2>3
<1>7. \A j \in R : \E k \in 1 .. m + 1 : h[k] = j
  <2>1. ASSUME NEW j \in S
        PROVE  \E k \in 1 .. m + 1 : h[k] = j
    <3> PICK k \in 1 .. m : g[k] = j
      BY <1>2
    <3> QED
      BY <1>3, <1>4
  <2> QED
    BY <1>3, <1>4, <2>1
<1>8. Enumerates(h, m + 1, R)
  BY <1>5, <1>6, <1>7 DEF Enumerates
<1>9. R \in SUBSET (1 .. n)
  OBVIOUS
<1>10. Entries(s, R) = Along(s, h, m + 1) /\ Cardinality(R) = m + 1
  BY <1>0, <1>3, <1>8, <1>9, ListsAreEntries
<1>f. Entries(s, R) \in Seq(T)
  BY <1>9, EntriesAreSequence
<1> DEFINE e == Entries(s, S)
           f == Entries(s, R)
<1>11. Len(e) = m /\ Len(f) = m + 1
  <2>1. DOMAIN e = 1 .. m /\ DOMAIN f = 1 .. m + 1
    BY <1>1, <1>10 DEF Along
  <2> HIDE DEF e, f
  <2>2. e \in Seq(T) /\ f \in Seq(T)
    BY <1>e, <1>f DEF e, f
  <2> QED
    BY <1>1, <2>1, <2>2, LenProperties
<1>12. \A k \in 1 .. m + 1 : f[k] = IF k = m + 1 THEN s[i] ELSE e[k]
  BY <1>g, <1>1, <1>3, <1>4, <1>10 DEF Along
<1> HIDE DEF e, f
<1>13. e \in Seq(T) /\ f \in Seq(T)
  BY <1>e, <1>f DEF e, f
<1>14. /\ Append(e, s[i]) \in Seq(T) /\ Len(Append(e, s[i])) = m + 1
       /\ \A k \in 1 .. m : Append(e, s[i])[k] = e[k]
       /\ Append(e, s[i])[m + 1] = s[i]
  BY <1>0, <1>11, <1>13, AppendProperties
<1>15. \A k \in 1 .. m + 1 : f[k] = Append(e, s[i])[k]
  BY <1>3, <1>12, <1>14
<1>16. f = Append(e, s[i])
  BY <1>11, <1>13, <1>14, <1>15, SeqEqual
<1> QED
  BY <1>16 DEF e, f

\* The least position gives the first entry, and the others the rest.
LEMMA EntriesHeadAndTail ==
    ASSUME NEW T, NEW s \in Seq(T), NEW S \in SUBSET (1 .. Len(s)),
           NEW i \in S, \A j \in S : i <= j
    PROVE  /\ Entries(s, S) # <<>>
           /\ Head(Entries(s, S)) = s[i]
           /\ Tail(Entries(s, S)) = Entries(s, S \ {i})
<1> DEFINE m == Cardinality(S)
           n == Len(s)
           R == S \ {i}
<1>0. n \in Nat
  BY LenProperties
<1>1. m \in Nat /\ \E g : Enumerates(g, m, S) /\ Entries(s, S) = Along(s, g, m)
  BY <1>0, EntriesAreListed
<1>e. Entries(s, S) \in Seq(T) /\ Entries(s, R) \in Seq(T)
  BY EntriesAreSequence
<1> HIDE DEF m
<1>g. PICK g : Enumerates(g, m, S) /\ Entries(s, S) = Along(s, g, m)
  BY <1>1
<1>2. /\ g \in [1 .. m -> S]
      /\ \A k, l \in 1 .. m : k < l => g[k] < g[l]
      /\ \A j \in S : \E k \in 1 .. m : g[k] = j
  BY <1>g DEF Enumerates
<1>3. S \in SUBSET Int
  BY <1>0
<1>4. m >= 1 /\ g[1] = i
  <2> PICK k \in 1 .. m : g[k] = i
    BY <1>2
  <2>1. m >= 1 /\ 1 \in 1 .. m
    BY <1>1
  <2>2. g[1] \in S /\ g[1] \in Int /\ i \in Int /\ i <= g[1]
    BY <1>2, <1>3, <2>1
  <2>3. 1 < k => g[1] < i
    BY <1>2, <2>1
  <2>4. k = 1
    BY <2>2, <2>3
  <2> QED
    BY <2>1, <2>4
<1> DEFINE h == [k \in 1 .. m - 1 |-> g[k + 1]]
<1>5. /\ m - 1 \in Nat
      /\ \A k \in 1 .. m - 1 : k + 1 \in 1 .. m /\ 1 < k + 1
      /\ 1 \in 1 .. m
      /\ \A k \in 1 .. m : k # 1 => k - 1 \in 1 .. m - 1 /\ (k - 1) + 1 = k
  BY <1>1, <1>4
<1>6. \A k \in 1 .. m - 1 : h[k] = g[k + 1] /\ g[k + 1] \in S /\ g[k + 1] # i
  <2> SUFFICES ASSUME NEW k \in 1 .. m - 1
               PROVE  h[k] = g[k + 1] /\ g[k + 1] \in S /\ g[k + 1] # i
    OBVIOUS
  <2>1. g[1] < g[k + 1] /\ g[k + 1] \in S
    BY <1>2, <1>5
  <2>2. g[k + 1] # i
    BY <1>3, <1>4, <2>1
  <2> QED
    BY <2>1, <2>2
<1>7. h \in [1 .. m - 1 -> R]
  BY <1>6
<1> HIDE DEF h
<1>8. \A k, l \in 1 .. m - 1 : k < l => h[k] < h[l]
  <2> SUFFICES ASSUME NEW k \in 1 .. m - 1, NEW l \in 1 .. m - 1, k < l
               PROVE  h[k] < h[l]
    OBVIOUS
  <2>1. k + 1 < l + 1 /\ k + 1 \in 1 .. m /\ l + 1 \in 1 .. m
    BY <1>5
  <2> QED
    BY <1>2, <1>6, <2>1
<1>9. \A j \in R : \E k \in 1 .. m - 1 : h[k] = j
  <2> SUFFICES ASSUME NEW j \in S, j # i
               PROVE  \E k \in 1 .. m - 1 : h[k] = j
    OBVIOUS
  <2> PICK k \in 1 .. m : g[k] = j
    BY <1>2
  <2>1. k - 1 \in 1 .. m - 1 /\ (k - 1) + 1 = k
    BY <1>4, <1>5
  <2>2. h[k - 1] = j
    BY <1>6, <2>1
  <2> QED
    BY <2>1, <2>2
<1>10. Enumerates(h, m - 1, R)
  BY <1>7, <1>8, <1>9 DEF Enumerates
<1>11. R \in SUBSET (1 .. n)
  OBVIOUS
<1>12. Entries(s, R) = Along(s, h, m - 1)
  <2> DEFINE q == m - 1
  <2>1. q \in Nat
    BY <1>5
  <2>2. Enumerates(h, q, R)
    BY <1>10
  <2> HIDE DEF q, R
  <2>3. Entries(s, R) = Along(s, h, q)
    BY <1>0, <1>11, <2>1, <2>2, ListsAreEntries, Zenon
  <2> QED
    BY <2>3 DEF q
<1> DEFINE e == Entries(s, S)
           f == Entries(s, R)
<1>13. /\ DOMAIN e = 1 .. m /\ DOMAIN f = 1 .. m - 1
       /\ e[1] = s[i] /\ \A k \in 1 .. m - 1 : f[k] = e[k + 1]
  <2>1. e = [k \in 1 .. m |-> s[g[k]]] /\ f = [k \in 1 .. m - 1 |-> s[h[k]]]
    BY <1>g, <1>1, <1>12 DEF Along
  <2> HIDE DEF e, f
  <2>2. e[1] = s[i]
    BY <1>4, <1>5, <2>1
  <2>3. ASSUME NEW k \in 1 .. m - 1
        PROVE  f[k] = e[k + 1]
    <3>1. k + 1 \in 1 .. m /\ h[k] = g[k + 1]
      BY <1>5, <1>6
    <3> QED
      BY <2>1, <3>1
  <2> QED
    BY <2>1, <2>2, <2>3
<1> HIDE DEF e, f
<1>14. e \in Seq(T) /\ f \in Seq(T)
  BY <1>e DEF e, f
<1>15. Len(e) = m /\ Len(f) = m - 1
  BY <1>1, <1>5, <1>13, <1>14, LenProperties
<1>16. e # <<>>
  BY <1>4, <1>15
<1>17. /\ Tail(e) \in Seq(T) /\ Len(Tail(e)) = m - 1
       /\ \A k \in 1 .. Len(Tail(e)) : Tail(e)[k] = e[k + 1]
  BY <1>14, <1>15, <1>16, HeadTailProperties
<1>18. \A k \in 1 .. m - 1 : Tail(e)[k] = f[k]
  BY <1>13, <1>17
<1>19. Tail(e) = f
  BY <1>14, <1>15, <1>17, <1>18, SeqEqual
<1>20. Head(e) = s[i]
  BY <1>13, <1>14, <1>16
<1> QED
  BY <1>16, <1>19, <1>20 DEF e, f

\* The entries up to some position are a prefix of all the entries.
LEMMA EntriesPrefix ==
    ASSUME NEW T, NEW s \in Seq(T), NEW S \in SUBSET (1 .. Len(s)), NEW p \in Int
    PROVE  \E k \in 0 .. Len(Entries(s, S)) :
              Entries(s, UpTo(S, p)) = SubSeq(Entries(s, S), 1, k)
<1> DEFINE m == Cardinality(S)
           n == Len(s)
           R == {i \in S : i <= p}
           q == Cardinality(R)
<1>0. n \in Nat
  BY LenProperties
<1>1. m \in Nat /\ \E g : Enumerates(g, m, S) /\ Entries(s, S) = Along(s, g, m)
  BY <1>0, EntriesAreListed
<1>2. R \in SUBSET (1 .. n)
  OBVIOUS
<1>3. q \in Nat /\ \E h : Enumerates(h, q, R) /\ Entries(s, R) = Along(s, h, q)
  BY <1>0, <1>2, EntriesAreListed
<1>e. Entries(s, S) \in Seq(T) /\ Entries(s, R) \in Seq(T)
  BY EntriesAreSequence
<1>f. q <= m
  <2>1. IsFiniteSet(1 .. n)
    BY <1>0, FS_Interval
  <2>2. IsFiniteSet(S) /\ R \in SUBSET S
    BY <2>1, FS_Subset
  <2> QED
    BY <2>2, FS_Subset
<1> HIDE DEF m, q
<1>g. PICK g : Enumerates(g, m, S) /\ Entries(s, S) = Along(s, g, m)
  BY <1>1
<1>4. /\ g \in [1 .. m -> S]
      /\ \A k, l \in 1 .. m : k < l => g[k] < g[l]
      /\ \A j \in S : \E k \in 1 .. m : g[k] = j
  BY <1>g DEF Enumerates
<1> DEFINE K == {k \in 1 .. m : g[k] <= p}
<1>5. \A k \in 1 .. m : g[k] \in S /\ g[k] \in Int
  <2>1. S \in SUBSET Int
    BY <1>0
  <2> QED
    BY <1>4, <2>1
<1>6. \A k \in K, l \in 1 .. m : l <= k => l \in K
  <2> SUFFICES ASSUME NEW k \in 1 .. m, g[k] <= p, NEW l \in 1 .. m, l <= k
               PROVE  g[l] <= p
    OBVIOUS
  <2>1. l < k => g[l] < g[k]
    BY <1>4
  <2>2. l < k \/ l = k
    OBVIOUS
  <2>3. g[l] \in Int /\ g[k] \in Int
    BY <1>5
  <2> QED
    BY <2>1, <2>2, <2>3

\* The indexes of the entries up to p are themselves an initial segment.
<1>7. \E c \in 0 .. m : K = 1 .. c
  BY <1>1, <1>6, InitialSegment
<1> PICK c \in 0 .. m : K = 1 .. c
  BY <1>7
<1> DEFINE h == [k \in 1 .. c |-> g[k]]
<1>8. \A k \in 1 .. c : k \in 1 .. m /\ k \in K
  OBVIOUS
<1>9. \A k \in 1 .. c : k \in 1 .. m /\ h[k] = g[k] /\ g[k] \in R
  BY <1>5, <1>8
<1>10. h \in [1 .. c -> R]
  BY <1>9
<1>11. \A j \in R : \E k \in 1 .. c : h[k] = j
  <2> SUFFICES ASSUME NEW j \in S, j <= p
               PROVE  \E k \in 1 .. c : h[k] = j
    OBVIOUS
  <2> PICK k \in 1 .. m : g[k] = j
    BY <1>4
  <2>1. k \in K
    OBVIOUS
  <2>2. k \in 1 .. c
    BY <2>1
  <2> QED
    BY <1>9, <2>2
<1> HIDE DEF h, K
<1>12. \A k, l \in 1 .. c : k < l => h[k] < h[l]
  BY <1>4, <1>9
<1>13. Enumerates(h, c, R)
  BY <1>10, <1>11, <1>12 DEF Enumerates
<1>14. c \in Nat
  BY <1>1
<1>15. Entries(s, R) = Along(s, h, c)
  <2> HIDE DEF R
  <2> QED
    BY <1>0, <1>2, <1>13, <1>14, ListsAreEntries, Zenon
<1> DEFINE e == Entries(s, S)
           f == Entries(s, R)
<1>16. /\ DOMAIN e = 1 .. m /\ DOMAIN f = 1 .. c
       /\ \A k \in 1 .. c : f[k] = e[k]
  <2>1. e = [k \in 1 .. m |-> s[g[k]]] /\ f = [k \in 1 .. c |-> s[h[k]]]
    BY <1>g, <1>1, <1>15 DEF Along
  <2> HIDE DEF e, f
  <2> QED
    BY <1>9, <2>1
<1> HIDE DEF e, f
<1>17. e \in Seq(T) /\ f \in Seq(T)
  BY <1>e DEF e, f
<1>18. Len(e) = m /\ Len(f) = c
  BY <1>1, <1>14, <1>16, <1>17, LenProperties
<1>19. \A k \in 1 .. c : e[k] \in T
  BY <1>8, <1>17, <1>18, ElementOfSeq
<1>20. /\ SubSeq(e, 1, c) \in Seq(T)
       /\ Len(SubSeq(e, 1, c)) = IF 1 <= c THEN c - 1 + 1 ELSE 0
       /\ \A k \in 1 .. c - 1 + 1 : SubSeq(e, 1, c)[k] = e[1 + k - 1]
  BY <1>14, <1>19, SubSeqProperties
<1>21. Len(SubSeq(e, 1, c)) = c
  BY <1>14, <1>20
<1>22. \A k \in 1 .. c : SubSeq(e, 1, c)[k] = e[k]
  <2> SUFFICES ASSUME NEW k \in 1 .. c
               PROVE  SubSeq(e, 1, c)[k] = e[k]
    OBVIOUS
  <2>1. k \in 1 .. c - 1 + 1 /\ 1 + k - 1 = k
    BY <1>14
  <2> QED
    BY <1>20, <2>1
<1>23. f = SubSeq(e, 1, c)
  BY <1>16, <1>17, <1>18, <1>20, <1>21, <1>22, SeqEqual
<1> QED
  BY <1>18, <1>23 DEF e, f, UpTo

=============================================================================
