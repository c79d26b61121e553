------------------------ MODULE GeneratedSourceProofs ------------------------
(***************************************************************************)
(* What the generator makes of any C++ file: where the function behind an  *)
(* annotation ends, where each item of the file goes, which heads are in   *)
(* the new file, and that generating again changes nothing.                *)
(***************************************************************************)
EXTENDS GeneratedSource, FiniteSetTheorems, SequenceTheorems, WellFoundedInduction, TLAPS

-----------------------------------------------------------------------------
(* Sequences.                                                              *)

\* A set of natural numbers has a least element, and a greatest one below a bound.
LEMMA LeastOf ==
    ASSUME NEW T, T \subseteq Nat, T # {}
    PROVE  \E x \in T : \A y \in T : x <= y
<1>1. PICK x \in T : \A y \in T : ~ (<<y, x>> \in OpToRel(<,Nat))
  BY NatLessThanWellFounded, WFMin
<1>2. \A y \in T : ~(y < x)
  BY <1>1 DEF OpToRel
<1>3. QED
  BY <1>2

\* The greatest one.
LEMMA GreatestOf ==
    ASSUME NEW b \in Nat, NEW T, T \subseteq 0..b, T # {}
    PROVE  \E x \in T : \A y \in T : x >= y
<1> DEFINE U == {b - x : x \in T}
<1>0. \A x \in T : x \in 0..b /\ b - x \in Nat
  OBVIOUS
<1>1. U \subseteq Nat /\ U # {}
  BY <1>0
<1> HIDE DEF U
<1>2. PICK u \in U : \A v \in U : u <= v
  BY <1>1, LeastOf
<1>3. PICK x \in T : u = b - x
  BY DEF U
<1>4. \A y \in T : b - y \in U
  BY DEF U
<1>5. \A y \in T : x >= y
  BY <1>2, <1>3, <1>4
<1>6. QED
  BY <1>5

\* Where the elements of two sequences are when they are put together.
LEMMA Concat ==
    ASSUME NEW S, NEW u \in Seq(S), NEW v \in Seq(S)
    PROVE  /\ u \o v \in Seq(S)
           /\ Len(u) \in Nat /\ Len(v) \in Nat /\ Len(u \o v) = Len(u) + Len(v)
           /\ \A j \in 1..Len(u) : (u \o v)[j] = u[j]
           /\ \A j \in 1..Len(v) : (u \o v)[Len(u) + j] = v[j]
OBVIOUS

\* The function by which FlattenSeq is defined.
Prefix(f, ss, n) == f = [k \in 1..n |-> IF k = 1 THEN ss[k] ELSE f[k - 1] \o ss[k]]

\* Such a function exists.
LEMMA PrefixExists ==
    ASSUME NEW S, NEW ss \in Seq(Seq(S))
    PROVE  \A n \in 1..Len(ss) : \E f \in [1..n -> Seq(S)] : Prefix(f, ss, n)
<1> DEFINE T == {n \in 1..Len(ss) : ~\E f \in [1..n -> Seq(S)] : Prefix(f, ss, n)}
<1>1. SUFFICES ASSUME T # {} PROVE FALSE
  OBVIOUS
<1>2. PICK n \in T : \A m \in T : n <= m
  <2>1. T \subseteq Nat
    OBVIOUS
  <2> HIDE DEF T
  <2>2. QED
    BY <1>1, <2>1, LeastOf
<1>3. n \in 1..Len(ss) /\ Len(ss) \in Nat /\ \A k \in 1..Len(ss) : ss[k] \in Seq(S)
  OBVIOUS
<1>4. CASE n = 1
  <2> DEFINE f == [k \in 1..n |-> ss[k]]
  <2>1. f \in [1..n -> Seq(S)] /\ Prefix(f, ss, n)
    BY <1>3, <1>4 DEF Prefix
  <2>2. QED
    BY <2>1
<1>5. CASE n # 1
  <2>1. n - 1 \in 1..Len(ss) /\ n - 1 < n
    BY <1>3, <1>5
  <2>2. PICK g \in [1..n - 1 -> Seq(S)] : Prefix(g, ss, n - 1)
    <3>1. n - 1 \notin T
      <4> HIDE DEF T
      <4>1. QED
        BY <1>2, <1>3, <2>1
    <3>2. QED
      BY <2>1, <3>1
  <2> DEFINE f == [k \in 1..n |-> IF k < n THEN g[k] ELSE g[n - 1] \o ss[n]]
  <2>3. g[n - 1] \in Seq(S) /\ ss[n] \in Seq(S)
    BY <1>3, <2>1, <2>2
  <2>4. g[n - 1] \o ss[n] \in Seq(S)
    BY <2>3, ConcatProperties
  <2>5. f \in [1..n -> Seq(S)]
    BY <1>3, <2>2, <2>4
  <2>6. \A k \in 1..n : f[k] = IF k = 1 THEN ss[k] ELSE f[k - 1] \o ss[k]
    <3>1. TAKE k \in 1..n
    <3>2. CASE k = n
      <4>1. n \in 1..n /\ n - 1 \in 1..n /\ n - 1 < n /\ ~(n < n)
        BY <1>3, <1>5
      <4>2. f[n - 1] = g[n - 1] /\ f[n] = g[n - 1] \o ss[n]
        BY <4>1, Zenon
      <4>3. QED
        BY <1>5, <3>2, <4>2
    <3>3. CASE k # n
      <4>1. k \in 1..n - 1 /\ k < n /\ (k # 1 => k - 1 \in 1..n /\ k - 1 < n)
        BY <1>3, <3>3
      <4>2. g[k] = IF k = 1 THEN ss[k] ELSE g[k - 1] \o ss[k]
        BY <2>2, <4>1 DEF Prefix
      <4>3. f[k] = g[k] /\ (k # 1 => f[k - 1] = g[k - 1])
        BY <4>1
      <4>4. QED
        BY <4>2, <4>3
    <3>4. QED
      BY <3>2, <3>3
  <2>7. Prefix(f, ss, n)
    BY <2>5, <2>6 DEF Prefix
  <2>8. QED
    BY <2>5, <2>7
<1>6. QED
  BY <1>4, <1>5

\* A sequence of sequences put together: piece k begins behind place at[k].
LEMMA FlattenPieces ==
    ASSUME NEW S, NEW ss \in Seq(Seq(S))
    PROVE  /\ FlattenSeq(ss) \in Seq(S)
           /\ \E at \in [1..Len(ss) + 1 -> Nat] :
                  /\ at[1] = 0 /\ at[Len(ss) + 1] = Len(FlattenSeq(ss))
                  /\ \A k \in 1..Len(ss) :
                         /\ at[k + 1] = at[k] + Len(ss[k])
                         /\ at[k + 1] <= Len(FlattenSeq(ss))
                         /\ \A j \in 1..Len(ss[k]) : FlattenSeq(ss)[at[k] + j] = ss[k][j]
<1>1. CASE Len(ss) = 0
  <2>1. FlattenSeq(ss) \in Seq(S) /\ Len(FlattenSeq(ss)) = 0
    BY <1>1 DEF FlattenSeq
  <2> DEFINE at == [k \in 1..Len(ss) + 1 |-> 0]
  <2>2. /\ at \in [1..Len(ss) + 1 -> Nat] /\ 1..Len(ss) = {}
        /\ at[1] = 0 /\ at[Len(ss) + 1] = 0
    BY <1>1
  <2> HIDE DEF at
  <2>3. QED
    BY <2>1, <2>2
<1>2. CASE Len(ss) # 0
  <2> DEFINE n == Len(ss)
             F == CHOOSE f : Prefix(f, ss, n)
  <2>1. n \in 1..Len(ss)
    BY <1>2
  <2>2. \E f : Prefix(f, ss, n)
    BY <2>1, PrefixExists
  <2>3. Prefix(F, ss, n)
    BY <2>2
  <2> HIDE DEF F
  <2>0. \A k \in 1..n : F[k] = IF k = 1 THEN ss[k] ELSE F[k - 1] \o ss[k]
    BY <2>3 DEF Prefix
  <2>4. \A k \in 1..n : F[k] \in Seq(S)
    <3> DEFINE T == {k \in 1..n : F[k] \notin Seq(S)}
    <3>1. SUFFICES ASSUME T # {} PROVE FALSE
      OBVIOUS
    <3>2. PICK k \in T : \A m \in T : k <= m
      <4>1. T \subseteq Nat
        OBVIOUS
      <4> HIDE DEF T
      <4>2. QED
        BY <3>1, <4>1, LeastOf
    <3>3. F[k] = IF k = 1 THEN ss[k] ELSE F[k - 1] \o ss[k]
      BY <2>0, <3>2
    <3>4. ss[k] \in Seq(S) /\ k \in Nat
      BY <3>2
    <3>5. CASE k = 1
      BY <3>2, <3>3, <3>4, <3>5
    <3>6. CASE k # 1
      <4>1. k - 1 \in 1..n /\ k - 1 \notin T
        BY <3>2, <3>6
      <4>2. F[k - 1] \o ss[k] \in Seq(S)
        BY <3>4, <4>1, ConcatProperties
      <4>3. QED
        BY <3>2, <3>3, <3>6, <4>2
    <3>7. QED
      BY <3>5, <3>6
  <2>5. FlattenSeq(ss) = F[n]
    BY <1>2, Zenon DEF FlattenSeq, F, Prefix
  <2> DEFINE at == [k \in 1..n + 1 |-> IF k = 1 THEN 0 ELSE Len(F[k - 1])]
  <2>6. \A k \in 1..n : /\ Len(F[k]) \in Nat /\ Len(ss[k]) \in Nat /\ at[k] \in Nat
                        /\ Len(F[k]) = at[k] + Len(ss[k])
                        /\ \A j \in 1..Len(ss[k]) : F[k][at[k] + j] = ss[k][j]
    <3>1. TAKE k \in 1..n
    <3>2. ss[k] \in Seq(S) /\ F[k] \in Seq(S)
      BY <2>4
    <3>3. F[k] = IF k = 1 THEN ss[k] ELSE F[k - 1] \o ss[k]
      BY <2>0
    <3>4. CASE k = 1
      BY <3>2, <3>3, <3>4
    <3>5. CASE k # 1
      <4>1. k - 1 \in 1..n /\ F[k - 1] \in Seq(S) /\ at[k] = Len(F[k - 1])
        BY <2>4, <3>5
      <4> DEFINE u == F[k - 1]
                 v == ss[k]
      <4>2. F[k] = u \o v /\ u \in Seq(S) /\ v \in Seq(S) /\ at[k] = Len(u)
        BY <3>2, <3>3, <3>5, <4>1
      <4> HIDE DEF u, at
      <4>3. QED
        BY <4>2, Concat
    <3>6. QED
      BY <3>4, <3>5
  <2>7. \A k \in 1..n : \A m \in k..n :
           /\ Len(F[k]) <= Len(F[m])
           /\ \A j \in 1..Len(F[k]) : F[m][j] = F[k][j]
    <3>1. TAKE k \in 1..n
    <3> DEFINE T == {m \in k..n : ~(/\ Len(F[k]) <= Len(F[m])
                                    /\ \A j \in 1..Len(F[k]) : F[m][j] = F[k][j])}
    <3>2. SUFFICES ASSUME T # {} PROVE FALSE
      OBVIOUS
    <3>3. PICK m \in T : \A l \in T : m <= l
      <4>1. T \subseteq Nat
        OBVIOUS
      <4> HIDE DEF T
      <4>2. QED
        BY <3>2, <4>1, LeastOf
    <3>4. CASE m = k
      BY <2>6, <3>3, <3>4
    <3>5. CASE m # k
      <4>1. m - 1 \in k..n /\ m - 1 \in 1..n /\ m \in 1..n /\ m # 1 /\ m - 1 < m
        BY <3>3, <3>5
      <4>2. m - 1 \notin T
        <5>1. m \in Int
          OBVIOUS
        <5> HIDE DEF T
        <5>2. QED
          BY <3>3, <4>1, <5>1
      <4>3. /\ Len(F[k]) <= Len(F[m - 1])
            /\ \A j \in 1..Len(F[k]) : F[m - 1][j] = F[k][j]
        BY <4>1, <4>2
      <4>4. F[m] = F[m - 1] \o ss[m] /\ F[m - 1] \in Seq(S) /\ ss[m] \in Seq(S)
        <5> HIDE DEF T
        <5>1. m \in 1..n /\ m - 1 \in 1..n /\ m # 1
          BY <4>1
        <5>2. F[m] = F[m - 1] \o ss[m]
          BY <2>0, <5>1
        <5>3. QED
          BY <2>4, <5>1, <5>2
      <4>5. /\ Len(F[m]) = Len(F[m - 1]) + Len(ss[m])
            /\ \A j \in 1..Len(F[m - 1]) : F[m][j] = F[m - 1][j]
        <5> DEFINE u == F[m - 1]
                   v == ss[m]
        <5>1. F[m] = u \o v /\ u \in Seq(S) /\ v \in Seq(S)
          BY <4>4
        <5> HIDE DEF u, v
        <5>2. Len(F[m]) = Len(u) + Len(v) /\ \A j \in 1..Len(u) : F[m][j] = u[j]
          BY <5>1, Concat
        <5>3. QED
          BY <5>2 DEF u, v
      <4>6. Len(F[k]) \in Nat /\ Len(F[m - 1]) \in Nat /\ Len(ss[m]) \in Nat
        BY <2>6, <4>1
      <4>7. Len(F[k]) <= Len(F[m]) /\ \A j \in 1..Len(F[k]) : F[m][j] = F[k][j]
        <5> HIDE DEF T, at
        <5>1. Len(F[k]) <= Len(F[m])
          <6>1. \A u, v, w \in Nat : u <= v => u <= v + w
            OBVIOUS
          <6>2. QED
            BY <4>3, <4>5, <4>6, <6>1, Zenon
        <5>2. ASSUME NEW j \in 1..Len(F[k])
              PROVE  F[m][j] = F[k][j]
          <6>1. j \in 1..Len(F[m - 1])
            BY <4>3, <4>6
          <6>2. QED
            BY <4>3, <4>5, <6>1
        <5>3. QED
          BY <5>1, <5>2
      <4>8. QED
        BY <3>3, <4>7
    <3>6. QED
      BY <3>4, <3>5
  <2>8. at \in [1..n + 1 -> Nat] /\ at[1] = 0 /\ at[n + 1] = Len(F[n])
    <3>1. \A k \in 1..n + 1 : k # 1 => k - 1 \in 1..n
      BY <2>1
    <3>2. \A k \in 1..n + 1 : k # 1 => Len(F[k - 1]) \in Nat
      BY <2>6, <3>1
    <3>3. 1 \in 1..n + 1 /\ n + 1 \in 1..n + 1 /\ n + 1 # 1 /\ (n + 1) - 1 = n
      BY <2>1
    <3> HIDE DEF n
    <3>4. QED
      BY <3>2, <3>3
  <2>9. \A k \in 1..n :
           /\ at[k + 1] = at[k] + Len(ss[k])
           /\ at[k + 1] <= Len(F[n])
           /\ \A j \in 1..Len(ss[k]) : F[n][at[k] + j] = ss[k][j]
    <3>1. TAKE k \in 1..n
    <3>2. n \in k..n /\ Len(F[k]) <= Len(F[n]) /\ \A j \in 1..Len(F[k]) : F[n][j] = F[k][j]
      BY <2>1, <2>7
    <3>3. /\ Len(F[k]) \in Nat /\ Len(ss[k]) \in Nat /\ at[k] \in Nat
          /\ Len(F[k]) = at[k] + Len(ss[k])
          /\ \A j \in 1..Len(ss[k]) : F[k][at[k] + j] = ss[k][j]
      BY <2>6
    <3>4. at[k + 1] = Len(F[k])
      <4>1. k + 1 \in 1..n + 1 /\ k + 1 # 1 /\ (k + 1) - 1 = k
        BY <2>1
      <4>2. QED
        BY <4>1
    <3> HIDE DEF at, n
    <3>5. ASSUME NEW j \in 1..Len(ss[k])
          PROVE  F[n][at[k] + j] = ss[k][j]
      <4>1. at[k] + j \in 1..Len(F[k])
        BY <3>3
      <4>2. QED
        BY <3>2, <3>3, <4>1
    <3>6. at[k + 1] <= Len(F[n])
      BY <3>2, <3>4
    <3>7. QED
      BY <3>3, <3>4, <3>5, <3>6
  <2>10. FlattenSeq(ss) \in Seq(S)
    BY <2>1, <2>4, <2>5
  <2> HIDE DEF at
  <2>11. QED
    BY <2>5, <2>8, <2>9, <2>10
<1>3. QED
  BY <1>1, <1>2

\* What holds at a and passes on from each number to the next holds up to b.
LEMMA RangeInduction ==
    ASSUME NEW a \in Nat, NEW b \in Nat, NEW T, a \in T,
           \A k \in a..b : k \in T /\ k < b => k + 1 \in T
    PROVE  a..b \subseteq T
<1> DEFINE U == {k \in a..b : k \notin T}
<1>1. SUFFICES ASSUME U # {} PROVE FALSE
  OBVIOUS
<1>2. PICK k \in U : \A m \in U : k <= m
  <2>1. U \subseteq Nat
    OBVIOUS
  <2> HIDE DEF U
  <2>2. QED
    BY <1>1, <2>1, LeastOf
<1>3. k \in a..b /\ k # a /\ k \notin T
  OBVIOUS
<1>4. k - 1 \in a..b /\ k - 1 < b /\ (k - 1) + 1 = k
  BY <1>3
<1>5. k - 1 \notin U
  <2> HIDE DEF U
  <2>1. ~(k <= k - 1)
    BY <1>3
  <2>2. QED
    BY <1>2, <2>1
<1>6. QED
  BY <1>3, <1>4, <1>5

-----------------------------------------------------------------------------
(* Braces, and where a function ends.                                      *)

\* Depth counts one item after the other.
LEMMA DepthStep ==
    ASSUME NEW s, NEW a \in Nat, NEW e \in Nat
    PROVE  /\ Depth(s, a, e) \in Int
           /\ e < a => Depth(s, a, e) = 0
           /\ e + 1 >= a => Depth(s, a, e + 1) =
                  CASE s[e + 1] = Open  -> Depth(s, a, e) + 1
                    [] s[e + 1] = Close -> Depth(s, a, e) - 1
                    [] OTHER            -> Depth(s, a, e)
<1> DEFINE O(m) == {n \in a..m : s[n] = Open}
           C(m) == {n \in a..m : s[n] = Close}
<1>1. \A m \in Nat : /\ IsFiniteSet(O(m)) /\ Cardinality(O(m)) \in Nat
                     /\ IsFiniteSet(C(m)) /\ Cardinality(C(m)) \in Nat
  <2>1. TAKE m \in Nat
  <2>2. IsFiniteSet(a..m) /\ O(m) \in SUBSET (a..m) /\ C(m) \in SUBSET (a..m)
    BY FS_Interval
  <2> HIDE DEF O, C
  <2>3. QED
    BY <2>2, FS_Subset, FS_CardinalityType
<1>2. Depth(s, a, e) = Cardinality(O(e)) - Cardinality(C(e))
  BY DEF Depth
<1>3. Depth(s, a, e + 1) = Cardinality(O(e + 1)) - Cardinality(C(e + 1))
  BY DEF Depth
<1>4. ASSUME e < a PROVE Depth(s, a, e) = 0
  <2>1. O(e) = {} /\ C(e) = {}
    BY <1>4
  <2> HIDE DEF O, C
  <2>2. Cardinality(O(e)) = 0 /\ Cardinality(C(e)) = 0
    BY <2>1, FS_EmptySet
  <2>3. QED
    BY <1>2, <2>2
<1>5. ASSUME e + 1 >= a
      PROVE  /\ Cardinality(O(e + 1)) = IF s[e + 1] = Open THEN Cardinality(O(e)) + 1
                                                           ELSE Cardinality(O(e))
             /\ Cardinality(C(e + 1)) = IF s[e + 1] = Close THEN Cardinality(C(e)) + 1
                                                            ELSE Cardinality(C(e))
  <2>1. a..e + 1 = (a..e) \cup {e + 1} /\ e + 1 \notin a..e
    BY <1>5
  <2>2. /\ O(e + 1) = IF s[e + 1] = Open THEN O(e) \cup {e + 1} ELSE O(e)
        /\ C(e + 1) = IF s[e + 1] = Close THEN C(e) \cup {e + 1} ELSE C(e)
        /\ e + 1 \notin O(e) /\ e + 1 \notin C(e)
    BY <2>1
  <2> HIDE DEF O, C
  <2>3. QED
    BY <1>1, <2>2, FS_AddElement
<1>6. Open # Close
  BY DEF Open, Close
<1> HIDE DEF O, C
<1>7. e \in Nat /\ e + 1 \in Nat
  OBVIOUS
<1>8. QED
  BY <1>1, <1>2, <1>3, <1>4, <1>5, <1>6, <1>7

\* The depth is a number, and none where there is nothing to count.
LEMMA DepthType ==
    ASSUME NEW s, NEW a, NEW e, a \in Nat, e \in Nat
    PROVE  Depth(s, a, e) \in Int /\ (e < a => Depth(s, a, e) = 0)
BY DepthStep

\* Depth counts one item more.
LEMMA DepthNext ==
    ASSUME NEW s, NEW a, NEW e, NEW d, a \in Nat, e \in Nat, d = e + 1, d >= a
    PROVE  /\ s[d] = Open  => Depth(s, a, d) = Depth(s, a, e) + 1
           /\ s[d] = Close => Depth(s, a, d) = Depth(s, a, e) - 1
           /\ s[d] \notin {Open, Close} => Depth(s, a, d) = Depth(s, a, e)
<1>1. Depth(s, a, e + 1) = CASE s[e + 1] = Open  -> Depth(s, a, e) + 1
                             [] s[e + 1] = Close -> Depth(s, a, e) - 1
                             [] OTHER            -> Depth(s, a, e)
  BY DepthStep
<1>2. Open # Close
  BY DEF Open, Close
<1>3. QED
  BY <1>1, <1>2

\* The k items behind a in s are those behind b in t.
Same(s, a, t, b, k) == \A j \in 1..k : t[b + j] = s[a + j]

\* And so are the braces open behind each of them.
SameDepth(s, a, t, b, k) == \A j \in 0..k : Depth(t, b + 1, b + j) = Depth(s, a + 1, a + j)

\* Counted from b0 on, there are as many more as were open there already.
Deeper(s, a, t, b, b0, k) ==
    \A j \in 0..k : Depth(t, b0, b + j) = Depth(t, b0, b) + Depth(s, a + 1, a + j)

\* The depth of a text is the same wherever it stands.
LEMMA DepthShift ==
    ASSUME NEW s, NEW t, NEW a, NEW b, NEW b0, NEW k, Same(s, a, t, b, k),
           a \in Nat, b \in Nat, k \in Nat, b0 \in Nat, b0 <= b + 1
    PROVE  Deeper(s, a, t, b, b0, k)
<1> DEFINE T == {j \in 0..k : Depth(t, b0, b + j) = Depth(t, b0, b) + Depth(s, a + 1, a + j)}
<1>1. 0 \in T
  <2>1. a + 1 \in Nat /\ a < a + 1 /\ a + 0 = a /\ b + 0 = b /\ 0 \in 0..k
    OBVIOUS
  <2>2. Depth(s, a + 1, a) = 0 /\ Depth(t, b0, b) \in Int
    BY <2>1, DepthStep
  <2>3. Depth(t, b0, b + 0) = Depth(t, b0, b) + Depth(s, a + 1, a + 0)
    BY <2>1, <2>2
  <2>4. QED
    BY <2>1, <2>3
<1>2. ASSUME NEW j \in 0..k, j \in T, j < k
      PROVE  j + 1 \in T
  <2>1. /\ a + j \in Nat /\ b + j \in Nat /\ a + 1 \in Nat
        /\ (a + j) + 1 = a + (j + 1) /\ (b + j) + 1 = b + (j + 1)
        /\ (a + j) + 1 >= a + 1 /\ (b + j) + 1 >= b0 /\ j + 1 \in 1..k
    BY <1>2
  <2>2. t[(b + j) + 1] = s[(a + j) + 1]
    BY <2>1 DEF Same
  <2> DEFINE x == s[(a + j) + 1]
  <2>3. /\ Depth(s, a + 1, (a + j) + 1) =
               CASE x = Open  -> Depth(s, a + 1, a + j) + 1
                 [] x = Close -> Depth(s, a + 1, a + j) - 1
                 [] OTHER     -> Depth(s, a + 1, a + j)
        /\ Depth(t, b0, (b + j) + 1) =
               CASE x = Open  -> Depth(t, b0, b + j) + 1
                 [] x = Close -> Depth(t, b0, b + j) - 1
                 [] OTHER     -> Depth(t, b0, b + j)
    BY <2>1, <2>2, DepthStep
  <2>4. /\ Depth(s, a + 1, a + j) \in Int /\ Depth(t, b0, b + j) \in Int
        /\ Depth(t, b0, b) \in Int
    BY <2>1, DepthStep
  <2>5. Depth(t, b0, b + j) = Depth(t, b0, b) + Depth(s, a + 1, a + j)
    BY <1>2
  <2>6. Open # Close
    BY DEF Open, Close
  <2> HIDE DEF x
  <2>7. Depth(t, b0, (b + j) + 1) = Depth(t, b0, b) + Depth(s, a + 1, (a + j) + 1)
    BY <2>3, <2>4, <2>5, <2>6
  <2>8. Depth(t, b0, b + (j + 1)) = Depth(t, b0, b) + Depth(s, a + 1, a + (j + 1))
    BY <2>1, <2>7
  <2>9. QED
    BY <1>2, <2>8
<1> HIDE DEF T
<1>3. 0..k \subseteq T
  BY <1>1, <1>2, RangeInduction
<1>4. QED
  BY <1>3 DEF T, Deeper

\* Counted from its own beginning it is just the same.
LEMMA DepthSame ==
    ASSUME NEW s, NEW t, NEW a, NEW b, NEW k, Same(s, a, t, b, k),
           a \in Nat, b \in Nat, k \in Nat
    PROVE  SameDepth(s, a, t, b, k)
<1>1. PICK b0 \in Nat : b0 = b + 1 /\ b0 <= b + 1 /\ b < b0
  OBVIOUS
<1>2. Deeper(s, a, t, b, b0, k)
  BY <1>1, DepthShift
<1>3. Depth(t, b0, b) = 0
  BY <1>1, DepthStep
<1>4. \A j \in 0..k : Depth(s, a + 1, a + j) \in Int
  <2>1. \A j \in 0..k : a + j \in Nat /\ a + 1 \in Nat
    OBVIOUS
  <2>2. QED
    BY <2>1, DepthStep
<1>5. QED
  BY <1>1, <1>2, <1>3, <1>4 DEF SameDepth, Deeper

\* Up to e the braces behind p are closed again.
Closed(s, p, e) == Depth(s, p + 1, e) = 0 /\ \E n \in p + 1..e : Depth(s, p + 1, n) > 0

\* The function behind p ends at e.
IsEnd(s, p, e) ==
    /\ e \in p + 1..Len(s)
    /\ \A n \in p + 1..e : ~IsComment(s[n])
    /\ Closed(s, p, e)
    /\ \A d \in p + 1..e - 1 : ~Closed(s, p, d)

\* What extractFirstFunction finds: the least end that there is, or nothing.
LEMMA EndOf ==
    ASSUME NEW s \in Seq(Item), NEW p \in 1..Len(s)
    PROVE  /\ FunctionEnd(s, p) = p \/ IsEnd(s, p, FunctionEnd(s, p))
           /\ \A e : IsEnd(s, p, e) => FunctionEnd(s, p) = e
           /\ \A e \in p + 1..Len(s) :
                  (\A n \in p + 1..e : ~IsComment(s[n])) /\ Closed(s, p, e)
                  => IsEnd(s, p, FunctionEnd(s, p)) /\ FunctionEnd(s, p) <= e
<1> DEFINE ends == {e \in p + 1..CodeEnd(s, p) :
                      /\ Depth(s, p + 1, e) = 0
                      /\ \E n \in p + 1..e : Depth(s, p + 1, n) > 0}
           code == {e \in p..Len(s) : \A n \in p + 1..e : ~IsComment(s[n])}
<1>0. p \in Nat /\ Len(s) \in Nat /\ p <= Len(s)
  OBVIOUS
<1>1. CodeEnd(s, p) \in code /\ \A e \in code : CodeEnd(s, p) >= e
  <2>1. p \in code /\ code \subseteq 0..Len(s)
    BY <1>0
  <2>2. CodeEnd(s, p) = CHOOSE x \in code : \A y \in code : x >= y
    BY DEF CodeEnd, Max
  <2> HIDE DEF code
  <2>3. \E x \in code : \A y \in code : x >= y
    BY <1>0, <2>1, GreatestOf
  <2>4. QED
    BY <2>2, <2>3
<1>2. FunctionEnd(s, p) = IF ends = {} THEN p ELSE CHOOSE x \in ends : \A y \in ends : x =< y
  BY DEF FunctionEnd, Min
<1>3. ends # {} => FunctionEnd(s, p) \in ends /\ \A e \in ends : FunctionEnd(s, p) <= e
  <2>1. ends \subseteq Nat
    BY <1>0, <1>1
  <2> HIDE DEF ends
  <2>2. ends # {} => \E x \in ends : \A y \in ends : x <= y
    BY <2>1, LeastOf
  <2>3. QED
    BY <1>2, <2>2
<1>4. ends = {e \in p + 1..Len(s) : (\A n \in p + 1..e : ~IsComment(s[n])) /\ Closed(s, p, e)}
  <2>1. ASSUME NEW e \in p + 1..Len(s)
        PROVE  e <= CodeEnd(s, p) <=> \A n \in p + 1..e : ~IsComment(s[n])
    BY <1>0, <1>1, <2>1
  <2>2. CodeEnd(s, p) <= Len(s) /\ CodeEnd(s, p) \in Nat
    BY <1>0, <1>1
  <2> HIDE DEF code
  <2>3. QED
    BY <1>0, <2>1, <2>2 DEF Closed
<1> HIDE DEF ends, code
<1>5. ends # {} => IsEnd(s, p, FunctionEnd(s, p))
  <2>1. SUFFICES ASSUME ends # {} PROVE IsEnd(s, p, FunctionEnd(s, p))
    OBVIOUS
  <2> DEFINE E == FunctionEnd(s, p)
  <2>2. /\ E \in p + 1..Len(s) /\ (\A n \in p + 1..E : ~IsComment(s[n])) /\ Closed(s, p, E)
        /\ \A e \in ends : E <= e
    BY <1>3, <1>4, <2>1
  <2> HIDE DEF E
  <2>3. ASSUME NEW d \in p + 1..E - 1, Closed(s, p, d) PROVE FALSE
    <3>1. d \in p + 1..Len(s) /\ \A n \in p + 1..d : n \in p + 1..E
      BY <1>0, <2>2
    <3>2. d \in ends
      BY <1>4, <2>2, <2>3, <3>1
    <3>3. QED
      BY <1>0, <2>2, <3>1, <3>2
  <2>4. QED
    BY <2>2, <2>3 DEF IsEnd, E
<1>6. ASSUME NEW e, IsEnd(s, p, e) PROVE FunctionEnd(s, p) = e
  <2>1. e \in ends /\ e \in p + 1..Len(s)
    BY <1>4, <1>6 DEF IsEnd
  <2> DEFINE E == FunctionEnd(s, p)
  <2>2. E \in p + 1..Len(s) /\ Closed(s, p, E) /\ E <= e
    BY <1>3, <1>4, <2>1
  <2> HIDE DEF E
  <2>3. E \notin p + 1..e - 1
    BY <1>6, <2>2 DEF IsEnd
  <2>4. E = e
    BY <1>0, <2>1, <2>2, <2>3
  <2>5. QED
    BY <2>4 DEF E
<1>7. QED
  BY <1>2, <1>3, <1>4, <1>5, <1>6

\* What is replaced is behind an annotation, up to the end of its function.
LEMMA ReplacedBy ==
    ASSUME NEW s \in Seq(Item), NEW q
    PROVE  q \in Replaced(s) <=> \E p \in Annotations(s) :
               IsEnd(s, p, FunctionEnd(s, p)) /\ q \in p + 1..FunctionEnd(s, p)
<1>1. \A p \in Annotations(s) : p \in 1..Len(s)
  BY DEF Annotations
<1>2. \A p \in 1..Len(s) : p + 1..p = {}
  OBVIOUS
<1>3. q \in Replaced(s) <=> \E p \in Annotations(s) : q \in p + 1..FunctionEnd(s, p)
  BY DEF Replaced
<1>4. QED
  BY <1>1, <1>2, <1>3, EndOf

\* A function ends where it did when its text has been moved.
LEMMA EndShift ==
    ASSUME NEW s \in Seq(Item), NEW t \in Seq(Item), NEW a \in Nat, NEW b \in Nat, NEW e,
           IsEnd(s, a, e), b + (e - a) <= Len(t), Same(s, a, t, b, e - a)
    PROVE  IsEnd(t, b, b + (e - a))
<1> DEFINE k == e - a
<1>1. /\ Len(s) \in Nat /\ Len(t) \in Nat /\ e \in Nat /\ k \in Nat /\ k >= 1
      /\ e = a + k /\ b + k <= Len(t)
  BY DEF IsEnd
<1>2. Same(s, a, t, b, k) /\ \A j \in 1..k : t[b + j] = s[a + j]
  BY DEF Same
<1> HIDE DEF k
<1>3. \A j \in 0..k : Depth(t, b + 1, b + j) = Depth(s, a + 1, a + j)
  <2>1. SameDepth(s, a, t, b, k)
    BY <1>1, <1>2, DepthSame
  <2>2. QED
    BY <2>1 DEF SameDepth
<1>4. ASSUME NEW j \in 1..k
      PROVE  Closed(t, b, b + j) <=> Closed(s, a, a + j)
  <2>1. ASSUME NEW m \in b + 1..b + j, Depth(t, b + 1, m) > 0
        PROVE  \E n \in a + 1..a + j : Depth(s, a + 1, n) > 0
    <3>1. m - b \in 0..k /\ b + (m - b) = m /\ a + (m - b) \in a + 1..a + j
      BY <1>1
    <3>2. Depth(s, a + 1, a + (m - b)) = Depth(t, b + 1, m)
      BY <1>3, <3>1
    <3>3. QED
      BY <2>1, <3>1, <3>2
  <2>2. ASSUME NEW m \in a + 1..a + j, Depth(s, a + 1, m) > 0
        PROVE  \E n \in b + 1..b + j : Depth(t, b + 1, n) > 0
    <3>1. m - a \in 0..k /\ a + (m - a) = m /\ b + (m - a) \in b + 1..b + j
      BY <1>1
    <3>2. Depth(t, b + 1, b + (m - a)) = Depth(s, a + 1, m)
      BY <1>3, <3>1
    <3>3. QED
      BY <2>2, <3>1, <3>2
  <2>3. j \in 0..k
    OBVIOUS
  <2>4. QED
    BY <1>3, <2>1, <2>2, <2>3 DEF Closed
<1>5. b + k \in b + 1..Len(t)
  BY <1>1
<1>6. ASSUME NEW n \in b + 1..b + k PROVE ~IsComment(t[n])
  <2>1. n - b \in 1..k /\ b + (n - b) = n /\ a + (n - b) \in a + 1..e
    BY <1>1
  <2>2. t[n] = s[a + (n - b)]
    BY <1>2, <2>1
  <2>3. QED
    BY <2>1, <2>2 DEF IsEnd
<1>7. ASSUME NEW d \in b + 1..b + k - 1 PROVE ~Closed(t, b, d)
  <2>1. d - b \in 1..k /\ b + (d - b) = d /\ a + (d - b) \in a + 1..e - 1
    BY <1>1
  <2>2. ~Closed(s, a, a + (d - b))
    BY <2>1 DEF IsEnd
  <2>3. QED
    BY <1>4, <2>1, <2>2
<1>8. Closed(t, b, b + k)
  BY <1>1, <1>4 DEF IsEnd
<1>9. QED
  BY <1>5, <1>6, <1>7, <1>8 DEF IsEnd, k

\* A function ends with a closing brace.
LEMMA EndCloses ==
    ASSUME NEW s \in Seq(Item), NEW p \in 1..Len(s), NEW e, IsEnd(s, p, e)
    PROVE  s[e] = Close
<1>1. PICK a \in Nat : a = p + 1
  OBVIOUS
<1>2. e \in a..Len(s) /\ e \in Nat /\ Depth(s, a, e) = 0
  BY <1>1 DEF IsEnd, Closed
<1>3. PICK n \in a..e : Depth(s, a, n) > 0
  BY <1>1 DEF IsEnd, Closed
<1>4. PICK d : d = e - 1
  OBVIOUS
<1>5. n # e /\ n \in a..d /\ n \in Nat /\ d \in Nat /\ e = d + 1 /\ e >= a
  BY <1>2, <1>3, <1>4
<1> DEFINE T == {k \in n..d : Depth(s, a, k) >= 1}
<1>6. n \in T
  <2>1. Depth(s, a, n) \in Int
    BY <1>5, DepthType
  <2>2. QED
    BY <1>3, <1>5, <2>1
<1>7. ASSUME NEW k \in n..d, k \in T, k < d
      PROVE  k + 1 \in T
  <2>1. PICK m : m = k + 1
    OBVIOUS
  <2>2. k \in Nat /\ m \in Nat /\ m \in n..d /\ m >= a /\ m \in a..e - 1 /\ n \in a..m
    BY <1>2, <1>5, <1>7, <2>1
  <2>3. /\ Depth(s, a, k) \in Int /\ Depth(s, a, m) \in Int
        /\ s[m] = Open  => Depth(s, a, m) = Depth(s, a, k) + 1
        /\ s[m] = Close => Depth(s, a, m) = Depth(s, a, k) - 1
        /\ s[m] \notin {Open, Close} => Depth(s, a, m) = Depth(s, a, k)
    <3>1. Depth(s, a, k) \in Int /\ Depth(s, a, m) \in Int
      BY <2>2, DepthType
    <3>2. /\ s[m] = Open  => Depth(s, a, m) = Depth(s, a, k) + 1
          /\ s[m] = Close => Depth(s, a, m) = Depth(s, a, k) - 1
          /\ s[m] \notin {Open, Close} => Depth(s, a, m) = Depth(s, a, k)
      BY <2>1, <2>2, DepthNext
    <3>3. QED
      BY <3>1, <3>2
  <2>4. Depth(s, a, m) >= 0
    BY <1>7, <2>3
  <2>5. Depth(s, a, m) # 0
    <3>1. ~Closed(s, p, m)
      BY <1>1, <2>2 DEF IsEnd
    <3>2. QED
      BY <1>1, <1>3, <2>2, <3>1 DEF Closed
  <2>6. QED
    BY <2>1, <2>2, <2>3, <2>4, <2>5
<1> HIDE DEF T
<1>8. n..d \subseteq T
  BY <1>5, <1>6, <1>7, RangeInduction
<1>9. Depth(s, a, d) >= 1
  <2>1. d \in n..d
    BY <1>5
  <2>2. QED
    BY <1>8, <2>1 DEF T
<1>10. /\ Depth(s, a, d) \in Int
       /\ s[e] = Open  => Depth(s, a, e) = Depth(s, a, d) + 1
       /\ s[e] \notin {Open, Close} => Depth(s, a, e) = Depth(s, a, d)
  BY <1>1, <1>5, DepthType, DepthNext
<1>11. QED
  BY <1>2, <1>9, <1>10

\* The code behind p goes on to c.
Block(s, p, c) == /\ \A n \in p + 1..c : ~IsComment(s[n])
                  /\ c < Len(s) => IsComment(s[c + 1])

\* A function ends within its code.
LEMMA EndInBlock ==
    ASSUME NEW s \in Seq(Item), NEW p \in 1..Len(s), NEW c \in p..Len(s), Block(s, p, c)
    PROVE  FunctionEnd(s, p) \in p..c
<1>1. p \in Nat /\ c \in Nat /\ Len(s) \in Nat /\ p <= c /\ c <= Len(s)
  OBVIOUS
<1>2. ASSUME IsEnd(s, p, FunctionEnd(s, p)) PROVE FunctionEnd(s, p) <= c
  <2> DEFINE e == FunctionEnd(s, p)
  <2>1. e \in p + 1..Len(s) /\ \A n \in p + 1..e : ~IsComment(s[n])
    BY <1>2 DEF IsEnd
  <2> HIDE DEF e
  <2>2. ASSUME e > c PROVE FALSE
    <3>1. c + 1 \in p + 1..e /\ c < Len(s)
      BY <1>1, <2>1, <2>2
    <3>2. QED
      BY <2>1, <3>1 DEF Block
  <2>3. e <= c
    BY <1>1, <2>1, <2>2
  <2>4. QED
    BY <2>3 DEF e
<1>3. QED
  BY <1>1, <1>2, EndOf DEF IsEnd

-----------------------------------------------------------------------------
(* The function that is generated.                                         *)

\* An annotation names a function.
LEMMA AnnotationItem ==
    ASSUME NEW x \in Item, IsAnnotation(x)
    PROVE  x[2] \in Func /\ x = Annotation(x[2])
BY DEF Item, IsAnnotation, Comment, Blank, Open, Close, Annotation, FunctionHead, Code

\* What is generated are items again.
LEMMA CodeType ==
    ASSUME NEW f \in Func, NEW bad
    PROVE  GeneratedCode(f, bad) \in Seq(Item)
<1>1. SqlText[f] \in Seq(Item)
  BY SqlTextAssumption
<1>2. <<Blank, FunctionHead(f), Open, Open>> \in Seq(Item) /\ <<Close, Close>> \in Seq(Item)
  BY DEF Item
<1>3. QED
  BY <1>1, <1>2 DEF GeneratedCode

\* The items of a generated function.
LEMMA CodeItems ==
    ASSUME NEW f \in Func, NEW bad, f \notin bad
    PROVE  LET g == GeneratedCode(f, bad)
               m == Len(SqlText[f])
           IN  /\ g \in Seq(Item) /\ SqlText[f] \in Seq(Item) /\ m \in Nat /\ Len(g) = m + 6
               /\ g[1] = Blank /\ g[2] = FunctionHead(f) /\ g[3] = Open /\ g[4] = Open
               /\ \A j \in 1..m : g[4 + j] = SqlText[f][j]
               /\ g[m + 5] = Close /\ g[m + 6] = Close
<1> DEFINE u == <<Blank, FunctionHead(f), Open, Open>>
           x == SqlText[f]
           v == <<Close, Close>>
           w == u \o x
           g == w \o v
           m == Len(x)
<1>1. x \in Seq(Item) /\ u \in Seq(Item) /\ v \in Seq(Item) /\ m \in Nat
  BY SqlTextAssumption DEF Item
<1>2. /\ Len(u) = 4 /\ Len(v) = 2
      /\ u[1] = Blank /\ u[2] = FunctionHead(f) /\ u[3] = Open /\ u[4] = Open
      /\ v[1] = Close /\ v[2] = Close
  OBVIOUS
<1>3. GeneratedCode(f, bad) = g
  BY DEF GeneratedCode
<1> HIDE DEF u, v, x, m
<1>4. /\ w \in Seq(Item) /\ Len(w) = 4 + m
      /\ \A j \in 1..4 : w[j] = u[j]
      /\ \A j \in 1..m : w[4 + j] = x[j]
  <2> HIDE DEF w
  <2>1. w = u \o x /\ u \in Seq(Item) /\ x \in Seq(Item)
    BY <1>1 DEF w
  <2>2. /\ w \in Seq(Item) /\ Len(w) = Len(u) + Len(x)
        /\ \A j \in 1..Len(u) : w[j] = u[j]
        /\ \A j \in 1..Len(x) : w[Len(u) + j] = x[j]
    BY <2>1, Concat
  <2>3. QED
    BY <1>2, <2>2 DEF m
<1> HIDE DEF w
<1>5. /\ g \in Seq(Item) /\ Len(g) = (4 + m) + 2
      /\ \A j \in 1..4 + m : g[j] = w[j]
      /\ \A j \in 1..2 : g[(4 + m) + j] = v[j]
  <2> HIDE DEF g
  <2>1. g = w \o v /\ w \in Seq(Item) /\ v \in Seq(Item)
    BY <1>1, <1>4 DEF g
  <2>2. /\ g \in Seq(Item) /\ Len(g) = Len(w) + Len(v)
        /\ \A j \in 1..Len(w) : g[j] = w[j]
        /\ \A j \in 1..Len(v) : g[Len(w) + j] = v[j]
    BY <2>1, Concat
  <2>3. QED
    BY <1>2, <1>4, <2>2
<1> HIDE DEF g
<1>6. Len(g) = m + 6 /\ (4 + m) + 1 = m + 5 /\ (4 + m) + 2 = m + 6
  BY <1>1, <1>5
<1>7. /\ g[1] = Blank /\ g[2] = FunctionHead(f) /\ g[3] = Open /\ g[4] = Open
  <2>1. \A j \in 1..4 : j \in 1..4 + m
    BY <1>1
  <2>2. \A j \in 1..4 : g[j] = u[j]
    BY <1>4, <1>5, <2>1
  <2>3. QED
    BY <1>2, <2>2
<1>8. \A j \in 1..m : g[4 + j] = x[j]
  <2>1. \A j \in 1..m : 4 + j \in 1..4 + m
    BY <1>1
  <2>2. QED
    BY <1>4, <1>5, <2>1
<1>9. g[m + 5] = Close /\ g[m + 6] = Close
  <2>1. g[(4 + m) + 1] = v[1] /\ g[(4 + m) + 2] = v[2]
    BY <1>5
  <2>2. QED
    BY <1>2, <1>6, <2>1
<1>10. QED
  BY <1>1, <1>3, <1>5, <1>6, <1>7, <1>8, <1>9 DEF m, x

\* With plain SQL the function has no comment in it and no head but its own.
LEMMA CodePlain ==
    ASSUME NEW f \in Func, NEW bad, PlainSql, NEW j \in 1..Len(GeneratedCode(f, bad))
    PROVE  /\ f \notin bad
           /\ ~IsComment(GeneratedCode(f, bad)[j])
           /\ \A h \in Func : GeneratedCode(f, bad)[j] = FunctionHead(h) => j = 2 /\ h = f
<1> DEFINE g == GeneratedCode(f, bad)
           m == Len(SqlText[f])
<1>1. f \notin bad
  BY DEF GeneratedCode
<1>2. /\ m \in Nat /\ Len(g) = m + 6
      /\ g[1] = Blank /\ g[2] = FunctionHead(f) /\ g[3] = Open /\ g[4] = Open
      /\ \A i \in 1..m : g[4 + i] = SqlText[f][i]
      /\ g[m + 5] = Close /\ g[m + 6] = Close
  BY <1>1, CodeItems
<1>3. DOMAIN SqlText[f] = 1..m
  BY <1>1, CodeItems
<1>4. j \in 1..m + 6
  BY <1>2
<1> HIDE DEF g, m
<1>5. g[j] \in {Blank, FunctionHead(f), Open, Close} \/ \E i \in 1..m : g[j] = SqlText[f][i]
  <2>1. j \in {1, 2, 3, 4, m + 5, m + 6} \/ j - 4 \in 1..m
    BY <1>2, <1>4
  <2>2. CASE j - 4 \in 1..m
    <3>1. g[4 + (j - 4)] = SqlText[f][j - 4] /\ 4 + (j - 4) = j
      BY <1>2, <1>4, <2>2
    <3>2. QED
      BY <2>2, <3>1
  <2>3. QED
    BY <1>2, <2>1, <2>2
<1>9. /\ \A x \in {Blank, FunctionHead(f), Open, Close} : ~IsComment(x)
      /\ \A h \in Func : FunctionHead(h) \notin {Blank, Open, Close}
  BY DEF IsComment, Blank, FunctionHead, Open, Close
<1>10. \A i \in 1..m : /\ ~IsComment(SqlText[f][i])
                       /\ \A h \in Func : SqlText[f][i] # FunctionHead(h)
  BY <1>3 DEF PlainSql
<1>6. ~IsComment(g[j])
  BY <1>5, <1>9, <1>10
<1>7. ASSUME NEW h \in Func, g[j] = FunctionHead(h)
      PROVE  j = 2 /\ h = f
  <2>1. g[j] # Open /\ g[j] # Close /\ g[j] # Blank /\ \A i \in 1..m : g[j] # SqlText[f][i]
    BY <1>7, <1>9, <1>10
  <2>2. j - 4 \notin 1..m
    <3>1. ASSUME j - 4 \in 1..m PROVE FALSE
      <4>1. g[4 + (j - 4)] = SqlText[f][j - 4] /\ 4 + (j - 4) = j
        BY <1>2, <1>4, <3>1
      <4>2. QED
        BY <2>1, <3>1, <4>1
    <3>2. QED
      BY <3>1
  <2>3. j \in {1, 2, 3, 4, m + 5, m + 6}
    BY <1>2, <1>4, <2>2
  <2>4. j = 2
    BY <1>2, <2>1, <2>3
  <2>5. FunctionHead(h) = FunctionHead(f)
    BY <1>2, <1>7, <2>4
  <2>6. h = f
    BY <2>5 DEF FunctionHead
  <2>7. QED
    BY <2>4, <2>6
<1>8. QED
  BY <1>1, <1>6, <1>7 DEF g

\* How deep the braces are within a generated function.
LEMMA CodeDepth ==
    ASSUME NEW f \in Func, NEW bad, f \notin bad, EvenSql
    PROVE  LET g == GeneratedCode(f, bad) IN
           /\ Depth(g, 1, 1) = 0 /\ Depth(g, 1, 2) = 0 /\ Depth(g, 1, 3) = 1
           /\ Depth(g, 1, Len(g)) = 0
           /\ ContainedSql => \A j \in 3..Len(g) - 1 : Depth(g, 1, j) >= 1
<1> DEFINE g == GeneratedCode(f, bad)
           x == SqlText[f]
           m == Len(x)
<1>1. /\ m \in Nat /\ Len(g) = m + 6 /\ DOMAIN x = 1..m
      /\ g[1] = Blank /\ g[2] = FunctionHead(f) /\ g[3] = Open /\ g[4] = Open
      /\ \A i \in 1..m : g[4 + i] = x[i]
      /\ g[m + 5] = Close /\ g[m + 6] = Close
  BY CodeItems
<1>2. EvenSql => Depth(x, 1, m) = 0
  BY DEF EvenSql
<1>3. ContainedSql => \A j \in 1..m : Depth(x, 1, j) >= -1
  BY <1>1 DEF ContainedSql
<1> HIDE DEF g, x, m
<1>4. Open # Close /\ Blank \notin {Open, Close} /\ FunctionHead(f) \notin {Open, Close}
  BY DEF Open, Close, Blank, FunctionHead
<1>5. Depth(g, 1, 0) = 0
  BY DepthType, 0 < 1
<1>6. Depth(g, 1, 1) = 0
  BY <1>1, <1>4, <1>5, DepthNext
<1>7. Depth(g, 1, 2) = 0
  BY <1>1, <1>4, <1>6, DepthNext
<1>8. Depth(g, 1, 3) = 1
  BY <1>1, <1>4, <1>7, DepthNext
<1>9. Depth(g, 1, 4) = 2
  BY <1>1, <1>4, <1>8, DepthNext
<1>10. \A j \in 0..m : Depth(g, 1, 4 + j) = 2 + Depth(x, 0 + 1, 0 + j)
  <2>1. Same(x, 0, g, 4, m)
    BY <1>1 DEF Same
  <2>2. PICK a, b, b0 : a = 0 /\ b = 4 /\ b0 = 1
    OBVIOUS
  <2>3. /\ Same(x, a, g, b, m) /\ m \in Nat
        /\ a \in Nat /\ b \in Nat /\ b0 \in Nat /\ b0 <= b + 1
    BY <1>1, <2>1, <2>2
  <2>4. Deeper(x, a, g, b, b0, m)
    BY <2>3, DepthShift
  <2>5. QED
    BY <1>9, <2>2, <2>4 DEF Deeper
<1>11. Depth(g, 1, 4 + m) = 2
  <2>1. m \in 0..m /\ 0 + m = m
    BY <1>1
  <2>2. QED
    BY <1>2, <1>10, <2>1
<1>12. Depth(g, 1, m + 5) = 1
  <2>1. 4 + m \in Nat /\ m + 5 = (4 + m) + 1 /\ m + 5 >= 1
    BY <1>1
  <2>2. Depth(g, 1, m + 5) = Depth(g, 1, 4 + m) - 1
    BY <1>1, <1>4, <2>1, DepthNext
  <2>3. QED
    BY <1>11, <2>1, <2>2
<1>13. Depth(g, 1, m + 6) = 0
  <2>1. m + 5 \in Nat /\ m + 6 = (m + 5) + 1 /\ m + 6 >= 1
    BY <1>1
  <2>2. Depth(g, 1, m + 6) = Depth(g, 1, m + 5) - 1
    BY <1>1, <1>4, <2>1, DepthNext
  <2>3. QED
    BY <1>12, <2>1, <2>2
<1>14. ASSUME ContainedSql, NEW j \in 3..Len(g) - 1 PROVE Depth(g, 1, j) >= 1
  <2>1. j \in {3, 4, m + 5} \/ j - 4 \in 1..m
    BY <1>1
  <2>2. CASE j - 4 \in 1..m
    <3>1. 4 + (j - 4) = j /\ 0 + (j - 4) = j - 4 /\ j - 4 \in 0..m
      BY <2>2
    <3>2. Depth(g, 1, j) = 2 + Depth(x, 1, j - 4)
      BY <1>10, <3>1
    <3>3. Depth(x, 1, j - 4) >= -1 /\ Depth(x, 1, j - 4) \in Int
      BY <1>3, <1>14, <2>2, DepthType
    <3>4. QED
      BY <3>2, <3>3
  <2>3. QED
    BY <1>8, <1>9, <1>12, <2>1, <2>2
<1>15. QED
  BY <1>1, <1>6, <1>7, <1>8, <1>13, <1>14 DEF g

\* An annotation with a generated function behind it has that function for its
\* own: at least its head, and exactly all of it when the SQL is contained.
LEMMA CodeEnds ==
    ASSUME NEW s \in Seq(Item), NEW p \in 1..Len(s), NEW f \in Func, NEW bad, f \notin bad,
           PlainSql, EvenSql, p + Len(GeneratedCode(f, bad)) <= Len(s),
           Same(GeneratedCode(f, bad), 0, s, p, Len(GeneratedCode(f, bad)))
    PROVE  /\ HasCode(s, p)
           /\ s[p + 2] = FunctionHead(f)
           /\ FunctionEnd(s, p) \in p + 2..Len(s)
           /\ ContainedSql => FunctionEnd(s, p) = p + Len(GeneratedCode(f, bad))
<1> DEFINE g == GeneratedCode(f, bad)
           n == Len(g)
<1>1. /\ n \in Nat /\ n >= 6 /\ p \in Nat /\ Len(s) \in Nat /\ p + n <= Len(s)
  BY CodeItems
<1>2. g[2] = FunctionHead(f) /\ \A j \in 1..n : ~IsComment(g[j])
  BY CodeItems, CodePlain
<1>3. /\ Depth(g, 1, 1) = 0 /\ Depth(g, 1, 2) = 0 /\ Depth(g, 1, 3) = 1 /\ Depth(g, 1, n) = 0
      /\ ContainedSql => \A j \in 3..n - 1 : Depth(g, 1, j) >= 1
  BY CodeDepth
<1>4. Same(g, 0, s, p, n)
  OBVIOUS
<1> HIDE DEF g, n
<1>5. \A j \in 1..n : s[p + j] = g[j]
  BY <1>4 DEF Same
<1>6. \A j \in 1..n : Depth(s, p + 1, p + j) = Depth(g, 1, j)
  <2>1. SameDepth(g, 0, s, p, n)
    BY <1>1, <1>4, DepthSame
  <2>2. \A j \in 1..n : j \in 0..n /\ 0 + j = j /\ 0 + 1 = 1
    OBVIOUS
  <2>3. QED
    BY <2>1, <2>2 DEF SameDepth
<1>7. \A i \in p + 1..p + n : i - p \in 1..n /\ p + (i - p) = i
  BY <1>1
<1>8. \A i \in p + 1..p + n : ~IsComment(s[i])
  BY <1>2, <1>5, <1>7
<1>9. 1 \in 1..n /\ 2 \in 1..n /\ 3 \in 1..n /\ n \in 1..n
  BY <1>1
<1>10. HasCode(s, p) /\ s[p + 2] = FunctionHead(f)
  BY <1>1, <1>2, <1>5, <1>9 DEF HasCode
<1>11. Closed(s, p, p + n)
  <2>1. Depth(s, p + 1, p + n) = 0 /\ Depth(s, p + 1, p + 3) = 1
    BY <1>3, <1>6, <1>9
  <2>2. p + 3 \in p + 1..p + n
    BY <1>1
  <2>3. QED
    BY <2>1, <2>2 DEF Closed
<1> DEFINE e == FunctionEnd(s, p)
<1>12. IsEnd(s, p, e) /\ e <= p + n
  <2>1. p + n \in p + 1..Len(s)
    BY <1>1
  <2>2. QED
    BY <1>8, <1>11, <2>1, EndOf
<1>13. e \in p + 1..Len(s) /\ Closed(s, p, e)
  BY <1>12 DEF IsEnd
<1> HIDE DEF e
<1>14. e # p + 1
  <2>1. SUFFICES ASSUME e = p + 1 PROVE FALSE
    OBVIOUS
  <2>2. PICK i \in p + 1..p + 1 : Depth(s, p + 1, i) > 0
    BY <1>13, <2>1 DEF Closed
  <2>3. i = p + 1 /\ Depth(s, p + 1, p + 1) = 0
    BY <1>1, <1>3, <1>6, <1>9
  <2>4. QED
    BY <2>2, <2>3
<1>15. ASSUME ContainedSql PROVE e = p + n
  <2>1. ASSUME NEW d \in p + 1..p + n - 1 PROVE ~Closed(s, p, d)
    <3>1. d - p \in 1..n - 1 /\ p + (d - p) = d
      BY <1>1
    <3>2. CASE d - p \in 3..n - 1
      <4>1. Depth(s, p + 1, d) = Depth(g, 1, d - p)
        <5>1. PICK j \in 1..n : j = d - p
          BY <1>1, <3>1
        <5>2. d = p + j
          BY <1>1, <3>1, <5>1
        <5>3. QED
          BY <1>6, <5>1, <5>2
      <4>2. Depth(g, 1, d - p) >= 1 /\ Depth(g, 1, d - p) # 0
        <5>1. \A j \in 3..n - 1 : Depth(g, 1, j) >= 1
          BY <1>3, <1>15
        <5>2. \A y : y >= 1 => y # 0
          OBVIOUS
        <5>3. QED
          BY <3>2, <5>1, <5>2
      <4>3. QED
        BY <4>1, <4>2 DEF Closed
    <3>3. CASE d - p \in {1, 2}
      <4>1. ASSUME NEW i \in p + 1..d, Depth(s, p + 1, i) > 0 PROVE FALSE
        <5>1. i \in {p + 1, p + 2}
          BY <1>1, <3>3
        <5>2. Depth(s, p + 1, p + 1) = 0 /\ Depth(s, p + 1, p + 2) = 0
          BY <1>3, <1>6, <1>9
        <5>3. QED
          BY <4>1, <5>1, <5>2
      <4>2. QED
        BY <4>1 DEF Closed
    <3>4. QED
      BY <1>1, <3>1, <3>2, <3>3
  <2>2. p + n \in p + 1..Len(s)
    BY <1>1
  <2>3. PICK c : c = p + n
    OBVIOUS
  <2>4. c \in p + 1..Len(s) /\ Closed(s, p, c)
    BY <1>11, <2>2, <2>3
  <2>5. \A i \in p + 1..c : ~IsComment(s[i])
    BY <1>8, <2>3
  <2>6. \A d \in p + 1..c - 1 : ~Closed(s, p, d)
    BY <1>1, <2>1, <2>3
  <2>7. IsEnd(s, p, c)
    BY <2>4, <2>5, <2>6 DEF IsEnd
  <2>8. QED
    BY <2>3, <2>7, EndOf DEF e
<1>16. e \in p + 2..Len(s)
  BY <1>1, <1>13, <1>14
<1>17. QED
  BY <1>10, <1>15, <1>16 DEF e, n, g

\* A piece of code that is replaced has one annotation, and no comment between
\* it and the place.
LEMMA ReplacedOnce ==
    ASSUME NEW s \in Seq(Item), NEW q
    PROVE  /\ q \in Replaced(s) => q \in 2..Len(s) /\ ~IsComment(s[q]) /\ q \notin Annotations(s)
           /\ \A p \in Annotations(s) : p \in 1..Len(s) /\ IsAnnotation(s[p])
                                        /\ p + 1 <= Len(s) /\ ~IsComment(s[p + 1])
                                        /\ FunctionEnd(s, p) \in p..Len(s)
           /\ \A p, m \in Annotations(s) :
                 q \in p + 1..FunctionEnd(s, p) /\ q \in m + 1..FunctionEnd(s, m) => p = m
<1>1. ASSUME NEW p \in Annotations(s)
      PROVE  /\ p \in 1..Len(s) /\ IsAnnotation(s[p]) /\ IsComment(s[p])
             /\ p + 1 <= Len(s) /\ ~IsComment(s[p + 1])
             /\ FunctionEnd(s, p) \in p..Len(s)
             /\ \A n \in p + 1..FunctionEnd(s, p) : ~IsComment(s[n])
  <2>1. p \in 1..Len(s) /\ IsAnnotation(s[p]) /\ p + 1 <= Len(s) /\ ~IsComment(s[p + 1])
    BY DEF Annotations, HasCode
  <2>2. FunctionEnd(s, p) = p \/ IsEnd(s, p, FunctionEnd(s, p))
    BY <2>1, EndOf
  <2>3. IsComment(s[p])
    BY <2>1 DEF IsComment, IsAnnotation
  <2>4. QED
    BY <2>1, <2>2, <2>3 DEF IsEnd
<1>2. ASSUME q \in Replaced(s)
      PROVE  q \in 2..Len(s) /\ ~IsComment(s[q]) /\ q \notin Annotations(s)
  <2>1. PICK p \in Annotations(s) : q \in p + 1..FunctionEnd(s, p)
    BY <1>2 DEF Replaced
  <2>2. ~IsComment(s[q]) /\ q \in 2..Len(s)
    BY <1>1, <2>1
  <2>3. QED
    BY <1>1, <2>2
<1>3. ASSUME NEW p \in Annotations(s), NEW m \in Annotations(s),
             q \in p + 1..FunctionEnd(s, p), q \in m + 1..FunctionEnd(s, m)
      PROVE  ~(p < m)
  <2>1. SUFFICES ASSUME p < m PROVE FALSE
    OBVIOUS
  <2>2. m \in p + 1..FunctionEnd(s, p)
    BY <1>1, <1>3, <2>1
  <2>3. QED
    BY <1>1, <2>2
<1>4. ASSUME NEW p \in Annotations(s), NEW m \in Annotations(s),
             q \in p + 1..FunctionEnd(s, p), q \in m + 1..FunctionEnd(s, m)
      PROVE  p = m
  <2>1. ~(p < m) /\ ~(m < p) /\ p \in 1..Len(s) /\ m \in 1..Len(s)
    BY <1>1, <1>3, <1>4
  <2>2. QED
    BY <2>1
<1>5. QED
  BY <1>1, <1>2, <1>4

\* No piece of code that is replaced contains a comment or stands behind one
\* that is no annotation.
LEMMA ReplacedCode ==
    ASSUME NEW s \in Seq(Item), NEW q \in Replaced(s)
    PROVE  ~IsComment(s[q]) /\ s[q - 1] # Comment
<1>1. PICK p \in Annotations(s) :
          IsEnd(s, p, FunctionEnd(s, p)) /\ q \in p + 1..FunctionEnd(s, p)
  BY ReplacedBy
<1>2. p \in 1..Len(s) /\ FunctionEnd(s, p) \in p..Len(s) /\ IsAnnotation(s[p])
  BY ReplacedOnce
<1>3. q - 1 = p \/ q - 1 \in p + 1..FunctionEnd(s, p)
  BY <1>1, <1>2
<1>4. IsComment(Comment) /\ ~IsAnnotation(Comment)
  BY DEF IsComment, IsAnnotation, Comment
<1>5. \A n \in p + 1..FunctionEnd(s, p) : ~IsComment(s[n])
  BY <1>1 DEF IsEnd
<1>6. QED
  BY <1>1, <1>2, <1>3, <1>4, <1>5

-----------------------------------------------------------------------------
(* The new file, item by item.                                             *)

\* What the generator puts in the place of each item.
Pieces(s, bad) ==
    [p \in DOMAIN s |->
        CASE p \in Replaced(s)    -> <<>>
          [] p \in Annotations(s) -> <<s[p]>> \o GeneratedCode(s[p][2], bad)
          [] OTHER                -> <<s[p]>>]

\* The new file is made of these pieces.
LEMMA PiecesType ==
    ASSUME NEW s \in Seq(Item), NEW bad
    PROVE  /\ Pieces(s, bad) \in Seq(Seq(Item)) /\ Len(Pieces(s, bad)) = Len(s)
           /\ Regenerate(s, bad) = FlattenSeq(Pieces(s, bad))
<1>2. ASSUME NEW p \in 1..Len(s)
      PROVE  Pieces(s, bad)[p] \in Seq(Item)
  <2>1. s[p] \in Item /\ <<s[p]>> \in Seq(Item)
    OBVIOUS
  <2>2. CASE p \in Replaced(s)
    <3>1. Pieces(s, bad)[p] = <<>>
      <4>1. p \in DOMAIN s /\ p \notin Annotations(s)
        BY <2>2, ReplacedCode DEF Annotations, IsAnnotation, IsComment
      <4>2. QED
        BY <2>2, <4>1 DEF Pieces
    <3>2. QED
      BY <3>1
  <2>3. CASE p \notin Replaced(s) /\ p \in Annotations(s)
    <3>1. s[p][2] \in Func
      BY <2>1, <2>3, AnnotationItem DEF Annotations
    <3>2. GeneratedCode(s[p][2], bad) \in Seq(Item)
      BY <3>1, CodeType
    <3>3. Pieces(s, bad)[p] = <<s[p]>> \o GeneratedCode(s[p][2], bad)
      BY <2>3 DEF Pieces
    <3>4. QED
      BY <2>1, <3>2, <3>3
  <2>4. CASE p \notin Replaced(s) /\ p \notin Annotations(s)
    BY <2>1, <2>4 DEF Pieces
  <2>5. QED
    BY <2>2, <2>3, <2>4
<1>3. DOMAIN s = 1..Len(s) /\ Len(s) \in Nat
  OBVIOUS
<1>4. Pieces(s, bad) \in [1..Len(s) -> Seq(Item)]
  <2>1. Pieces(s, bad) = [p \in 1..Len(s) |-> Pieces(s, bad)[p]]
    BY <1>3 DEF Pieces
  <2>2. QED
    BY <1>2, <2>1
<1>5. QED
  BY <1>3, <1>4 DEF Regenerate, Pieces

\* What the generator writes behind the item at k.
Extra(s, bad, k) == IF k \in Annotations(s) THEN GeneratedCode(s[k][2], bad) ELSE <<>>

\* r is what is made of s: behind place at[k] stands what is made of item k.
Layout(s, bad, r, at) ==
    /\ r \in Seq(Item) /\ at \in [1..Len(s) + 1 -> Nat]
    /\ at[1] = 0 /\ at[Len(s) + 1] = Len(r)
    /\ \A k \in 1..Len(s) :
           /\ at[k + 1] <= Len(r)
           /\ k \in Replaced(s) => at[k + 1] = at[k]
           /\ k \notin Replaced(s) =>
                  /\ r[at[k] + 1] = s[k]
                  /\ at[k + 1] = at[k] + 1 + Len(Extra(s, bad, k))
                  /\ Same(Extra(s, bad, k), 0, r, at[k] + 1, Len(Extra(s, bad, k)))

\* What is written behind an item is a sequence of items.
LEMMA ExtraType ==
    ASSUME NEW s \in Seq(Item), NEW bad, NEW k \in 1..Len(s)
    PROVE  Extra(s, bad, k) \in Seq(Item) /\ Len(Extra(s, bad, k)) \in Nat
<1>1. CASE k \in Annotations(s)
  <2>1. s[k] \in Item /\ IsAnnotation(s[k])
    BY <1>1 DEF Annotations
  <2>2. Extra(s, bad, k) = GeneratedCode(s[k][2], bad) /\ s[k][2] \in Func
    BY <1>1, <2>1, AnnotationItem DEF Extra
  <2>3. Extra(s, bad, k) \in Seq(Item)
    BY <2>2, CodeType
  <2>4. QED
    BY <2>3
<1>2. CASE k \notin Annotations(s)
  <2>1. Extra(s, bad, k) = <<>>
    BY <1>2 DEF Extra
  <2>2. QED
    BY <2>1
<1>3. QED
  BY <1>1, <1>2

\* The new file has such places.
LEMMA LayoutExists ==
    ASSUME NEW s \in Seq(Item), NEW bad
    PROVE  \E at : Layout(s, bad, Regenerate(s, bad), at)
<1> DEFINE ss == Pieces(s, bad)
           n  == Len(s)
           r  == Regenerate(s, bad)
<1>1. /\ ss \in Seq(Seq(Item)) /\ Len(ss) = n /\ r = FlattenSeq(ss) /\ n \in Nat
  BY PiecesType
<1>2. ASSUME NEW k \in 1..n
      PROVE  /\ k \in Replaced(s) => ss[k] = <<>>
             /\ k \notin Replaced(s) => ss[k] = <<s[k]>> \o Extra(s, bad, k)
  <2>1. k \in DOMAIN s /\ s[k] \in Item
    OBVIOUS
  <2>2. k \in Replaced(s) => k \notin Annotations(s)
    BY ReplacedOnce
  <2>3. <<s[k]>> \o <<>> = <<s[k]>>
    BY <2>1
  <2>4. QED
    BY <2>1, <2>2, <2>3 DEF Pieces, Extra
<1> HIDE DEF ss, r
<1>3. PICK at : /\ at \in [1..Len(ss) + 1 -> Nat]
                /\ at[1] = 0 /\ at[Len(ss) + 1] = Len(r)
                /\ \A k \in 1..Len(ss) :
                       /\ at[k + 1] = at[k] + Len(ss[k])
                       /\ at[k + 1] <= Len(r)
                       /\ \A j \in 1..Len(ss[k]) : r[at[k] + j] = ss[k][j]
  <2>1. ss \in Seq(Seq(Item)) /\ r = FlattenSeq(ss)
    BY <1>1
  <2>2. \E at \in [1..Len(ss) + 1 -> Nat] :
            /\ at[1] = 0 /\ at[Len(ss) + 1] = Len(FlattenSeq(ss))
            /\ \A k \in 1..Len(ss) :
                   /\ at[k + 1] = at[k] + Len(ss[k])
                   /\ at[k + 1] <= Len(FlattenSeq(ss))
                   /\ \A j \in 1..Len(ss[k]) : FlattenSeq(ss)[at[k] + j] = ss[k][j]
    BY <2>1, FlattenPieces
  <2>3. QED
    BY <2>1, <2>2
<1>4. /\ r \in Seq(Item) /\ at \in [1..n + 1 -> Nat] /\ at[1] = 0 /\ at[n + 1] = Len(r)
      /\ \A k \in 1..n : /\ at[k + 1] = at[k] + Len(ss[k])
                         /\ at[k + 1] <= Len(r)
                         /\ \A j \in 1..Len(ss[k]) : r[at[k] + j] = ss[k][j]
  <2>1. r \in Seq(Item)
    BY <1>1, FlattenPieces
  <2>2. QED
    BY <1>1, <1>3, <2>1
<1>5. ASSUME NEW k \in 1..n
      PROVE  /\ at[k + 1] <= Len(r)
             /\ k \in Replaced(s) => at[k + 1] = at[k]
             /\ k \notin Replaced(s) =>
                    /\ r[at[k] + 1] = s[k]
                    /\ at[k + 1] = at[k] + 1 + Len(Extra(s, bad, k))
                    /\ Same(Extra(s, bad, k), 0, r, at[k] + 1, Len(Extra(s, bad, k)))
  <2>1. /\ at[k + 1] = at[k] + Len(ss[k]) /\ at[k] \in Nat /\ at[k + 1] <= Len(r)
        /\ \A j \in 1..Len(ss[k]) : r[at[k] + j] = ss[k][j]
    BY <1>1, <1>4
  <2>2. CASE k \in Replaced(s)
    <3>1. ss[k] = <<>>
      BY <1>2, <2>2
    <3>2. Len(ss[k]) = 0
      BY <3>1
    <3>3. QED
      BY <2>1, <2>2, <3>2
  <2>3. CASE k \notin Replaced(s)
    <3> DEFINE u == <<s[k]>>
               v == Extra(s, bad, k)
               w == ss[k]
    <3>1. w = u \o v /\ u \in Seq(Item) /\ v \in Seq(Item) /\ Len(u) = 1 /\ u[1] = s[k]
      BY <1>2, <2>3, ExtraType
    <3>2. at[k + 1] = at[k] + Len(w) /\ \A j \in 1..Len(w) : r[at[k] + j] = w[j]
      BY <2>1
    <3> HIDE DEF u, v, w
    <3>0. w = u \o v /\ u \in Seq(Item) /\ v \in Seq(Item)
      BY <3>1
    <3>3. /\ Len(u) \in Nat /\ Len(v) \in Nat /\ Len(w) = Len(u) + Len(v)
          /\ \A j \in 1..Len(u) : w[j] = u[j]
          /\ \A j \in 1..Len(v) : w[Len(u) + j] = v[j]
      BY <3>0, Concat
    <3>4. Len(w) = 1 + Len(v) /\ w[1] = s[k] /\ \A j \in 1..Len(v) : w[1 + j] = v[j]
      BY <3>1, <3>3
    <3>5. r[at[k] + 1] = s[k] /\ at[k + 1] = at[k] + 1 + Len(v)
      <4>1. \A x, y \in Nat : x + (1 + y) = x + 1 + y
        OBVIOUS
      <4>2. at[k + 1] = at[k] + 1 + Len(v)
        <5>1. /\ at[k + 1] = at[k] + Len(w) /\ Len(w) = 1 + Len(v)
              /\ Len(v) \in Nat /\ at[k] \in Nat
          BY <2>1, <3>2, <3>3, <3>4
        <5>2. QED
          BY <4>1, <5>1, Zenon
      <4>3. 1 \in 1..Len(w)
        BY <3>3, <3>4
      <4>4. QED
        BY <3>2, <3>4, <4>2, <4>3
    <3>6. Same(v, 0, r, at[k] + 1, Len(v))
      <4>1. ASSUME NEW j \in 1..Len(v) PROVE r[(at[k] + 1) + j] = v[0 + j]
        <5>1. 1 + j \in 1..Len(w) /\ at[k] + (1 + j) = (at[k] + 1) + j /\ 0 + j = j
          BY <2>1, <3>3, <3>4
        <5>2. r[at[k] + (1 + j)] = w[1 + j]
          BY <3>2, <5>1
        <5>3. QED
          BY <3>4, <5>1, <5>2
      <4>2. QED
        BY <4>1 DEF Same
    <3>7. QED
      BY <2>1, <2>3, <3>5, <3>6 DEF v
  <2>4. QED
    BY <2>2, <2>3
<1>6. Layout(s, bad, r, at)
  BY <1>4, <1>5 DEF Layout
<1>7. QED
  BY <1>6 DEF r

\* An item that is not replaced has its place, with nothing behind it unless it
\* is an annotation.
Stays(s, r, at, k) ==
    /\ at[k] + 1 \in 1..Len(r) /\ r[at[k] + 1] = s[k]
    /\ k \notin Annotations(s) => at[k + 1] = at[k] + 1

\* An item that is not replaced is in the result, at its place.
LEMMA LayoutStays ==
    ASSUME NEW s, NEW bad, NEW r, NEW at, NEW k, Layout(s, bad, r, at), s \in Seq(Item),
           k \in 1..Len(s), k \notin Replaced(s)
    PROVE  Stays(s, r, at, k)
<1>1. PICK a, l : a = at[k] /\ l = Len(Extra(s, bad, k))
  OBVIOUS
<1>2. a \in Nat /\ at[k + 1] = a + 1 + l /\ at[k + 1] <= Len(r) /\ Len(r) \in Nat
      /\ r[a + 1] = s[k]
  BY <1>1 DEF Layout
<1>3. l \in Nat
  BY <1>1, ExtraType
<1>4. k \notin Annotations(s) => l = 0
  <2>1. Len(<<>>) = 0
    OBVIOUS
  <2>2. QED
    BY <1>1, <2>1 DEF Extra
<1>5. a + 1 \in 1..Len(r) /\ (l = 0 => a + 1 + l = a + 1)
  BY <1>2, <1>3
<1>6. QED
  BY <1>1, <1>2, <1>4, <1>5 DEF Stays

\* Every item of r has been made of one of s.
MadeFrom(s, bad, r, at, q) ==
    \E k \in 1..Len(s) : /\ k \notin Replaced(s) /\ s[k] \in Item
                         /\ \/ q = at[k] + 1 /\ r[q] = s[k]
                            \/ \E j \in 1..Len(Extra(s, bad, k)) :
                                   q = at[k] + 1 + j /\ r[q] = Extra(s, bad, k)[j]

\* Every item of the result is at a place of the layout.
LEMMA LayoutFrom ==
    ASSUME NEW s, NEW bad, NEW r, NEW at, NEW q, Layout(s, bad, r, at), s \in Seq(Item),
           q \in 1..Len(r)
    PROVE  MadeFrom(s, bad, r, at, q)
<1> DEFINE n == Len(s)
           T == {k \in 1..n + 1 : at[k] >= q}
<1>1. /\ n \in Nat /\ r \in Seq(Item) /\ at \in [1..n + 1 -> Nat]
      /\ at[1] = 0 /\ at[n + 1] = Len(r)
  BY DEF Layout
<1>2. n + 1 \in T /\ T \subseteq Nat /\ 1 \notin T
  BY <1>1
<1>3. PICK m \in T : \A i \in T : m <= i
  <2> HIDE DEF T
  <2>1. QED
    BY <1>2, LeastOf
<1>4. PICK k : k = m - 1
  OBVIOUS
<1>5. m \in 1..n + 1 /\ m # 1 /\ at[m] >= q
  BY <1>2, <1>3
<1>6. k \in 1..n /\ m = k + 1 /\ ~(m <= k) /\ k \in 1..n + 1
  BY <1>1, <1>4, <1>5
<1>7. k \notin T
  <2> HIDE DEF T
  <2>1. QED
    BY <1>3, <1>6
<1> DEFINE g == Extra(s, bad, k)
<1>8. at[k] < q /\ q <= at[k + 1] /\ at[k] \in Nat /\ at[k + 1] \in Nat /\ s[k] \in Item
  BY <1>1, <1>5, <1>6, <1>7
<1>9. k \notin Replaced(s)
  BY <1>6, <1>8 DEF Layout
<1>10. r[at[k] + 1] = s[k] /\ at[k + 1] = at[k] + 1 + Len(g) /\ Same(g, 0, r, at[k] + 1, Len(g))
  BY <1>6, <1>9 DEF Layout
<1>11. Len(g) \in Nat
  BY <1>6, ExtraType
<1> HIDE DEF g
<1>12. CASE q = at[k] + 1
  BY <1>6, <1>8, <1>9, <1>10, <1>12 DEF MadeFrom
<1>13. CASE q # at[k] + 1
  <2>1. PICK a, l : a = at[k] /\ l = Len(g)
    OBVIOUS
  <2>2. PICK j : j = q - (a + 1)
    OBVIOUS
  <2>3. a \in Nat /\ l \in Nat /\ a < q /\ q <= a + 1 + l /\ q # a + 1 /\ q \in Nat
    BY <1>8, <1>10, <1>11, <1>13, <2>1
  <2>4. j \in 1..l /\ q = a + 1 + j /\ 0 + j = j
    BY <2>2, <2>3
  <2>5. r[q] = g[j]
    BY <1>10, <2>1, <2>4 DEF Same
  <2>6. QED
    BY <1>6, <1>8, <1>9, <2>1, <2>4, <2>5 DEF MadeFrom, g
<1>14. QED
  BY <1>12, <1>13

-----------------------------------------------------------------------------
(* Heads and annotations of the new file.                                  *)

\* Every generated head in s belongs to the function of an annotation.
HeadsOwned(s) ==
    \A q \in 1..Len(s) : (\E f \in Func : s[q] = FunctionHead(f)) => q \in Replaced(s)

\* Every annotation in s is one of those in wrote, and is there once.
Known(s, wrote) ==
    /\ \A p \in 1..Len(s) : IsAnnotation(s[p]) => s[p] \in wrote
    /\ \A p, q \in 1..Len(s) : IsAnnotation(s[p]) /\ s[p] = s[q] => p = q

\* Where x stands in s.
Places(s, x) == {q \in 1..Len(s) : s[q] = x}

\* The functions that s has.
Heads(s) == {f \in Func : Places(s, FunctionHead(f)) # {}}

\* What is made of an annotation of s: the annotation, and its function.
CodeAt(s, bad, r, at, k, f) ==
    /\ k \in 1..Len(s) /\ k \notin Replaced(s)
    /\ f \in Func /\ s[k] = Annotation(f)
    /\ at[k] \in Nat /\ at[k] + 1 \in 1..Len(r) /\ r[at[k] + 1] = s[k]
    /\ at[k + 1] = at[k] + 1 + Len(GeneratedCode(f, bad))
    /\ PlainSql /\ EvenSql /\ f \notin bad =>
          /\ at[k] + 1 \in Annotations(r)
          /\ at[k] + 3 \in Replaced(r) /\ r[at[k] + 3] = FunctionHead(f)
          /\ ContainedSql => FunctionEnd(r, at[k] + 1) = at[k + 1]

\* Behind an annotation the result has the whole generated function.
LEMMA LayoutCode ==
    ASSUME NEW s, NEW bad, NEW r, NEW at, NEW k, Layout(s, bad, r, at), s \in Seq(Item),
           k \in Annotations(s)
    PROVE  CodeAt(s, bad, r, at, k, s[k][2])
<1> DEFINE f == s[k][2]
           g == GeneratedCode(f, bad)
<1>1. k \in 1..Len(s) /\ k \notin Replaced(s) /\ IsAnnotation(s[k]) /\ Len(s) \in Nat
  BY ReplacedOnce
<1>2. f \in Func /\ s[k] = Annotation(f)
  <2>1. s[k] \in Item
    BY <1>1
  <2>2. QED
    BY <1>1, <2>1, AnnotationItem
<1>3. Extra(s, bad, k) = g /\ Len(g) \in Nat
  BY <1>1, ExtraType DEF Extra
<1>4. /\ r \in Seq(Item) /\ at[k] \in Nat /\ at[k + 1] <= Len(r)
      /\ r[at[k] + 1] = s[k] /\ at[k + 1] = at[k] + 1 + Len(g)
      /\ Same(g, 0, r, at[k] + 1, Len(g))
  <2>1. k \in 1..Len(s) + 1
    BY <1>1
  <2>2. QED
    BY <1>1, <1>3, <2>1 DEF Layout
<1>5. PICK p : p = at[k] + 1
  OBVIOUS
<1> HIDE DEF g, f
<1>6. /\ p \in 1..Len(r) /\ at[k + 1] = p + Len(g) /\ p + Len(g) <= Len(r)
      /\ p + 2 = at[k] + 3 /\ p \in Nat
  <2>1. PICK a, l : a = at[k] /\ l = Len(g)
    OBVIOUS
  <2>2. a \in Nat /\ l \in Nat /\ p = a + 1 /\ p + l <= Len(r) /\ Len(r) \in Nat
    BY <1>3, <1>4, <1>5, <2>1
  <2>3. p \in 1..Len(r) /\ p + 2 = a + 3
    BY <2>2
  <2>4. QED
    BY <1>4, <1>5, <2>1, <2>2, <2>3
<1>7. ASSUME PlainSql, EvenSql, f \notin bad
      PROVE  /\ p \in Annotations(r)
             /\ p + 2 \in Replaced(r) /\ r[p + 2] = FunctionHead(f)
             /\ ContainedSql => FunctionEnd(r, p) = p + Len(g)
  <2>1. /\ HasCode(r, p) /\ r[p + 2] = FunctionHead(f)
        /\ FunctionEnd(r, p) \in p + 2..Len(r)
        /\ ContainedSql => FunctionEnd(r, p) = p + Len(g)
    <3>1. f \in Func /\ r \in Seq(Item) /\ p \in 1..Len(r)
          /\ p + Len(GeneratedCode(f, bad)) <= Len(r)
          /\ Same(GeneratedCode(f, bad), 0, r, p, Len(GeneratedCode(f, bad)))
      BY <1>2, <1>4, <1>5, <1>6 DEF g
    <3>2. QED
      BY <1>7, <3>1, CodeEnds DEF g
  <2>2. p \in Annotations(r)
    <3>1. p \in DOMAIN r /\ r[p] = s[k]
      BY <1>4, <1>5, <1>6
    <3>2. QED
      BY <1>1, <2>1, <3>1 DEF Annotations
  <2>3. p + 2 \in p + 1..FunctionEnd(r, p)
    BY <1>6, <2>1
  <2>4. p + 2 \in Replaced(r)
    BY <2>2, <2>3 DEF Replaced
  <2>5. QED
    BY <2>1, <2>2, <2>4
<1>8. /\ at[k] \in Nat /\ at[k] + 1 \in 1..Len(r) /\ r[at[k] + 1] = s[k]
      /\ at[k + 1] = at[k] + 1 + Len(g)
  BY <1>4, <1>5, <1>6
<1>9. PlainSql /\ EvenSql /\ f \notin bad =>
         /\ at[k] + 1 \in Annotations(r)
         /\ at[k] + 3 \in Replaced(r) /\ r[at[k] + 3] = FunctionHead(f)
         /\ ContainedSql => FunctionEnd(r, at[k] + 1) = at[k + 1]
  BY <1>5, <1>6, <1>7
<1>10. QED
  BY <1>1, <1>2, <1>8, <1>9 DEF CodeAt, g, f

\* With plain SQL every annotation of r is one of s, and every head of r is that
\* of the function of an annotation.
LEMMA LayoutKinds ==
    ASSUME NEW s, NEW bad, NEW r, NEW at, NEW q, Layout(s, bad, r, at), s \in Seq(Item),
           PlainSql, q \in 1..Len(r)
    PROVE  /\ IsAnnotation(r[q]) =>
                 \E k \in 1..Len(s) : k \notin Replaced(s) /\ q = at[k] + 1 /\ r[q] = s[k]
           /\ \A f \in Func : HeadsOwned(s) /\ r[q] = FunctionHead(f) =>
                 \E k \in Annotations(s) : s[k] = Annotation(f) /\ f \notin bad /\ q = at[k] + 3
<1>1. PICK k \in 1..Len(s) : /\ k \notin Replaced(s) /\ s[k] \in Item
                             /\ \/ q = at[k] + 1 /\ r[q] = s[k]
                                \/ \E j \in 1..Len(Extra(s, bad, k)) :
                                      q = at[k] + 1 + j /\ r[q] = Extra(s, bad, k)[j]
  <2>1. MadeFrom(s, bad, r, at, q)
    BY LayoutFrom
  <2>2. QED
    BY <2>1 DEF MadeFrom
<1>2. CASE q = at[k] + 1 /\ r[q] = s[k]
  BY <1>1, <1>2 DEF HeadsOwned
<1>3. ASSUME NEW j \in 1..Len(Extra(s, bad, k)),
             q = at[k] + 1 + j, r[q] = Extra(s, bad, k)[j]
      PROVE  /\ ~IsAnnotation(r[q])
             /\ \A f \in Func : r[q] = FunctionHead(f) =>
                   k \in Annotations(s) /\ s[k] = Annotation(f) /\ f \notin bad
                   /\ q = at[k] + 3
  <2>1. k \in Annotations(s)
    <3>1. Len(<<>>) = 0 /\ 1..0 = {}
      OBVIOUS
    <3>2. QED
      BY <1>3, <3>1 DEF Extra
  <2> DEFINE h == s[k][2]
             g == GeneratedCode(h, bad)
  <2>2. /\ h \in Func /\ s[k] = Annotation(h) /\ at[k] \in Nat
    <3>1. CodeAt(s, bad, r, at, k, h)
      BY <2>1, LayoutCode
    <3>2. QED
      BY <3>1 DEF CodeAt
  <2>3. j \in 1..Len(g) /\ r[q] = g[j]
    BY <1>3, <2>1 DEF Extra
  <2>4. /\ h \notin bad /\ ~IsComment(g[j])
        /\ \A f \in Func : g[j] = FunctionHead(f) => j = 2 /\ f = h
    BY <2>2, <2>3, CodePlain
  <2>5. ~IsAnnotation(r[q])
    BY <2>3, <2>4 DEF IsComment, IsAnnotation
  <2>6. j = 2 => q = at[k] + 3
    BY <1>3, <2>2
  <2> HIDE DEF g, h
  <2>7. QED
    BY <2>1, <2>2, <2>3, <2>4, <2>5, <2>6
<1>4. QED
  BY <1>1, <1>2, <1>3

\* The generator leaves no head behind but those of the functions it has written.
LEMMA RegenerateOwned ==
    ASSUME NEW s \in Seq(Item), NEW bad, PlainSql, EvenSql, HeadsOwned(s)
    PROVE  /\ HeadsOwned(Regenerate(s, bad))
           /\ Heads(Regenerate(s, bad)) = Generated(s, bad)
<1> DEFINE r == Regenerate(s, bad)
<1>1. PICK at : Layout(s, bad, r, at)
  BY LayoutExists
<1> HIDE DEF r
<1>2. ASSUME NEW q \in 1..Len(r), NEW f \in Func, r[q] = FunctionHead(f)
      PROVE  q \in Replaced(r) /\ f \in Generated(s, bad)
  <2>1. PICK k \in Annotations(s) : s[k] = Annotation(f) /\ f \notin bad /\ q = at[k] + 3
    BY <1>1, <1>2, LayoutKinds
  <2>2. s[k][2] = f
    BY <2>1 DEF Annotation
  <2>3. q \in Replaced(r)
    <3>1. CodeAt(s, bad, r, at, k, f)
      BY <1>1, <2>1, <2>2, LayoutCode
    <3>2. QED
      BY <2>1, <3>1 DEF CodeAt
  <2>4. QED
    BY <2>1, <2>2, <2>3 DEF Generated
<1>3. ASSUME NEW f \in Generated(s, bad)
      PROVE  f \in Heads(r)
  <2>1. PICK k \in Annotations(s) : s[k][2] = f /\ f \notin bad
    BY DEF Generated
  <2>2. f \in Func /\ at[k] + 3 \in Replaced(r) /\ r[at[k] + 3] = FunctionHead(f)
    <3>1. CodeAt(s, bad, r, at, k, f)
      BY <1>1, <2>1, LayoutCode
    <3>2. QED
      BY <2>1, <3>1 DEF CodeAt
  <2>3. at[k] + 3 \in 1..Len(r)
    <3>1. r \in Seq(Item)
      BY <1>1 DEF Layout
    <3>2. at[k] + 3 \in 2..Len(r) /\ Len(r) \in Nat
      BY <2>2, <3>1, ReplacedOnce
    <3>3. QED
      BY <3>2
  <2>4. QED
    BY <2>2, <2>3 DEF Heads, Places
<1>4. HeadsOwned(r)
  BY <1>2 DEF HeadsOwned
<1>5. Heads(r) \subseteq Generated(s, bad)
  BY <1>2 DEF Heads, Places
<1>6. QED
  BY <1>3, <1>4, <1>5 DEF r

\* It writes no annotation of its own, and writes none twice.
LEMMA RegenerateKnown ==
    ASSUME NEW s \in Seq(Item), NEW bad, NEW wrote, PlainSql, Known(s, wrote)
    PROVE  Known(Regenerate(s, bad), wrote)
<1> DEFINE r == Regenerate(s, bad)
<1>1. PICK at : Layout(s, bad, r, at)
  BY LayoutExists
<1> HIDE DEF r
<1>2. ASSUME NEW q \in 1..Len(r), IsAnnotation(r[q])
      PROVE  \E k \in 1..Len(s) : q = at[k] + 1 /\ r[q] = s[k]
  BY <1>1, <1>2, LayoutKinds
<1>3. ASSUME NEW p \in 1..Len(r), NEW q \in 1..Len(r), IsAnnotation(r[p]), r[p] = r[q]
      PROVE  p = q
  <2>1. PICK k \in 1..Len(s) : p = at[k] + 1 /\ r[p] = s[k]
    BY <1>2, <1>3
  <2>2. PICK m \in 1..Len(s) : q = at[m] + 1 /\ r[q] = s[m]
    BY <1>2, <1>3
  <2>3. k = m
    BY <1>3, <2>1, <2>2 DEF Known
  <2>4. QED
    BY <2>1, <2>2, <2>3
<1>4. \A p \in 1..Len(r) : IsAnnotation(r[p]) => r[p] \in wrote
  BY <1>2 DEF Known
<1>5. QED
  BY <1>3, <1>4 DEF Known, r

-----------------------------------------------------------------------------
(* Where the functions of the new file end.                                *)

\* Of the code behind an annotation the function is replaced, and no more.
LEMMA BehindEnd ==
    ASSUME NEW s \in Seq(Item), NEW p \in Annotations(s), NEW c \in p..Len(s), Block(s, p, c)
    PROVE  \A n \in p + 1..c :
              n \notin Annotations(s) /\ (n \in Replaced(s) <=> n <= FunctionEnd(s, p))
<1>1. \A m \in Annotations(s) : /\ m \in 1..Len(s) /\ IsComment(s[m])
                                /\ FunctionEnd(s, m) \in m..Len(s)
                                /\ \A i \in m + 1..FunctionEnd(s, m) : ~IsComment(s[i])
  <2>1. TAKE m \in Annotations(s)
  <2>2. m \in 1..Len(s) /\ IsAnnotation(s[m]) /\ FunctionEnd(s, m) \in m..Len(s)
    BY ReplacedOnce
  <2>3. FunctionEnd(s, m) = m \/ IsEnd(s, m, FunctionEnd(s, m))
    BY <2>2, EndOf
  <2>4. QED
    BY <2>2, <2>3 DEF IsEnd, IsComment, IsAnnotation
<1>2. TAKE n \in p + 1..c
<1>3. ~IsComment(s[n]) /\ n \notin Annotations(s)
  BY <1>1 DEF Block
<1>4. ASSUME n <= FunctionEnd(s, p) PROVE n \in Replaced(s)
  <2>1. n \in p + 1..FunctionEnd(s, p)
    BY <1>1, <1>4
  <2>2. QED
    BY <2>1 DEF Replaced
<1>5. ASSUME n \in Replaced(s) PROVE n <= FunctionEnd(s, p)
  <2>1. PICK m \in Annotations(s) : n \in m + 1..FunctionEnd(s, m)
    BY <1>5 DEF Replaced
  <2>2. ~(m < p)
    <3>1. ASSUME m < p PROVE p \in m + 1..FunctionEnd(s, m)
      BY <1>1, <2>1, <3>1
    <3>2. QED
      BY <1>1, <2>1, <3>1
  <2>3. ~(p < m)
    <3>1. ASSUME p < m PROVE m \in p + 1..c
      BY <1>1, <2>1, <3>1
    <3>2. QED
      BY <1>1, <2>1, <3>1 DEF Block
  <2>4. m = p
    BY <1>1, <2>1, <2>2, <2>3
  <2>5. QED
    BY <1>1, <2>1, <2>4
<1>6. QED
  BY <1>3, <1>4, <1>5

\* Items that are replaced take no place.
NoPlace(at, a, b) == at[b + 1] = at[a]

\* A stretch of replaced items takes no place in the result.
LEMMA LayoutGap ==
    ASSUME NEW s, NEW bad, NEW r, NEW at, NEW a, NEW b, Layout(s, bad, r, at), s \in Seq(Item),
           a \in 1..Len(s) + 1, b \in 0..Len(s), a <= b + 1,
           \A n \in a..b : n \in Replaced(s)
    PROVE  NoPlace(at, a, b)
<1>1. PICK d : d = b + 1
  OBVIOUS
<1> DEFINE T == {n \in a..d : at[n] = at[a]}
<1>2. a \in Nat /\ d \in Nat /\ a \in T /\ d \in a..d
  BY <1>1
<1>3. ASSUME NEW k \in a..d, k \in T, k < d
      PROVE  k + 1 \in T
  <2>1. k \in a..b /\ k \in 1..Len(s) /\ k + 1 \in a..d
    BY <1>1, <1>3
  <2>2. at[k + 1] = at[k]
    BY <2>1 DEF Layout
  <2>3. QED
    BY <1>3, <2>1, <2>2
<1> HIDE DEF T
<1>4. a..d \subseteq T
  BY <1>2, <1>3, RangeInduction
<1>5. QED
  BY <1>1, <1>2, <1>4 DEF T, NoPlace

\* Items that are neither replaced nor annotations stay together.
Moved(s, r, at, a, b) ==
    /\ at[b + 1] = at[a] + (b + 1 - a)
    /\ \A n \in a..b : r[at[a] + (n + 1 - a)] = s[n]

\* A stretch without annotations and replaced items is copied.
LEMMA LayoutStretch ==
    ASSUME NEW s, NEW bad, NEW r, NEW at, NEW a, NEW b, Layout(s, bad, r, at), s \in Seq(Item),
           a \in 1..Len(s) + 1, b \in 0..Len(s), a <= b + 1,
           \A n \in a..b : n \notin Replaced(s) /\ n \notin Annotations(s)
    PROVE  Moved(s, r, at, a, b)
<1>1. PICK d : d = b + 1
  OBVIOUS
<1> DEFINE T == {n \in a..d : at[n] = at[a] + (n - a)}
<1>0. at[a] \in Nat
  BY DEF Layout
<1>2. a \in Nat /\ d \in Nat /\ a \in T /\ d \in a..d
  BY <1>0, <1>1
<1>3. ASSUME NEW k \in a..b
      PROVE  at[k + 1] = at[k] + 1 /\ r[at[k] + 1] = s[k] /\ at[k] \in Nat
  <2>1. k \in 1..Len(s) /\ Len(Extra(s, bad, k)) = 0 /\ k \in 1..Len(s) + 1
    BY DEF Extra
  <2>2. at[k + 1] = at[k] + 1 + 0 /\ r[at[k] + 1] = s[k] /\ at[k] \in Nat
    BY <2>1 DEF Layout
  <2>3. QED
    BY <2>2
<1>4. ASSUME NEW k \in a..d, k \in T, k < d
      PROVE  k + 1 \in T
  <2>1. k \in a..b /\ k + 1 \in a..d
    BY <1>1, <1>4
  <2>2. at[k + 1] = at[a] + (k + 1 - a)
    <3>1. PICK x, y, z : x = at[k] /\ y = at[a] /\ z = at[k + 1]
      OBVIOUS
    <3>2. z = x + 1 /\ x = y + (k - a) /\ y \in Nat
      BY <1>0, <1>3, <1>4, <2>1, <3>1
    <3>3. z = y + (k + 1 - a)
      BY <1>2, <3>2
    <3>4. QED
      BY <3>1, <3>3
  <2>3. QED
    BY <1>4, <2>1, <2>2
<1> HIDE DEF T
<1>5. a..d \subseteq T
  BY <1>2, <1>4, RangeInduction
<1>6. \A n \in a..d : at[n] = at[a] + (n - a)
  BY <1>5 DEF T
<1>7. ASSUME NEW n \in a..b PROVE r[at[a] + (n + 1 - a)] = s[n]
  <2>1. PICK x, y : x = at[n] /\ y = at[a]
    OBVIOUS
  <2>2. n \in a..d /\ y \in Nat
    BY <1>0, <1>1, <2>1
  <2>3. x = y + (n - a) /\ r[x + 1] = s[n]
    BY <1>3, <1>6, <2>1, <2>2
  <2>4. y + (n + 1 - a) = x + 1
    BY <1>2, <2>2, <2>3
  <2>5. QED
    BY <2>1, <2>3, <2>4
<1>8. at[b + 1] = at[a] + (b + 1 - a)
  BY <1>1, <1>2, <1>6
<1>9. QED
  BY <1>7, <1>8 DEF Moved

\* Behind the annotation at p stands code up to c, where no function can end.
FollowedTo(s, p, c) == Block(s, p, c) /\ s[c] # Close

\* Code stands behind every annotation: a run cannot take it away from its annotation.
Followed(s) ==
    \A p \in 1..Len(s) : IsAnnotation(s[p]) => \E c \in p + 1..Len(s) : FollowedTo(s, p, c)

\* Behind every annotation stands its generated function.
Done(s) ==
    \A p \in Annotations(s) :
        LET g == GeneratedCode(s[p][2], {}) IN
        /\ FunctionEnd(s, p) = p + Len(g) /\ p + Len(g) <= Len(s)
        /\ Same(g, 0, s, p, Len(g))

\* Behind such an annotation there is code.
LEMMA FollowedCode ==
    ASSUME NEW s \in Seq(Item), NEW p \in 1..Len(s), IsAnnotation(s[p]), Followed(s)
    PROVE  p \in Annotations(s)
<1>1. PICK c \in p + 1..Len(s) : Block(s, p, c)
  BY DEF Followed, FollowedTo
<1>2. p + 1 \in p + 1..c /\ p < Len(s)
  BY <1>1
<1>3. ~IsComment(s[p + 1])
  BY <1>1, <1>2 DEF Block
<1>4. QED
  BY <1>2, <1>3 DEF Annotations, HasCode

\* The generator leaves code behind each annotation, whether it has written the
\* function or not.
LEMMA RegenerateFollowed ==
    ASSUME NEW s \in Seq(Item), NEW bad, PlainSql, Followed(s)
    PROVE  Followed(Regenerate(s, bad))
<1> DEFINE r == Regenerate(s, bad)
<1>1. PICK at : Layout(s, bad, r, at)
  BY LayoutExists
<1> HIDE DEF r
<1>2. SUFFICES ASSUME NEW q \in 1..Len(r), IsAnnotation(r[q])
               PROVE  \E c \in q + 1..Len(r) : FollowedTo(r, q, c)
  BY DEF Followed, r
<1>3. /\ r \in Seq(Item) /\ at \in [1..Len(s) + 1 -> Nat] /\ at[Len(s) + 1] = Len(r)
      /\ Len(s) \in Nat /\ Len(r) \in Nat
  <2>1. r \in Seq(Item) /\ at \in [1..Len(s) + 1 -> Nat] /\ at[Len(s) + 1] = Len(r)
    BY <1>1 DEF Layout
  <2>2. QED
    BY <2>1
<1>4. PICK k \in 1..Len(s) : k \notin Replaced(s) /\ q = at[k] + 1 /\ r[q] = s[k]
  BY <1>1, <1>2, LayoutKinds
<1>5. k \in Annotations(s)
  BY <1>2, <1>4, FollowedCode
<1>6. PICK c \in k + 1..Len(s) : FollowedTo(s, k, c)
  BY <1>2, <1>4 DEF Followed
<1> DEFINE f == s[k][2]
           g == GeneratedCode(f, bad)
           b == FunctionEnd(s, k)
           e == at[k + 1]
           d == at[c + 1]
<1>7. CodeAt(s, bad, r, at, k, f)
  BY <1>1, <1>5, LayoutCode
<1>8. /\ b \in k..Len(s) /\ b < c /\ Block(s, k, c) /\ s[c] # Close
      /\ \A n \in k + 1..c : n \notin Annotations(s) /\ (n \in Replaced(s) <=> n <= b)
  <2>1. b \in k..Len(s)
    BY <1>5, ReplacedOnce
  <2>2. Block(s, k, c) /\ s[c] # Close /\ c \in k..Len(s) /\ k \in Nat /\ k < c
    BY <1>6 DEF FollowedTo
  <2>3. b < c
    <3>1. b \in k..c /\ (b = k \/ IsEnd(s, k, b))
      BY <2>2, EndInBlock, EndOf
    <3> HIDE DEF b
    <3>2. b # c
      BY <2>2, <3>1, EndCloses
    <3>3. QED
      BY <2>2, <3>1, <3>2
  <2> HIDE DEF b
  <2>4. \A n \in k + 1..c : n \notin Annotations(s) /\ (n \in Replaced(s) <=> n <= b)
    BY <1>5, <2>2, BehindEnd DEF b
  <2>5. QED
    BY <2>1, <2>2, <2>3, <2>4
<1> HIDE DEF f, b
<1>9. at[b + 1] = e
  <2>1. PICK a : a = k + 1
    OBVIOUS
  <2>2. a \in 1..Len(s) + 1 /\ b \in 0..Len(s) /\ a <= b + 1
    BY <1>3, <1>6, <1>8, <2>1
  <2>3. \A n \in a..b : n \in Replaced(s)
    BY <1>6, <1>8, <2>1
  <2> HIDE DEF e
  <2>4. NoPlace(at, a, b)
    BY <1>1, <2>2, <2>3, LayoutGap
  <2>5. QED
    BY <2>1, <2>4 DEF e, NoPlace
<1>10. /\ at[c + 1] = at[b + 1] + (c + 1 - (b + 1))
       /\ \A n \in b + 1..c : r[at[b + 1] + (n + 1 - (b + 1))] = s[n]
  <2>1. PICK a : a = b + 1
    OBVIOUS
  <2>2. a \in 1..Len(s) + 1 /\ c \in 0..Len(s) /\ a <= c + 1
    BY <1>6, <1>8, <2>1
  <2>3. \A n \in a..c : n \notin Replaced(s) /\ n \notin Annotations(s)
    BY <1>6, <1>8, <2>1
  <2>4. Moved(s, r, at, a, c)
    BY <1>1, <2>2, <2>3, LayoutStretch
  <2>5. QED
    BY <2>1, <2>4 DEF Moved
<1>11. /\ e \in Nat /\ d \in Nat /\ d = e + (c - b) /\ d <= Len(r)
       /\ e = q + Len(g) /\ Len(g) \in Nat
       /\ k \in Nat /\ b \in Nat /\ c \in Nat /\ q \in Nat /\ c <= Len(s)
  <2>1. k + 1 \in 1..Len(s) + 1 /\ c + 1 \in 1..Len(s) + 1 /\ c \in 1..Len(s)
    BY <1>3, <1>6
  <2>2. d <= Len(r) /\ e \in Nat /\ d \in Nat
    BY <1>1, <1>3, <2>1 DEF Layout
  <2>3. e = q + Len(g) /\ q \in Nat /\ f \in Func
    BY <1>4, <1>7 DEF CodeAt
  <2>4. Len(g) \in Nat
    <3>1. g \in Seq(Item)
      BY <2>3, CodeType
    <3>2. QED
      BY <3>1
  <2> HIDE DEF g
  <2>5. k \in Nat /\ b \in Nat /\ c \in Nat /\ c <= Len(s)
    BY <1>3, <1>6, <1>8
  <2>6. d = e + (c - b)
    BY <1>9, <1>10, <2>2, <2>5
  <2>7. QED
    BY <2>2, <2>3, <2>4, <2>5, <2>6
<1>12. \A j \in 1..Len(g) : r[q + j] = g[j] /\ ~IsComment(g[j])
  <2>1. f \in Func
    BY <1>7 DEF CodeAt
  <2>2. \A j \in 1..Len(g) : ~IsComment(g[j])
    BY <2>1, CodePlain
  <2>3. Extra(s, bad, k) = g
    BY <1>5 DEF Extra, f
  <2>4. Same(g, 0, r, q, Len(g))
    BY <1>1, <1>4, <2>3 DEF Layout
  <2> HIDE DEF g
  <2>5. \A j \in 1..Len(g) : 0 + j = j
    OBVIOUS
  <2>6. QED
    BY <2>2, <2>4, <2>5 DEF Same
<1>13. \A n \in b + 1..c : r[e + (n - b)] = s[n] /\ ~IsComment(s[n])
  <2>1. TAKE n \in b + 1..c
  <2>2. n + 1 - (b + 1) = n - b /\ n \in k + 1..c
    BY <1>8, <1>11
  <2>3. r[at[b + 1] + (n + 1 - (b + 1))] = s[n]
    BY <1>10
  <2>4. QED
    BY <1>8, <1>9, <2>2, <2>3 DEF Block
<1>14. d < Len(r) => IsComment(r[d + 1])
  <2>1. SUFFICES ASSUME d < Len(r) PROVE IsComment(r[d + 1])
    OBVIOUS
  <2>2. c # Len(s)
    BY <1>3, <1>11, <2>1
  <2>3. c < Len(s) /\ c + 1 \in 1..Len(s)
    BY <1>3, <1>11, <2>2
  <2>4. IsComment(s[c + 1])
    BY <1>8, <2>3 DEF Block
  <2>5. c + 1 \notin Replaced(s)
    BY <2>4, ReplacedOnce
  <2>6. r[d + 1] = s[c + 1]
    BY <1>1, <2>3, <2>5 DEF Layout
  <2>7. QED
    BY <2>4, <2>6
<1> HIDE DEF e, d, g
<1>15. \A n \in e + 1..d : ~IsComment(r[n])
  <2>1. TAKE n \in e + 1..d
  <2>2. PICK m : m = b + (n - e)
    OBVIOUS
  <2>3. m \in b + 1..c /\ e + (m - b) = n
    BY <1>11, <2>2
  <2>4. QED
    BY <1>13, <2>3
<1>16. Block(r, q, d)
  <2>1. ASSUME NEW n \in q + 1..d PROVE ~IsComment(r[n])
    <3>1. CASE n \in e + 1..d
      BY <1>15, <3>1
    <3>2. CASE n \notin e + 1..d
      <4>1. PICK j \in 1..Len(g) : j = n - q
        BY <1>11, <3>2
      <4>2. n = q + j
        BY <1>11, <4>1
      <4>3. QED
        BY <1>12, <4>2
    <3>3. QED
      BY <3>1, <3>2
  <2>2. QED
    BY <1>14, <2>1 DEF Block
<1>17. d \in q + 1..Len(r)
  BY <1>3, <1>8, <1>11
<1>18. r[d] # Close
  <2>1. c \in b + 1..c /\ e + (c - b) = d
    BY <1>8, <1>11
  <2>2. QED
    BY <1>8, <1>13, <2>1
<1>19. FollowedTo(r, q, d)
  BY <1>16, <1>18 DEF FollowedTo
<1>20. QED
  BY <1>17, <1>19

-----------------------------------------------------------------------------
(* To generate again.                                                      *)

\* When all SQL prepares, every annotation gets its function.
LEMMA RegenerateDone ==
    ASSUME NEW s \in Seq(Item), PlainSql, ContainedSql
    PROVE  Done(Regenerate(s, {}))
<1> DEFINE r == Regenerate(s, {})
<1>1. PICK at : Layout(s, {}, r, at)
  BY LayoutExists
<1> HIDE DEF r
<1>2. SUFFICES ASSUME NEW q \in Annotations(r)
               PROVE  LET g == GeneratedCode(r[q][2], {}) IN
                      /\ FunctionEnd(r, q) = q + Len(g) /\ q + Len(g) <= Len(r)
                      /\ Same(g, 0, r, q, Len(g))
  BY DEF Done, r
<1>3. r \in Seq(Item) /\ Len(s) \in Nat /\ at[Len(s) + 1] = Len(r)
  BY <1>1 DEF Layout
<1>4. q \in 1..Len(r) /\ IsAnnotation(r[q]) /\ q + 1 <= Len(r) /\ ~IsComment(r[q + 1])
  BY <1>3, ReplacedOnce
<1>5. PICK k \in 1..Len(s) : k \notin Replaced(s) /\ q = at[k] + 1 /\ r[q] = s[k]
  BY <1>1, <1>4, LayoutKinds
<1>6. k \in Annotations(s)
  <2>1. SUFFICES ASSUME k \notin Annotations(s) PROVE FALSE
    OBVIOUS
  <2>2. Len(Extra(s, {}, k)) = 0
    BY <2>1 DEF Extra
  <2>3. at[k + 1] = q + 0
    BY <1>1, <1>5, <2>2 DEF Layout
  <2>4. at[k + 1] = q
    BY <1>4, <2>3
  <2>5. k # Len(s)
    BY <1>3, <1>4, <2>4
  <2>6. k + 1 \in 1..Len(s) /\ k < Len(s)
    BY <1>3, <2>5
  <2>7. IsComment(s[k + 1])
    BY <1>4, <1>5, <2>1, <2>6 DEF Annotations, HasCode
  <2>8. k + 1 \notin Replaced(s)
    BY <2>7, ReplacedOnce
  <2>9. r[q + 1] = s[k + 1]
    BY <1>1, <2>4, <2>6, <2>8 DEF Layout
  <2>10. QED
    BY <1>4, <2>7, <2>9
<1> DEFINE f == s[k][2]
           g == GeneratedCode(f, {})
<1>7. CodeAt(s, {}, r, at, k, f)
  BY <1>1, <1>6, LayoutCode
<1>8. /\ at[k + 1] = q + Len(g) /\ FunctionEnd(r, q) = at[k + 1]
  <2>1. EvenSql /\ f \notin {}
    BY DEF ContainedSql
  <2>2. QED
    BY <1>5, <1>7, <2>1 DEF CodeAt
<1>9. at[k + 1] <= Len(r) /\ Same(g, 0, r, q, Len(g))
  <2>1. Extra(s, {}, k) = g
    BY <1>6 DEF Extra
  <2>2. QED
    BY <1>1, <1>5, <2>1 DEF Layout
<1>10. QED
  BY <1>5, <1>8, <1>9

\* To generate anew what is generated changes nothing.
LEMMA DoneIdempotent ==
    ASSUME NEW s \in Seq(Item), Done(s)
    PROVE  Regenerate(s, {}) = s
<1> DEFINE r == Regenerate(s, {})
           n == Len(s)
           code(k) == GeneratedCode(s[k][2], {})
<1>1. PICK at : Layout(s, {}, r, at)
  BY LayoutExists
<1> HIDE DEF r
<1>2. /\ r \in Seq(Item) /\ n \in Nat /\ at \in [1..n + 1 -> Nat]
      /\ at[1] = 0 /\ at[n + 1] = Len(r)
  BY <1>1 DEF Layout
<1>3. ASSUME NEW k \in Annotations(s)
      PROVE  /\ k \in 1..n /\ k \notin Replaced(s) /\ Len(code(k)) >= 6 /\ Len(code(k)) \in Nat
             /\ FunctionEnd(s, k) = k + Len(code(k)) /\ FunctionEnd(s, k) <= n
             /\ Same(code(k), 0, s, k, Len(code(k)))
             /\ at[k + 1] = at[k] + 1 + Len(code(k))
             /\ Same(code(k), 0, r, at[k] + 1, Len(code(k)))
  <2>1. CodeAt(s, {}, r, at, k, s[k][2])
    BY <1>1, LayoutCode
  <2>2. /\ k \in 1..n /\ k \notin Replaced(s) /\ s[k][2] \in Func
        /\ at[k + 1] = at[k] + 1 + Len(code(k))
    BY <2>1 DEF CodeAt
  <2>3. Len(code(k)) >= 6 /\ Len(code(k)) \in Nat
    BY <2>2, CodeItems
  <2>4. /\ FunctionEnd(s, k) = k + Len(code(k)) /\ FunctionEnd(s, k) <= n
        /\ Same(code(k), 0, s, k, Len(code(k)))
    BY DEF Done
  <2>5. Extra(s, {}, k) = code(k)
    BY DEF Extra
  <2>6. Same(code(k), 0, r, at[k] + 1, Len(code(k)))
    BY <1>1, <2>2, <2>5 DEF Layout
  <2>7. QED
    BY <2>2, <2>3, <2>4, <2>6
<1> DEFINE T == {q \in 1..n + 1 :
                   /\ q \notin Replaced(s) => at[q] = q - 1
                   /\ \A p \in Annotations(s) :
                         q \in p + 1..FunctionEnd(s, p) => at[q] = FunctionEnd(s, p)}
<1> HIDE DEF n, code
<1>4. 1 \in T
  <2>1. 1 \in 1..n + 1 /\ 1 - 1 = 0
    BY <1>2
  <2>2. \A p \in Annotations(s) : 1 \notin p + 1..FunctionEnd(s, p)
    BY <1>3
  <2>3. QED
    BY <1>2, <2>1, <2>2
<1>5. ASSUME NEW q \in 1..n + 1, q \in T, q < n + 1
      PROVE  q + 1 \in T
  <2>1. q \in 1..n /\ q + 1 \in 1..n + 1 /\ q \in Nat /\ (q + 1) - 1 = q
    BY <1>2, <1>5
  <2>2. ASSUME NEW m \in Annotations(s), q + 1 \in m + 1..FunctionEnd(s, m)
        PROVE  m = q \/ q \in m + 1..FunctionEnd(s, m)
    <3>1. PICK e : e = FunctionEnd(s, m)
      OBVIOUS
    <3>2. m \in 1..n /\ Len(code(m)) \in Nat /\ e = m + Len(code(m))
      BY <1>3, <3>1
    <3>3. m \in Nat /\ e \in Nat
      BY <1>2, <3>2
    <3>4. q + 1 \in m + 1..e
      BY <2>2, <3>1
    <3>5. m = q \/ q \in m + 1..e
      BY <2>1, <3>3, <3>4
    <3>6. QED
      BY <3>1, <3>5
  <2>3. CASE q \in Replaced(s)
    <3>1. PICK p \in Annotations(s) : q \in p + 1..FunctionEnd(s, p)
      BY <2>3 DEF Replaced
    <3>2. at[q] = FunctionEnd(s, p) /\ at[q + 1] = at[q]
      <4>1. at[q] = FunctionEnd(s, p)
        BY <1>5, <3>1
      <4>2. at[q + 1] = at[q]
        BY <1>1, <2>1, <2>3 DEF Layout, n
      <4>3. QED
        BY <4>1, <4>2
    <3>3. q + 1 \notin Replaced(s) => at[q + 1] = q
      <4>1. SUFFICES ASSUME q + 1 \notin Replaced(s) PROVE at[q + 1] = q
        OBVIOUS
      <4>2. q + 1 \notin p + 1..FunctionEnd(s, p)
        BY <4>1 DEF Replaced
      <4>3. FunctionEnd(s, p) = q
        BY <1>3, <2>1, <3>1, <4>2
      <4>4. QED
        BY <3>2, <4>3
    <3>4. ASSUME NEW m \in Annotations(s), q + 1 \in m + 1..FunctionEnd(s, m)
          PROVE  at[q + 1] = FunctionEnd(s, m)
      <4>1. q \in m + 1..FunctionEnd(s, m)
        BY <1>3, <2>2, <2>3, <3>4
      <4>2. m = p
        BY <3>1, <4>1, ReplacedOnce
      <4>3. QED
        BY <3>2, <4>2
    <3>5. QED
      BY <2>1, <3>3, <3>4
  <2>4. CASE q \notin Replaced(s) /\ q \notin Annotations(s)
    <3>1. at[q] = q - 1
      BY <1>5, <2>4
    <3>2. at[q + 1] = at[q] + 1 + 0
      <4>1. Len(Extra(s, {}, q)) = 0
        BY <2>4 DEF Extra
      <4>2. QED
        BY <1>1, <2>1, <2>4, <4>1 DEF Layout, n
    <3>3. at[q + 1] = q
      BY <2>1, <3>1, <3>2
    <3>4. \A m \in Annotations(s) : q + 1 \notin m + 1..FunctionEnd(s, m)
      BY <2>2, <2>4 DEF Replaced
    <3>5. QED
      BY <2>1, <3>3, <3>4
  <2>5. CASE q \in Annotations(s)
    <3>1. q \notin Replaced(s) /\ at[q] = q - 1
      BY <1>3, <1>5, <2>5
    <3>2. at[q + 1] = FunctionEnd(s, q)
      <4>1. PICK l \in Nat : l = Len(code(q))
        BY <1>3, <2>5
      <4>2. at[q + 1] = at[q] + 1 + l /\ FunctionEnd(s, q) = q + l
        BY <1>3, <2>5, <4>1
      <4>3. QED
        BY <2>1, <3>1, <4>2
    <3>3. q + 1 \in Replaced(s)
      <4>1. q + 1 \in q + 1..FunctionEnd(s, q)
        BY <1>3, <2>1, <2>5
      <4>2. QED
        BY <2>5, <4>1 DEF Replaced
    <3>4. ASSUME NEW m \in Annotations(s), q + 1 \in m + 1..FunctionEnd(s, m)
          PROVE  m = q
      BY <2>2, <3>1, <3>4 DEF Replaced
    <3>5. QED
      BY <2>1, <3>2, <3>3, <3>4
  <2>6. QED
    BY <2>3, <2>4, <2>5
<1> HIDE DEF T
<1>6. 1..n + 1 \subseteq T
  <2>1. PICK a, b : a = 1 /\ b = n + 1
    OBVIOUS
  <2>2. a \in Nat /\ b \in Nat /\ a \in T /\ \A k \in a..b : k \in T /\ k < b => k + 1 \in T
    BY <1>2, <1>4, <1>5, <2>1
  <2>3. a..b \subseteq T
    BY <2>2, RangeInduction
  <2>4. QED
    BY <2>1, <2>3
<1>7. \A q \in 1..n + 1 : q \notin Replaced(s) => at[q] = q - 1
  BY <1>6 DEF T
<1>8. Len(r) = n
  <2>1. n + 1 \notin Replaced(s) /\ n + 1 \in 1..n + 1
    <3>1. n + 1 \notin 2..n
      BY <1>2
    <3>2. QED
      BY <1>2, <3>1, ReplacedOnce DEF n
  <2>2. at[n + 1] = (n + 1) - 1
    BY <1>7, <2>1
  <2>3. QED
    BY <1>2, <2>2
<1>9. ASSUME NEW q \in 1..n PROVE r[q] = s[q]
  <2>1. CASE q \notin Replaced(s)
    <3>1. q \in 1..n + 1 /\ at[q] = q - 1 /\ (q - 1) + 1 = q
      BY <1>2, <1>7, <2>1
    <3>2. r[at[q] + 1] = s[q]
      BY <1>1, <2>1 DEF Layout, n
    <3>3. QED
      BY <3>1, <3>2
  <2>2. CASE q \in Replaced(s)
    <3>1. PICK p \in Annotations(s) : q \in p + 1..FunctionEnd(s, p)
      BY <2>2 DEF Replaced
    <3>2. PICK j : j = q - p
      OBVIOUS
    <3>3. PICK g, l : g = code(p) /\ l = Len(g)
      OBVIOUS
    <3>4. /\ p \in 1..n /\ p \notin Replaced(s) /\ l \in Nat /\ FunctionEnd(s, p) = p + l
          /\ Same(g, 0, s, p, l) /\ Same(g, 0, r, at[p] + 1, l)
      BY <1>3, <3>3
    <3>5. at[p] = p - 1 /\ at[p] + 1 = p
      BY <1>2, <1>7, <3>4
    <3>6. j \in 1..l /\ q = p + j
      BY <3>1, <3>2, <3>4
    <3>7. s[p + j] = g[0 + j] /\ r[p + j] = g[0 + j]
      BY <3>4, <3>5, <3>6 DEF Same
    <3>8. QED
      BY <3>6, <3>7
  <2>3. QED
    BY <2>1, <2>2
<1>10. r = s
  BY <1>2, <1>8, <1>9, SeqEqual DEF n
<1>11. QED
  BY <1>10 DEF r

\* A function is generated once.
LEMMA OneHead ==
    ASSUME NEW s \in Seq(Item), NEW bad, NEW wrote, NEW k \in Annotations(s),
           PlainSql, EvenSql, HeadsOwned(s), Known(s, wrote), s[k][2] \notin bad
    PROVE  /\ s[k][2] \in Generated(s, bad)
           /\ \E p \in 1..Len(Regenerate(s, bad)) :
                 Places(Regenerate(s, bad), FunctionHead(s[k][2])) = {p}
<1> DEFINE r == Regenerate(s, bad)
           f == s[k][2]
<1>1. PICK at : Layout(s, bad, r, at)
  BY LayoutExists
<1>2. CodeAt(s, bad, r, at, k, f)
  BY <1>1, LayoutCode
<1>3. /\ k \in 1..Len(s) /\ f \in Func /\ s[k] = Annotation(f) /\ IsAnnotation(s[k])
      /\ at[k] + 3 \in Replaced(r) /\ r[at[k] + 3] = FunctionHead(f)
  BY <1>2 DEF CodeAt, Annotations
<1>4. at[k] + 3 \in 1..Len(r)
  <2>1. r \in Seq(Item)
    BY <1>1 DEF Layout
  <2> HIDE DEF r
  <2>2. at[k] + 3 \in 2..Len(r) /\ Len(r) \in Nat
    BY <1>3, <2>1, ReplacedOnce
  <2>3. QED
    BY <2>2
<1> HIDE DEF r, f
<1>5. ASSUME NEW q \in 1..Len(r), r[q] = FunctionHead(f)
      PROVE  q = at[k] + 3
  <2>1. PICK m \in Annotations(s) : s[m] = Annotation(f) /\ q = at[m] + 3
    BY <1>1, <1>3, <1>5, LayoutKinds
  <2>2. m = k
    BY <1>3, <2>1 DEF Known, Annotations
  <2>3. QED
    BY <2>1, <2>2
<1>6. Places(r, FunctionHead(f)) = {at[k] + 3}
  BY <1>3, <1>4, <1>5 DEF Places
<1>7. f \in Generated(s, bad)
  BY DEF Generated, f
<1>8. QED
  BY <1>4, <1>6, <1>7 DEF r, f

\* Whatever is in a file, to generate once more from what has been generated from
\* it changes nothing: the code behind each annotation is found to be just the
\* function that was generated, neither more nor less.
THEOREM RegenerateIdempotent ==
    ASSUME PlainSql, ContainedSql
    PROVE  \A s \in Seq(Item) : Regenerate(Regenerate(s, {}), {}) = Regenerate(s, {})
<1>1. TAKE s \in Seq(Item)
<1>2. PICK at : Layout(s, {}, Regenerate(s, {}), at)
  BY LayoutExists
<1>3. Regenerate(s, {}) \in Seq(Item)
  BY <1>2 DEF Layout
<1>4. Done(Regenerate(s, {}))
  BY RegenerateDone
<1>5. QED
  BY <1>3, <1>4, DoneIdempotent

\* And whatever is in a file whose generated heads all belong to annotations, the
\* heads in the new file are those of the functions that were generated.
THEOREM HeadsAreGenerated ==
    ASSUME PlainSql, EvenSql
    PROVE  \A s \in Seq(Item), bad \in SUBSET Func : HeadsOwned(s) =>
               Heads(Regenerate(s, bad)) = Generated(s, bad)
<1>1. TAKE s \in Seq(Item), bad \in SUBSET Func
<1>2. HAVE HeadsOwned(s)
<1>3. QED
  BY <1>2, RegenerateOwned
==============================================================================
