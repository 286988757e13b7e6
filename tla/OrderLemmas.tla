----------------------------- MODULE OrderLemmas -----------------------------
(***************************************************************************)
(* Least and greatest elements, ranks, places and sums: what the proofs    *)
(* need to know of the operators that choose the best of a finite set, of  *)
(* those that take the n-th of it, and of those that add up or flatten a   *)
(* sequence.  Most of these facts are inductions; they are put here as the *)
(* search for a minimal counterexample in a well-founded set, which is a   *)
(* statement about sets and takes no operator.                             *)
(***************************************************************************)
EXTENDS Integers, FiniteSetsExt, SequencesExt, FiniteSetTheorems, SequenceTheorems, WellFoundedInduction, TLAPS

-----------------------------------------------------------------------------
(* Naturals *)

\* A set of naturals has a least element.
LEMMA LeastNatural ==
  ASSUME NEW T, T \subseteq Nat, T # {}
  PROVE  \E m \in T : \A x \in T : m <= x
<1>1. PICK m \in T : \A y \in T : ~(<<y, m>> \in OpToRel(<, Nat))
  BY NatLessThanWellFounded, WFMin
<1>2. ASSUME NEW x \in T PROVE m <= x
  <2>1. ~(<<x, m>> \in OpToRel(<, Nat))
    BY <1>1
  <2>2. x \in Nat /\ m \in Nat
    OBVIOUS
  <2>3. ~(x < m)
    BY <2>1, <2>2 DEF OpToRel
  <2> QED BY <2>2, <2>3
<1> QED BY <1>1, <1>2

\* A set of naturals that has a bound has a greatest element.
LEMMA GreatestNatural ==
  ASSUME NEW T, T \subseteq Nat, T # {}, NEW b \in Nat, \A x \in T : x <= b
  PROVE  \E m \in T : \A x \in T : x <= m
<1> DEFINE D == {d \in Nat : b - d \in T}
<1>1. \A x \in T : b - x \in D
  <2> TAKE x \in T
  <2>1. x \in Nat /\ b - x \in Nat /\ b - (b - x) = x
    OBVIOUS
  <2> QED BY <2>1
<1>2. D \subseteq Nat /\ D # {}
  BY <1>1
<1>3. PICK d \in D : \A x \in D : d <= x
  BY <1>2, LeastNatural
<1>4. b - d \in T /\ \A x \in T : x <= b - d
  <2>1. ASSUME NEW x \in T PROVE x <= b - d
    <3>1. d <= b - x
      BY <1>1, <1>3
    <3> QED BY <3>1, <1>2
  <2> QED BY <2>1
<1> QED BY <1>4

\* A set that has 0, and with each number below n the next one, has them all.
LEMMA CountingUp ==
  ASSUME NEW T, NEW n \in Nat, 0 \in T, \A i \in 0..(n - 1) : i \in T => i + 1 \in T
  PROVE  \A i \in 0..n : i \in T
<1> SUFFICES ASSUME ~\A i \in 0..n : i \in T PROVE FALSE
  OBVIOUS
<1> DEFINE C == {i \in 0..n : i \notin T}
<1>1. C \subseteq Nat /\ C # {}
  OBVIOUS
<1>2. PICK m \in C : \A x \in C : m <= x
  BY <1>1, LeastNatural
<1>3. m \in 0..n /\ m # 0 /\ m \notin T
  OBVIOUS
<1>4. m - 1 \in 0..(n - 1) /\ m - 1 \notin C
  BY <1>2, <1>3
<1>5. m - 1 \in T
  BY <1>4
<1>6. (m - 1) + 1 = m
  BY <1>3
<1> QED BY <1>3, <1>4, <1>5, <1>6

\* Numbers that grow from each to the next grow from each to all the later ones.
LEMMA Grows ==
  ASSUME NEW s, NEW n \in Nat, \A i \in 1..n : s[i] \in Int,
         \A i \in 1..(n - 1) : s[i] < s[i + 1]
  PROVE  \A i, k \in 1..n : i < k => s[i] < s[k]
<1> SUFFICES ASSUME NEW i \in 1..n PROVE \A k \in 1..n : i < k => s[i] < s[k]
  OBVIOUS
<1> DEFINE D == {d \in 0..(n - i) : d = 0 \/ s[i] < s[i + d]}
<1>1. 0 \in D
  OBVIOUS
<1>2. ASSUME NEW d \in 0..((n - i) - 1), d \in D
      PROVE  d + 1 \in D
  <2>1. s[i + d] < s[(i + d) + 1] /\ s[i] \in Int /\ s[i + d] \in Int /\ s[(i + d) + 1] \in Int
    OBVIOUS
  <2>2. (i + d) + 1 = i + (d + 1) /\ d + 1 \in 0..(n - i)
    OBVIOUS
  <2>3. s[i] < s[i + (d + 1)]
    <3>1. CASE d = 0 BY <2>1, <2>2, <3>1
    <3>2. CASE d # 0 BY <1>2, <2>1, <2>2, <3>2
    <3> QED BY <3>1, <3>2
  <2> QED BY <2>2, <2>3
<1>3. \A d \in 0..(n - i) : d \in D
  <2> HIDE DEF D
  <2> QED BY <1>1, <1>2, CountingUp
<1>4. ASSUME NEW k \in 1..n, i < k PROVE s[i] < s[k]
  <2>1. k - i \in 0..(n - i) /\ k - i # 0 /\ i + (k - i) = k
    BY <1>4
  <2> QED BY <1>3, <2>1
<1> QED BY <1>4

\* So do the numbers of rows, if each row grows and each begins above the one before.
LEMMA RowsGrow ==
  ASSUME NEW n \in Nat, NEW l, NEW a,
         \A j \in 1..n : l[j] \in Nat \ {0},
         \A j \in 1..n : \A q \in 1..l[j] : a[j][q] \in Int,
         \A j \in 1..n : \A q \in 1..(l[j] - 1) : a[j][q] < a[j][q + 1],
         \A j \in 1..(n - 1) : a[j][l[j]] < a[j + 1][1],
         NEW i \in 1..n, NEW k \in 1..n, NEW m \in 1..l[i], NEW r \in 1..l[k],
         i < k \/ (i = k /\ m < r)
  PROVE  a[i][m] < a[k][r]
<1>1. \A j \in 1..n : \A q, h \in 1..l[j] : q < h => a[j][q] < a[j][h]
  <2> SUFFICES ASSUME NEW j \in 1..n PROVE \A q, h \in 1..l[j] : q < h => a[j][q] < a[j][h]
    OBVIOUS
  <2> DEFINE s == a[j]
             c == l[j]
  <2>1. /\ c \in Nat /\ \A q \in 1..c : s[q] \in Int
        /\ \A q \in 1..(c - 1) : s[q] < s[q + 1]
    OBVIOUS
  <2> HIDE DEF s, c
  <2>2. \A q, h \in 1..c : q < h => s[q] < s[h]
    BY <2>1, Grows
  <2> QED BY <2>2 DEF s, c
<1> DEFINE first == [j \in 1..n |-> a[j][1]]
           last == [j \in 1..n |-> a[j][l[j]]]
<1>2. \A j \in 1..n : /\ first[j] \in Int /\ last[j] \in Int /\ first[j] <= last[j]
                       /\ \A q \in 1..l[j] : a[j][q] <= last[j] /\ first[j] <= a[j][q]
  <2> SUFFICES ASSUME NEW j \in 1..n
               PROVE  /\ first[j] \in Int /\ last[j] \in Int /\ first[j] <= last[j]
                      /\ \A q \in 1..l[j] : a[j][q] <= last[j] /\ first[j] <= a[j][q]
    OBVIOUS
  <2>1. l[j] \in 1..l[j] /\ 1 \in 1..l[j] /\ l[j] \in Nat
    OBVIOUS
  <2>2. first[j] = a[j][1] /\ last[j] = a[j][l[j]] /\ first[j] \in Int /\ last[j] \in Int
    BY <2>1
  <2>3. \A q \in 1..l[j] : a[j][q] <= a[j][l[j]] /\ a[j][1] <= a[j][q]
    <3> SUFFICES ASSUME NEW q \in 1..l[j] PROVE a[j][q] <= a[j][l[j]] /\ a[j][1] <= a[j][q]
      OBVIOUS
    <3>1. a[j][q] \in Int /\ a[j][l[j]] \in Int /\ a[j][1] \in Int
      BY <2>1
    <3>2. q < l[j] => a[j][q] < a[j][l[j]]
      BY <1>1, <2>1
    <3>3. 1 < q => a[j][1] < a[j][q]
      BY <1>1, <2>1
    <3>4. (q < l[j] \/ q = l[j]) /\ (1 < q \/ q = 1)
      <4> DEFINE c == l[j]
      <4>1. c \in Nat /\ q \in 1..c
        BY <2>1
      <4> HIDE DEF c
      <4>2. (q < c \/ q = c) /\ (1 < q \/ q = 1)
        BY <4>1
      <4> QED BY <4>2 DEF c
    <3> QED BY <3>1, <3>2, <3>3, <3>4
  <2> QED BY <2>1, <2>2, <2>3
<1>3. \A j \in 1..(n - 1) : last[j] < first[j + 1]
  OBVIOUS
<1> HIDE DEF first, last
<1>4. CASE i < k
  <2>1. \A j \in 1..(n - 1) : first[j] < first[j + 1]
    <3> SUFFICES ASSUME NEW j \in 1..(n - 1) PROVE first[j] < first[j + 1]
      OBVIOUS
    <3>1. j \in 1..n /\ j + 1 \in 1..n
      OBVIOUS
    <3> QED BY <1>2, <1>3, <3>1
  <2>2. \A j \in 1..n : first[j] \in Int
    BY <1>2
  <2>3. \A j, h \in 1..n : j < h => first[j] < first[h]
    BY <2>1, <2>2, Grows
  <2>4. i \in 1..(n - 1) /\ i + 1 \in 1..n
    BY <1>4
  <2>5. first[i + 1] <= first[k]
    <3>1. i + 1 < k \/ i + 1 = k
      BY <1>4
    <3>2. first[i + 1] \in Int /\ first[k] \in Int
      BY <1>2, <2>4
    <3> QED BY <2>3, <2>4, <3>1, <3>2
  <2>6. /\ a[i][m] \in Int /\ a[k][r] \in Int /\ a[i][m] <= last[i] /\ first[k] <= a[k][r]
        /\ last[i] \in Int /\ first[k] \in Int /\ first[i + 1] \in Int /\ last[i] < first[i + 1]
    BY <1>2, <1>3, <2>4
  <2> QED BY <2>5, <2>6
<1>5. CASE i = k /\ m < r
  BY <1>1, <1>5
<1> QED BY <1>4, <1>5

-----------------------------------------------------------------------------
(* Orders on finite sets *)

\* R orders T strictly and totally.
Orders(R, T) ==
  /\ \A x, y \in T : x # y => <<x, y>> \in R \/ <<y, x>> \in R
  /\ \A x, y \in T : <<x, y>> \in R => <<y, x>> \notin R
  /\ \A x, y, z \in T : <<x, y>> \in R /\ <<y, z>> \in R => <<x, z>> \in R

\* A finite set has a first element in such an order.
LEMMA FirstOfFinite ==
  ASSUME NEW T, IsFiniteSet(T), T # {}, NEW R, Orders(R, T)
  PROVE  \E m \in T : \A x \in T \ {m} : <<m, x>> \in R
<1> DEFINE HasFirst(U) == \E m \in U : \A x \in U \ {m} : <<m, x>> \in R
           Bad == {U \in SUBSET T : U # {} /\ ~HasFirst(U)}
<1> SUFFICES ASSUME Bad # {} PROVE FALSE
  BY DEF Bad
<1>1. Bad \subseteq FiniteSubsetsOf(T)
  BY FS_FiniteSubsetsOfFinite
<1>2. PICK U \in Bad : \A V \in Bad : ~(<<V, U>> \in StrictSubsetOrdering(T))
  <2>1. IsWellFoundedOn(StrictSubsetOrdering(T), FiniteSubsetsOf(T))
    BY FS_StrictSubsetOrderingWellFounded
  <2> HIDE DEF Bad
  <2> QED BY <1>1, <2>1, WFMin
<1>3. PICK x \in U : TRUE
  OBVIOUS
<1>4. U \ {x} \notin Bad
  BY <1>2, <1>3 DEF StrictSubsetOrdering
<1>5. CASE U \ {x} = {}
  BY <1>3, <1>5
<1>6. CASE U \ {x} # {}
  <2>1. PICK m \in U \ {x} : \A y \in (U \ {x}) \ {m} : <<m, y>> \in R
    BY <1>4, <1>6
  <2>2. m \in T /\ x \in T /\ m # x /\ U \subseteq T
    BY <1>3, <2>1
  <2>3. CASE <<m, x>> \in R
    <3>1. \A y \in U \ {m} : <<m, y>> \in R
      BY <2>1, <2>3
    <3> QED BY <3>1, <2>1
  <2>4. CASE <<x, m>> \in R
    <3>1. \A y \in U \ {x} : <<x, y>> \in R
      BY <2>1, <2>2, <2>4 DEF Orders
    <3> QED BY <3>1, <1>3
  <2> QED BY <2>2, <2>3, <2>4 DEF Orders
<1> QED BY <1>5, <1>6

\* The elements of S that come before x.
Ahead(R, S, x) == {y \in S : <<y, x>> \in R}

\* Nobody of a finite set is as far ahead as who comes after it.
LEMMA RanksIncrease ==
  ASSUME NEW S, IsFiniteSet(S), NEW R, Orders(R, S),
         NEW x \in S, NEW y \in S, <<x, y>> \in R
  PROVE  Cardinality(Ahead(R, S, x)) < Cardinality(Ahead(R, S, y))
<1>1. Ahead(R, S, x) \subseteq Ahead(R, S, y)
  BY DEF Ahead, Orders
<1>2. x \in Ahead(R, S, y) /\ x \notin Ahead(R, S, x)
  BY DEF Ahead, Orders
<1>3. IsFiniteSet(Ahead(R, S, y)) /\ IsFiniteSet(Ahead(R, S, x))
  BY FS_Subset DEF Ahead
<1>4. /\ Cardinality(Ahead(R, S, x)) <= Cardinality(Ahead(R, S, y))
      /\ Cardinality(Ahead(R, S, y)) = Cardinality(Ahead(R, S, x)) =>
           Ahead(R, S, y) = Ahead(R, S, x)
  BY <1>1, <1>3, FS_Subset
<1>5. Cardinality(Ahead(R, S, x)) \in Nat /\ Cardinality(Ahead(R, S, y)) \in Nat
  BY <1>3, FS_CardinalityType
<1> QED BY <1>2, <1>4, <1>5

\* Those with fewer than n ahead of them are no more than n.
LEMMA RanksAreFew ==
  ASSUME NEW S, IsFiniteSet(S), NEW R, Orders(R, S), NEW n \in Nat
  PROVE  LET B == {x \in S : Cardinality(Ahead(R, S, x)) < n}
         IN  IsFiniteSet(B) /\ Cardinality(B) <= n
<1> DEFINE B == {x \in S : Cardinality(Ahead(R, S, x)) < n}
           rank == [x \in B |-> Cardinality(Ahead(R, S, x))]
<1>1. \A x \in B : rank[x] \in 0..(n - 1)
  <2> TAKE x \in B
  <2>1. IsFiniteSet(Ahead(R, S, x))
    BY FS_Subset DEF Ahead
  <2>2. Cardinality(Ahead(R, S, x)) \in Nat
    BY <2>1, FS_CardinalityType
  <2> QED BY <2>2
<1>2. ASSUME NEW x \in B, NEW y \in B, rank[x] = rank[y] PROVE x = y
  <2>1. CASE <<x, y>> \in R
    <3>1. rank[x] < rank[y]
      BY <2>1, RanksIncrease
    <3> QED BY <3>1, <1>1, <1>2
  <2>2. CASE <<y, x>> \in R
    <3>1. rank[y] < rank[x]
      BY <2>2, RanksIncrease
    <3> QED BY <3>1, <1>1, <1>2
  <2> QED BY <2>1, <2>2 DEF Orders
<1>3. rank \in Injection(B, 0..(n - 1))
  BY <1>1, <1>2 DEF Injection, IsInjective
<1>4. IsFiniteSet(0..(n - 1)) /\ Cardinality(0..(n - 1)) = n
  <2>1. /\ IsFiniteSet(0..(n - 1))
        /\ Cardinality(0..(n - 1)) = IF 0 > n - 1 THEN 0 ELSE (n - 1) - 0 + 1
    BY FS_Interval
  <2> QED BY <2>1
<1>5. IsFiniteSet(B) /\ Cardinality(B) <= Cardinality(0..(n - 1))
  BY <1>3, <1>4, FS_Injection
<1> QED BY <1>4, <1>5

\* A union has no more elements than both together.
LEMMA UnionIsNoMore ==
  ASSUME NEW S, NEW T, IsFiniteSet(S), IsFiniteSet(T)
  PROVE  Cardinality(S \cup T) <= Cardinality(S) + Cardinality(T)
<1>1. /\ Cardinality(S \cup T) = Cardinality(S) + Cardinality(T) - Cardinality(S \cap T)
      /\ IsFiniteSet(S \cup T) /\ IsFiniteSet(S \cap T)
  BY FS_Union, FS_Subset
<1>2. /\ Cardinality(S) \in Nat /\ Cardinality(T) \in Nat
      /\ Cardinality(S \cup T) \in Nat /\ Cardinality(S \cap T) \in Nat
  BY <1>1, FS_CardinalityType
<1> QED BY <1>1, <1>2

-----------------------------------------------------------------------------
(* Sequences *)

\* The m elements of a sequence that follow its first k, and all that do.
Window(c, k, m) == [i \in 1..m |-> c[k + i]]
Rest(s, k) == Window(s, k, Len(s) - k)

\* The tail of a window is the next one.
LEMMA ShiftedTail ==
  ASSUME NEW m \in Nat \ {0}, NEW k \in Int, NEW c
  PROVE  /\ Head(Window(c, k, m)) = c[k + 1]
         /\ Tail(Window(c, k, m)) = Window(c, k + 1, m - 1)
         /\ Len(Window(c, k, m)) = m
<1> DEFINE C == {c[k + i] : i \in 1..m}
           s == Window(c, k, m)
<1>1. s \in [1..m -> C] /\ \A i \in 1..m : s[i] = c[k + i]
  BY DEF Window
<1> HIDE DEF C, s
<1>2. s \in Seq(C) /\ Len(s) = m
  <2>1. s \in Seq(C)
    BY <1>1, SeqDef
  <2>2. DOMAIN s = 1..m /\ DOMAIN s = 1..Len(s) /\ Len(s) \in Nat
    BY <1>1, <2>1, LenProperties
  <2>3. 1..m = 1..Len(s) => m = Len(s)
    BY <2>2
  <2> QED BY <2>1, <2>2, <2>3
<1>3. /\ Tail(s) \in Seq(C) /\ Len(Tail(s)) = m - 1 /\ Head(s) = s[1]
      /\ \A i \in 1..(m - 1) : Tail(s)[i] = s[i + 1]
  <2>1. s # <<>>
    BY <1>2
  <2> HIDE <1>1
  <2>2. Head(s) = s[1]
    BY <1>2, <2>1
  <2> QED BY <1>2, <2>1, <2>2, HeadTailProperties
<1>4. \A i \in 1..(m - 1) : Tail(s)[i] = c[(k + 1) + i]
  <2> TAKE i \in 1..(m - 1)
  <2>1. i + 1 \in 1..m /\ k + (i + 1) = (k + 1) + i
    OBVIOUS
  <2>2. s[i + 1] = c[k + (i + 1)]
    BY <1>1, <2>1
  <2> QED BY <1>3, <2>1, <2>2
<1>5. Tail(s) = [i \in 1..(m - 1) |-> c[(k + 1) + i]]
  <2> DEFINE t == Tail(s)
  <2>1. t \in Seq(C) /\ Len(t) = m - 1 /\ \A i \in 1..(m - 1) : t[i] = c[(k + 1) + i]
    BY <1>3, <1>4
  <2> HIDE DEF t
  <2>2. t \in [1..(m - 1) -> C]
    BY <2>1, LenProperties
  <2>3. t = [i \in 1..(m - 1) |-> c[(k + 1) + i]]
    BY <2>1, <2>2
  <2> QED BY <2>3 DEF t
<1>6. Head(s) = c[k + 1]
  BY <1>1, <1>3
<1>7. Tail(s) = Window(c, k + 1, m - 1)
  BY <1>5 DEF Window
<1> QED BY <1>2, <1>6, <1>7 DEF s

\* The rest of a sequence is taken from its head.
LEMMA RestTail ==
  ASSUME NEW s, Len(s) \in Nat, NEW k \in 0..(Len(s) - 1)
  PROVE  /\ Head(Rest(s, k)) = s[k + 1] /\ Tail(Rest(s, k)) = Rest(s, k + 1)
         /\ Len(Rest(s, k)) = Len(s) - k
<1>1. Len(s) - k \in Nat \ {0} /\ k \in Int /\ (Len(s) - k) - 1 = Len(s) - (k + 1)
  OBVIOUS
<1> QED BY <1>1, ShiftedTail DEF Rest

\* A sequence is the rest of itself.
LEMMA RestAll ==
  ASSUME NEW s, NEW n \in Nat, Len(s) = n, s = [i \in 1..n |-> s[i]]
  PROVE  Rest(s, 0) = s
<1>1. Rest(s, 0) = [i \in 1..n |-> s[i]]
  BY DEF Rest, Window
<1> QED BY <1>1

-----------------------------------------------------------------------------
(* Sums over finite sets *)

\* The sum of w over S, as the models write it.
SumOf(w, S) == MapThenSumSet(LAMBDA x : w[x], S)

\* The element of a set that is added first; g adds up the subsets of S.
Pick(T) == CHOOSE x \in T : TRUE
Adds(g, w, S) ==
  g = [T \in SUBSET S |-> IF T = {} THEN 0 ELSE w[Pick(T)] + g[T \ {Pick(T)}]]

\* There is a function that does: by size, from the empty set on.
LEMMA AddsExists ==
  ASSUME NEW S, IsFiniteSet(S), NEW w
  PROVE  \E g : Adds(g, w, S)
<1> DEFINE N == Cardinality(S)
           Up(g, n) == \A T \in SUBSET S : Cardinality(T) <= n =>
                         g[T] = IF T = {} THEN 0 ELSE w[Pick(T)] + g[T \ {Pick(T)}]
           D == {n \in Nat : \E g : Up(g, n)}
<1>1. ASSUME NEW T \in SUBSET S PROVE IsFiniteSet(T) /\ Cardinality(T) \in 0..N
  <2>1. IsFiniteSet(T) /\ Cardinality(T) <= N
    BY FS_Subset
  <2> QED BY <2>1, FS_CardinalityType
<1>2. ASSUME NEW T \in SUBSET S, T # {}
      PROVE  T \ {Pick(T)} \in SUBSET S /\ Cardinality(T \ {Pick(T)}) = Cardinality(T) - 1
  <2>1. Pick(T) \in T
    BY <1>2 DEF Pick
  <2> QED BY <1>1, <2>1, FS_RemoveElement
<1>3. N \in Nat
  BY FS_CardinalityType
<1> HIDE DEF N
<1>4. 0 \in D
  <2> DEFINE g == [T \in SUBSET S |-> 0]
  <2>1. \A T \in SUBSET S : Cardinality(T) <= 0 => T = {}
    BY <1>1, FS_EmptySet
  <2>2. Up(g, 0)
    BY <2>1
  <2> QED BY <2>2
<1>5. ASSUME NEW n \in 0..(N - 1), n \in D PROVE n + 1 \in D
  <2>1. PICK g : Up(g, n)
    BY <1>5
  <2> DEFINE h == [T \in SUBSET S |-> IF Cardinality(T) <= n THEN g[T]
                                      ELSE w[Pick(T)] + g[T \ {Pick(T)}]]
  <2>2. ASSUME NEW T \in SUBSET S, Cardinality(T) <= n + 1
        PROVE  h[T] = IF T = {} THEN 0 ELSE w[Pick(T)] + h[T \ {Pick(T)}]
    <3>1. CASE T = {}
      <4>1. Cardinality(T) <= n
        <5>1. Cardinality({}) = 0
          BY FS_EmptySet
        <5> QED BY <3>1, <5>1
      <4> QED BY <2>1, <3>1, <4>1
    <3>2. CASE T # {}
      <4> DEFINE U == T \ {Pick(T)}
      <4>1. U \in SUBSET S /\ Cardinality(U) = Cardinality(T) - 1 /\ Cardinality(T) \in Nat
        BY <1>1, <1>2, <3>2
      <4>2. h[U] = g[U]
        BY <2>2, <4>1
      <4>3. h[T] = w[Pick(T)] + g[U]
        BY <2>1, <3>2
      <4> QED BY <3>2, <4>2, <4>3
    <3> QED BY <3>1, <3>2
  <2>3. Up(h, n + 1)
    BY <2>2
  <2> HIDE DEF h, Up
  <2> QED BY <2>3
<1>6. N \in D
  <2> HIDE DEF D
  <2>1. \A i \in 0..N : i \in D
    BY <1>3, <1>4, <1>5, CountingUp
  <2> QED BY <1>3, <2>1
<1>7. PICK g : Up(g, N)
  BY <1>6
<1> DEFINE h == [T \in SUBSET S |-> g[T]]
<1>8. ASSUME NEW T \in SUBSET S
      PROVE  h[T] = IF T = {} THEN 0 ELSE w[Pick(T)] + h[T \ {Pick(T)}]
  <2>1. Cardinality(T) <= N
    BY <1>1
  <2>2. g[T] = IF T = {} THEN 0 ELSE w[Pick(T)] + g[T \ {Pick(T)}]
    BY <1>7, <2>1
  <2>3. T # {} => h[T \ {Pick(T)}] = g[T \ {Pick(T)}]
    BY <1>2
  <2> QED BY <2>2, <2>3
<1>9. h = [T \in SUBSET S |-> h[T]]
  OBVIOUS
<1> HIDE DEF h
<1> QED BY <1>8, <1>9 DEF Adds

\* Two such functions agree where both are defined.
LEMMA AddsUnique ==
  ASSUME NEW S, IsFiniteSet(S), NEW T \in SUBSET S, NEW w, NEW g, NEW h, Adds(g, w, S), Adds(h, w, T)
  PROVE  \A U \in SUBSET T : g[U] = h[U]
<1> DEFINE Bad == {U \in SUBSET T : g[U] # h[U]}
<1> SUFFICES ASSUME Bad # {} PROVE FALSE
  OBVIOUS
<1>1. IsFiniteSet(T)
  BY FS_Subset
<1>2. Bad \subseteq FiniteSubsetsOf(T)
  BY <1>1, FS_FiniteSubsetsOfFinite
<1>3. PICK U \in Bad : \A V \in Bad : ~(<<V, U>> \in StrictSubsetOrdering(T))
  <2>1. IsWellFoundedOn(StrictSubsetOrdering(T), FiniteSubsetsOf(T))
    BY <1>1, FS_StrictSubsetOrderingWellFounded
  <2> HIDE DEF Bad
  <2> QED BY <1>2, <2>1, WFMin
<1>4. U # {}
  BY DEF Adds
<1> DEFINE V == U \ {Pick(U)}
<1>5. V \in SUBSET T /\ V \in SUBSET S /\ V # U
  BY <1>4 DEF Pick
<1>6. g[V] = h[V]
  BY <1>3, <1>5 DEF StrictSubsetOrdering
<1>7. g[U] = w[Pick(U)] + g[V] /\ h[U] = w[Pick(U)] + h[V]
  BY <1>4 DEF Adds
<1> QED BY <1>6, <1>7

\* The sum of nothing, and that of the others and one more.
LEMMA SumFirst ==
  ASSUME NEW S, IsFiniteSet(S), NEW w
  PROVE  SumOf(w, S) = IF S = {} THEN 0 ELSE w[Pick(S)] + SumOf(w, S \ {Pick(S)})
<1> DEFINE It(T) == CHOOSE g : Adds(g, w, T)
<1>1. ASSUME NEW T \in SUBSET S PROVE Adds(It(T), w, T) /\ SumOf(w, T) = It(T)[T]
  <2>1. IsFiniteSet(T)
    BY FS_Subset
  <2>2. Adds(It(T), w, T)
    BY <2>1, AddsExists
  <2>3. SumOf(w, T) = It(T)[T]
    BY DEF SumOf, MapThenSumSet, MapThenFoldSet, Adds, Pick
  <2> QED BY <2>2, <2>3
<1> HIDE DEF It
<1>2. CASE S = {}
  BY <1>1, <1>2 DEF Adds
<1>3. CASE S # {}
  <2> DEFINE V == S \ {Pick(S)}
  <2>1. V \in SUBSET S
    OBVIOUS
  <2>2. It(S)[V] = It(V)[V]
    BY <1>1, <2>1, AddsUnique
  <2>3. It(S)[S] = w[Pick(S)] + It(S)[V]
    BY <1>1, <1>3 DEF Adds
  <2> QED BY <1>1, <1>3, <2>1, <2>2, <2>3
<1> QED BY <1>2, <1>3

\* In whatever order the elements are added.
LEMMA SumStep ==
  ASSUME NEW S, IsFiniteSet(S), NEW w, \A y \in S : w[y] \in Int, NEW x \in S
  PROVE  SumOf(w, S) \in Int /\ SumOf(w, S \ {x}) \in Int
         /\ SumOf(w, S) = w[x] + SumOf(w, S \ {x})
<1> DEFINE Good(U) == /\ SumOf(w, U) \in Int
                      /\ \A u \in U : SumOf(w, U) = w[u] + SumOf(w, U \ {u})
           Bad == {U \in SUBSET S : ~Good(U)}
<1>1. Bad = {}
  <2> SUFFICES ASSUME Bad # {} PROVE FALSE
    OBVIOUS
  <2>1. Bad \subseteq FiniteSubsetsOf(S)
    BY FS_FiniteSubsetsOfFinite
  <2>2. PICK U \in Bad : \A V \in Bad : ~(<<V, U>> \in StrictSubsetOrdering(S))
    <3>1. IsWellFoundedOn(StrictSubsetOrdering(S), FiniteSubsetsOf(S))
      BY FS_StrictSubsetOrderingWellFounded
    <3> HIDE DEF Bad
    <3> QED BY <2>1, <3>1, WFMin
  <2>3. ASSUME NEW V \in SUBSET S, V \subseteq U, V # U PROVE Good(V)
    BY <2>2, <2>3 DEF StrictSubsetOrdering
  <2>4. U \in SUBSET S /\ IsFiniteSet(U) /\ ~Good(U)
    BY FS_Subset
  <2> HIDE DEF Bad
  <2>5. CASE U = {}
    <3>1. SumOf(w, U) = 0
      BY <2>4, <2>5, SumFirst
    <3> QED BY <2>4, <2>5, <3>1
  <2>6. CASE U # {}
    <3> DEFINE p == Pick(U)
    <3>1. p \in U /\ p \in S
      BY <2>4, <2>6 DEF Pick
    <3>2. SumOf(w, U) = w[p] + SumOf(w, U \ {p})
      BY <2>4, <2>6, SumFirst
    <3> HIDE DEF p
    <3>3. Good(U \ {p}) /\ w[p] \in Int
      BY <2>3, <2>4, <3>1
    <3>4. ASSUME NEW u \in U PROVE SumOf(w, U) = w[u] + SumOf(w, U \ {u})
      <4>1. CASE u = p
        BY <3>2, <4>1
      <4>2. CASE u # p
        <5> DEFINE both == (U \ {p}) \ {u}
        <5>1. both = (U \ {u}) \ {p} /\ u \in U \ {p} /\ p \in U \ {u}
          BY <3>1, <4>2
        <5>2. Good(U \ {u}) /\ Good(both) /\ w[u] \in Int
          BY <2>3, <2>4, <3>1
        <5>3. SumOf(w, U \ {p}) = w[u] + SumOf(w, both)
          BY <3>3, <5>1
        <5>4. SumOf(w, U \ {u}) = w[p] + SumOf(w, both)
          BY <5>1, <5>2
        <5> HIDE DEF both
        <5> QED BY <3>2, <3>3, <5>2, <5>3, <5>4
      <4> QED BY <4>1, <4>2
    <3>5. SumOf(w, U) \in Int
      BY <3>2, <3>3
    <3> QED BY <2>4, <3>4, <3>5
  <2> QED BY <2>5, <2>6
<1>2. Good(S) /\ Good(S \ {x})
  BY <1>1
<1> QED BY <1>2

\* Only what is added counts.
LEMMA SumSame ==
  ASSUME NEW S, IsFiniteSet(S), NEW v, NEW w, \A x \in S : v[x] = w[x]
  PROVE  SumOf(v, S) = SumOf(w, S)
<1> DEFINE Bad == {U \in SUBSET S : SumOf(v, U) # SumOf(w, U)}
<1> SUFFICES ASSUME Bad # {} PROVE FALSE
  OBVIOUS
<1>1. Bad \subseteq FiniteSubsetsOf(S)
  BY FS_FiniteSubsetsOfFinite
<1>2. PICK U \in Bad : \A V \in Bad : ~(<<V, U>> \in StrictSubsetOrdering(S))
  <2>1. IsWellFoundedOn(StrictSubsetOrdering(S), FiniteSubsetsOf(S))
    BY FS_StrictSubsetOrderingWellFounded
  <2> HIDE DEF Bad
  <2> QED BY <1>1, <2>1, WFMin
<1>3. U \in SUBSET S /\ IsFiniteSet(U)
  BY FS_Subset
<1>4. U # {}
  BY <1>3, SumFirst
<1>5. Pick(U) \in U /\ U \ {Pick(U)} # U
  BY <1>4 DEF Pick
<1>6. SumOf(v, U \ {Pick(U)}) = SumOf(w, U \ {Pick(U)})
  BY <1>2, <1>3, <1>5 DEF StrictSubsetOrdering
<1>7. /\ SumOf(v, U) = v[Pick(U)] + SumOf(v, U \ {Pick(U)})
      /\ SumOf(w, U) = w[Pick(U)] + SumOf(w, U \ {Pick(U)})
  BY <1>3, <1>4, SumFirst
<1> QED BY <1>3, <1>5, <1>6, <1>7

\* One more for one element is one more in the sum, if the element is counted.
LEMMA SumOneMore ==
  ASSUME NEW S, IsFiniteSet(S), NEW v, NEW w, NEW x, \A y \in S : w[y] \in Int,
         \A y \in S \ {x} : v[y] = w[y], v[x] = w[x] + 1
  PROVE  SumOf(v, S) = IF x \in S THEN SumOf(w, S) + 1 ELSE SumOf(w, S)
<1>1. CASE x \notin S
  <2>1. \A y \in S : v[y] = w[y]
    BY <1>1
  <2> QED BY <1>1, <2>1, SumSame
<1>2. CASE x \in S
  <2>1. SumOf(v, S \ {x}) = SumOf(w, S \ {x})
    <3>1. IsFiniteSet(S \ {x})
      BY FS_RemoveElement
    <3> QED BY <3>1, SumSame
  <2>2. SumOf(w, S \ {x}) \in Int /\ SumOf(w, S) = w[x] + SumOf(w, S \ {x})
    BY <1>2, SumStep
  <2>3. \A y \in S : v[y] \in Int
    BY <1>2
  <2>4. SumOf(v, S) = v[x] + SumOf(v, S \ {x})
    BY <1>2, <2>3, SumStep
  <2> QED BY <1>2, <2>1, <2>2, <2>4
<1> QED BY <1>1, <1>2

\* Who brings nothing does not change the sum.
LEMMA SumNewcomer ==
  ASSUME NEW S, IsFiniteSet(S), NEW w, \A y \in S : w[y] \in Int, NEW x, w[x] = 0
  PROVE  SumOf(w, S \cup {x}) = SumOf(w, S)
<1>1. CASE x \in S
  <2>1. S \cup {x} = S
    BY <1>1
  <2> QED BY <2>1
<1>2. CASE x \notin S
  <2> DEFINE T == S \cup {x}
  <2>1. IsFiniteSet(T) /\ x \in T /\ T \ {x} = S /\ \A y \in T : w[y] \in Int
    BY <1>2, FS_AddElement
  <2> HIDE DEF T
  <2>2. SumOf(w, S) \in Int /\ SumOf(w, T) = w[x] + SumOf(w, S)
    BY <2>1, SumStep
  <2> QED BY <2>2 DEF T
<1> QED BY <1>1, <1>2

\* Nothing adds up to nothing.
LEMMA SumOfNothing ==
  ASSUME NEW S, IsFiniteSet(S), NEW w, \A y \in S : w[y] = 0
  PROVE  SumOf(w, S) = 0
<1> DEFINE Bad == {U \in SUBSET S : SumOf(w, U) # 0}
<1> SUFFICES ASSUME Bad # {} PROVE FALSE
  OBVIOUS
<1>1. Bad \subseteq FiniteSubsetsOf(S)
  BY FS_FiniteSubsetsOfFinite
<1>2. PICK U \in Bad : \A V \in Bad : ~(<<V, U>> \in StrictSubsetOrdering(S))
  <2>1. IsWellFoundedOn(StrictSubsetOrdering(S), FiniteSubsetsOf(S))
    BY FS_StrictSubsetOrderingWellFounded
  <2> HIDE DEF Bad
  <2> QED BY <1>1, <2>1, WFMin
<1>3. U \in SUBSET S /\ IsFiniteSet(U)
  BY FS_Subset
<1>4. U # {}
  BY <1>3, SumFirst
<1>5. Pick(U) \in U /\ U \ {Pick(U)} # U
  BY <1>4 DEF Pick
<1>6. SumOf(w, U \ {Pick(U)}) = 0
  BY <1>2, <1>3, <1>5 DEF StrictSubsetOrdering
<1>7. SumOf(w, U) = w[Pick(U)] + SumOf(w, U \ {Pick(U)})
  BY <1>3, <1>4, SumFirst
<1> QED BY <1>3, <1>5, <1>6, <1>7

\* Naturals add up to a natural.
LEMMA SumIsNatural ==
  ASSUME NEW S, IsFiniteSet(S), NEW w, \A y \in S : w[y] \in Nat
  PROVE  SumOf(w, S) \in Nat
<1> DEFINE Bad == {U \in SUBSET S : SumOf(w, U) \notin Nat}
<1> SUFFICES ASSUME Bad # {} PROVE FALSE
  OBVIOUS
<1>1. Bad \subseteq FiniteSubsetsOf(S)
  BY FS_FiniteSubsetsOfFinite
<1>2. PICK U \in Bad : \A V \in Bad : ~(<<V, U>> \in StrictSubsetOrdering(S))
  <2>1. IsWellFoundedOn(StrictSubsetOrdering(S), FiniteSubsetsOf(S))
    BY FS_StrictSubsetOrderingWellFounded
  <2> HIDE DEF Bad
  <2> QED BY <1>1, <2>1, WFMin
<1>3. U \in SUBSET S /\ IsFiniteSet(U)
  BY FS_Subset
<1>4. U # {}
  <2>1. SumOf(w, U) = IF U = {} THEN 0 ELSE w[Pick(U)] + SumOf(w, U \ {Pick(U)})
    BY <1>3, SumFirst
  <2> QED BY <2>1
<1>5. Pick(U) \in U /\ U \ {Pick(U)} # U
  BY <1>4 DEF Pick
<1>6. SumOf(w, U \ {Pick(U)}) \in Nat
  BY <1>2, <1>3, <1>5 DEF StrictSubsetOrdering
<1>7. SumOf(w, U) = w[Pick(U)] + SumOf(w, U \ {Pick(U)})
  BY <1>3, <1>4, SumFirst
<1> QED BY <1>3, <1>5, <1>6, <1>7

-----------------------------------------------------------------------------
(* Flattened sequences *)

\* f[i] are the first i sequences, one behind the other.
Glues(f, s, n) == f = [i \in 1..n |-> IF i = 1 THEN s[i] ELSE f[i - 1] \o s[i]]
Glued(s) == CHOOSE f : Glues(f, s, Len(s))

LEMMA GluesExist ==
  ASSUME NEW s, NEW n \in Nat
  PROVE  \E f : Glues(f, s, n)
<1> DEFINE Up(f, m) == \A i \in 1..m : f[i] = IF i = 1 THEN s[i] ELSE f[i - 1] \o s[i]
           D == {m \in Nat : \E f : Up(f, m)}
<1>1. 0 \in D
  OBVIOUS
<1>2. ASSUME NEW m \in 0..(n - 1), m \in D
      PROVE  m + 1 \in D
  <2>1. PICK f : Up(f, m)
    BY <1>2
  <2> DEFINE g == [i \in 1..(m + 1) |->
                     IF i = m + 1 THEN IF i = 1 THEN s[i] ELSE f[m] \o s[i] ELSE f[i]]
  <2>2. \A i \in 1..m : g[i] = f[i]
    OBVIOUS
  <2>3. g[m + 1] = IF m = 0 THEN s[1] ELSE f[m] \o s[m + 1]
    BY m + 1 \in 1..(m + 1)
  <2> HIDE DEF g
  <2>4. Up(g, m + 1)
    BY <2>1, <2>2, <2>3
  <2> QED BY <2>4
<1>3. n \in D
  <2> HIDE DEF D
  <2> QED BY <1>1, <1>2, CountingUp
<1>4. PICK f : Up(f, n)
  BY <1>3
<1> DEFINE g == [i \in 1..n |-> f[i]]
<1>5. \A i \in 1..n : g[i] = IF i = 1 THEN s[i] ELSE g[i - 1] \o s[i]
  BY <1>4
<1>6. g = [i \in 1..n |-> g[i]]
  OBVIOUS
<1> HIDE DEF g
<1>7. g = [i \in 1..n |-> IF i = 1 THEN s[i] ELSE g[i - 1] \o s[i]]
  BY <1>5, <1>6
<1> QED BY <1>7 DEF Glues

LEMMA FlattenIsGlued ==
  ASSUME NEW s, Len(s) \in Nat \ {0}
  PROVE  /\ FlattenSeq(s) = Glued(s)[Len(s)]
         /\ Glued(s)[1] = s[1]
         /\ \A i \in 2..Len(s) : Glued(s)[i] = Glued(s)[i - 1] \o s[i]
<1>1. FlattenSeq(s) = Glued(s)[Len(s)]
  BY DEF FlattenSeq, Glued, Glues
<1>2. Glues(Glued(s), s, Len(s))
  BY GluesExist DEF Glued
<1> DEFINE f == Glued(s)
<1>3. f = [i \in 1..Len(s) |-> IF i = 1 THEN s[i] ELSE f[i - 1] \o s[i]]
  BY <1>2 DEF Glues
<1> HIDE DEF f
<1>4. \A i \in 1..Len(s) : f[i] = IF i = 1 THEN s[i] ELSE f[i - 1] \o s[i]
  BY <1>3
<1>5. f[1] = s[1] /\ \A i \in 2..Len(s) : f[i] = f[i - 1] \o s[i]
  <2>1. 1 \in 1..Len(s) /\ \A i \in 2..Len(s) : i \in 1..Len(s) /\ i # 1
    OBVIOUS
  <2> QED BY <1>4, <2>1, Zenon
<1> QED BY <1>1, <1>5 DEF f

\* The elements of the first n sequences stand in t in their order: the j-th is the p[j]-th
\* of sequence w[j].
Lined(t, s, n, w, p) ==
  /\ \A j \in 1..Len(t) : /\ w[j] \in 1..n /\ p[j] \in 1..Len(s[w[j]])
                           /\ t[j] = s[w[j]][p[j]]
  /\ \A j, k \in 1..Len(t) : j < k => w[j] < w[k] \/ (w[j] = w[k] /\ p[j] < p[k])
  /\ \A i \in 1..n : \A q \in 1..Len(s[i]) : \E j \in 1..Len(t) : w[j] = i /\ p[j] = q

LEMMA OneMoreLined ==
  ASSUME NEW X, NEW s, NEW n \in Nat, NEW t \in Seq(X), s[n + 1] \in Seq(X),
         NEW w, NEW p, Lined(t, s, n, w, p), \A i \in 1..n : Len(s[i]) \in Nat
  PROVE  \E v, q : Lined(t \o s[n + 1], s, n + 1, v, q)
<1> DEFINE c == s[n + 1]
           u == t \o c
           v == [j \in 1..(Len(t) + Len(c)) |-> IF j \in 1..Len(t) THEN w[j] ELSE n + 1]
           q == [j \in 1..(Len(t) + Len(c)) |-> IF j \in 1..Len(t) THEN p[j] ELSE j - Len(t)]
<1>1. /\ Len(t) \in Nat /\ Len(c) \in Nat /\ Len(u) = Len(t) + Len(c)
      /\ \A j \in 1..Len(u) : u[j] = IF j <= Len(t) THEN t[j] ELSE c[j - Len(t)]
  OBVIOUS
<1>2. \A j \in 1..Len(u) : IF j <= Len(t) THEN j \in 1..Len(t) ELSE j - Len(t) \in 1..Len(c)
  BY <1>1
<1>3. \A j \in 1..Len(u) : IF j <= Len(t) THEN v[j] = w[j] /\ q[j] = p[j]
                                          ELSE v[j] = n + 1 /\ q[j] = j - Len(t)
  BY <1>1
<1> HIDE DEF v, q, u, c
<1>4. \A j \in 1..Len(t) : /\ w[j] \in 1..n /\ p[j] \in 1..Len(s[w[j]])
                            /\ t[j] = s[w[j]][p[j]]
  BY DEF Lined
<1>5. ASSUME NEW j \in 1..Len(u)
      PROVE  v[j] \in 1..(n + 1) /\ q[j] \in 1..Len(s[v[j]]) /\ u[j] = s[v[j]][q[j]]
  <2>1. CASE j <= Len(t)
    <3>1. v[j] = w[j] /\ q[j] = p[j] /\ u[j] = t[j] /\ j \in 1..Len(t)
      BY <1>1, <1>2, <1>3, <2>1
    <3> QED BY <1>4, <3>1
  <2>2. CASE ~(j <= Len(t))
    <3>1. v[j] = n + 1 /\ q[j] = j - Len(t) /\ u[j] = c[j - Len(t)] /\ j - Len(t) \in 1..Len(c)
      BY <1>1, <1>2, <1>3, <2>2
    <3> QED BY <3>1 DEF c
  <2> QED BY <2>1, <2>2
<1>6. ASSUME NEW j \in 1..Len(u), NEW k \in 1..Len(u), j < k
      PROVE  v[j] < v[k] \/ (v[j] = v[k] /\ q[j] < q[k])
  <2>1. CASE k <= Len(t)
    <3>1. j \in 1..Len(t) /\ k \in 1..Len(t)
      BY <1>1, <1>6, <2>1
    <3>2. w[j] < w[k] \/ (w[j] = w[k] /\ p[j] < p[k])
      BY <1>6, <3>1 DEF Lined
    <3>3. v[j] = w[j] /\ q[j] = p[j] /\ v[k] = w[k] /\ q[k] = p[k]
      BY <1>1, <1>3, <3>1
    <3> QED BY <3>2, <3>3
  <2>2. CASE j <= Len(t) /\ ~(k <= Len(t))
    <3>1. w[j] \in 1..n
      BY <1>2, <1>4, <2>2
    <3> QED BY <1>3, <2>2, <3>1
  <2>3. CASE ~(j <= Len(t))
    BY <1>1, <1>3, <1>6, <2>3
  <2> QED BY <2>1, <2>2, <2>3
<1>7. ASSUME NEW i \in 1..(n + 1), NEW m \in 1..Len(s[i])
      PROVE  \E j \in 1..Len(u) : v[j] = i /\ q[j] = m
  <2>1. CASE i \in 1..n
    <3>1. PICK j \in 1..Len(t) : w[j] = i /\ p[j] = m
      BY <1>7, <2>1 DEF Lined
    <3>2. j \in 1..Len(u) /\ j <= Len(t)
      BY <1>1
    <3> QED BY <1>3, <3>1, <3>2
  <2>2. CASE i = n + 1
    <3>1. m \in 1..Len(c)
      BY <1>7, <2>2 DEF c
    <3>2. Len(t) + m \in 1..Len(u) /\ ~(Len(t) + m <= Len(t)) /\ Len(t) + m - Len(t) = m
      BY <1>1, <3>1
    <3> QED BY <1>3, <2>2, <3>2
  <2> QED BY <2>1, <2>2
<1>8. Lined(u, s, n + 1, v, q)
  BY <1>5, <1>6, <1>7 DEF Lined
<1> QED BY <1>8 DEF u, c

LEMMA Flattened ==
  ASSUME NEW X, NEW s \in Seq(Seq(X)), s # <<>>
  PROVE  /\ FlattenSeq(s) \in Seq(X)
         /\ \E w, p : Lined(FlattenSeq(s), s, Len(s), w, p)
<1> DEFINE g == Glued(s)
           D == {i \in 0..(Len(s) - 1) : /\ g[i + 1] \in Seq(X)
                                         /\ \E w, p : Lined(g[i + 1], s, i + 1, w, p)}
<1>1. Len(s) \in Nat \ {0} /\ \A i \in 1..Len(s) : s[i] \in Seq(X) /\ Len(s[i]) \in Nat
  OBVIOUS
<1>2. /\ FlattenSeq(s) = g[Len(s)] /\ g[1] = s[1]
      /\ \A i \in 2..Len(s) : g[i] = g[i - 1] \o s[i]
  BY <1>1, FlattenIsGlued
<1> HIDE DEF g
<1>3. 0 \in D
  <2> DEFINE t == s[1]
             w == [j \in 1..Len(t) |-> 1]
             p == [j \in 1..Len(t) |-> j]
  <2>1. t \in Seq(X) /\ Len(t) \in Nat
    BY <1>1
  <2>2. /\ \A j \in 1..Len(t) : w[j] = 1 /\ p[j] = j
        /\ \A i \in 1..1 : i = 1
    OBVIOUS
  <2> HIDE DEF w, p
  <2>3. Lined(t, s, 1, w, p)
    BY <2>1, <2>2 DEF Lined
  <2> QED BY <1>1, <1>2, <2>1, <2>3
<1>4. ASSUME NEW i \in 0..(Len(s) - 2), i \in D
      PROVE  i + 1 \in D
  <2>1. PICK w, p : Lined(g[i + 1], s, i + 1, w, p)
    BY <1>4
  <2>2. g[i + 1] \in Seq(X) /\ s[i + 2] \in Seq(X) /\ i + 1 \in Nat
    BY <1>1, <1>4
  <2>3. g[i + 2] = g[i + 1] \o s[i + 2]
    <3>1. i + 2 \in 2..Len(s) /\ (i + 2) - 1 = i + 1
      BY <1>1
    <3> QED BY <1>2, <3>1
  <2>4. (i + 1) + 1 = i + 2 /\ \A j \in 1..(i + 1) : Len(s[j]) \in Nat
    BY <1>1
  <2> DEFINE t == g[i + 1]
             c == s[i + 2]
  <2> HIDE DEF t
  <2>5. \E v, q : Lined(t \o s[i + 2], s, i + 2, v, q)
    BY <2>1, <2>2, <2>4, OneMoreLined DEF t
  <2>6. t \o s[i + 2] \in Seq(X)
    BY <2>2 DEF t
  <2>7. g[i + 2] \in Seq(X) /\ \E v, q : Lined(g[i + 2], s, i + 2, v, q)
    BY <2>3, <2>5, <2>6, Zenon DEF t
  <2> QED BY <1>1, <2>4, <2>7
<1>5. Len(s) - 1 \in D
  <2> HIDE DEF D
  <2>1. (Len(s) - 1) \in Nat /\ (Len(s) - 1) - 1 = Len(s) - 2 /\ Len(s) - 1 \in 0..(Len(s) - 1)
    BY <1>1
  <2> QED BY <1>3, <1>4, <2>1, CountingUp
<1>6. (Len(s) - 1) + 1 = Len(s)
  BY <1>1
<1> QED BY <1>2, <1>5, <1>6

-----------------------------------------------------------------------------
(* Sums from the first element on, and their shares *)

LEMMA NextSum ==
  ASSUME NEW w, NEW n \in Nat, \A k \in 1..n : w[k] \in Int, NEW q \in 0..(n - 1)
  PROVE  /\ SumOf(w, 1..q) \in Int /\ SumOf(w, 1..(q + 1)) \in Int
         /\ SumOf(w, 1..(q + 1)) = SumOf(w, 1..q) + w[q + 1]
<1> DEFINE T == 1..(q + 1)
           U == 1..q
<1>1. IsFiniteSet(T) /\ q + 1 \in T /\ T \ {q + 1} = U /\ \A k \in T : w[k] \in Int
  BY FS_Interval
<1>2. w[q + 1] \in Int
  BY <1>1
<1> HIDE DEF T, U
<1>3. SumOf(w, T) \in Int /\ SumOf(w, U) \in Int /\ SumOf(w, T) = w[q + 1] + SumOf(w, U)
  BY <1>1, SumStep
<1> QED BY <1>2, <1>3 DEF T, U

\* Positive elements make sums that grow.
LEMMA SumsGrow ==
  ASSUME NEW w, NEW n \in Nat, \A k \in 1..n : w[k] \in Nat \ {0}
  PROVE  /\ SumOf(w, 1..0) = 0
         /\ \A q \in 0..n : SumOf(w, 1..q) \in Nat
         /\ \A m, q \in 0..n : m < q => SumOf(w, 1..m) + 1 <= SumOf(w, 1..q)
<1> DEFINE sum(q) == SumOf(w, 1..q)
           D == {q \in 0..n : sum(q) \in Nat /\ \A m \in 0..(q - 1) : sum(m) + 1 <= sum(q)}
<1>1. sum(0) = 0
  <2>1. IsFiniteSet(1..0) /\ \A k \in 1..0 : w[k] = 0
    BY FS_Interval
  <2> QED BY <2>1, SumOfNothing
<1>2. 0 \in D
  BY <1>1
<1>3. ASSUME NEW q \in 0..(n - 1), q \in D
      PROVE  q + 1 \in D
  <2>1. sum(q + 1) = sum(q) + w[q + 1]
    BY NextSum
  <2>2. w[q + 1] \in Nat \ {0} /\ sum(q) \in Nat
    BY <1>3
  <2> HIDE DEF sum
  <2>3. sum(q + 1) \in Nat /\ sum(q) + 1 <= sum(q + 1)
    BY <2>1, <2>2
  <2>4. ASSUME NEW m \in 0..q PROVE sum(m) + 1 <= sum(q + 1)
    <3>1. CASE m = q
      BY <2>3, <3>1
    <3>2. CASE m # q
      <4>1. m \in 0..(q - 1)
        BY <3>2
      <4>2. sum(m) + 1 <= sum(q) /\ m \in Nat
        BY <1>3, <4>1
      <4>3. sum(m) \in Int
        <5>1. \A k \in 1..n : w[k] \in Int
          OBVIOUS
        <5>2. m \in 0..(n - 1)
          BY <4>1
        <5> QED BY <5>1, <5>2, NextSum DEF sum
      <4> QED BY <2>2, <2>3, <4>2, <4>3
    <3> QED BY <3>1, <3>2
  <2> QED BY <2>3, <2>4
<1>4. \A q \in 0..n : q \in D
  <2> HIDE DEF D
  <2> QED BY <1>2, <1>3, CountingUp
<1> HIDE DEF sum
<1>5. \A q \in 0..n : sum(q) \in Nat
  BY <1>4
<1>6. \A m, q \in 0..n : m < q => sum(m) + 1 <= sum(q)
  BY <1>4
<1> QED BY <1>1, <1>5, <1>6 DEF sum

\* Multiples keep order.
LEMMA Scales ==
  ASSUME NEW m \in Nat, NEW x \in Int, NEW y \in Int, x <= y
  PROVE  m * x \in Int /\ m * y \in Int /\ m * x <= m * y
<1>1. ASSUME NEW d \in Nat PROVE m * d >= 0
  OBVIOUS
<1>2. y - x \in Nat
  OBVIOUS
<1>3. m * (y - x) >= 0
  BY <1>1, <1>2
<1>4. m * (y - x) = m * y - m * x
  OBVIOUS
<1>5. m * x \in Int /\ m * y \in Int
  OBVIOUS
<1> QED BY <1>3, <1>4, <1>5

\* Rounding keeps order, and a whole unit more is rounded to more.
LEMMA Quotient ==
  ASSUME NEW a \in Nat, NEW m \in Nat \ {0}
  PROVE  \E r \in 0..(m - 1) : a = m * (a \div m) + r /\ a \div m \in Int
  OBVIOUS

LEMMA Rounds ==
  ASSUME NEW a \in Nat, NEW b \in Nat, NEW m \in Nat \ {0}
  PROVE  /\ a \div m \in Nat
         /\ a <= b => a \div m <= b \div m
         /\ a + m <= b => a \div m < b \div m
<1> DEFINE x == a \div m
           y == b \div m
<1>1. PICK r \in 0..(m - 1) : a = m * x + r /\ x \in Int
  BY Quotient
<1>2. PICK q \in 0..(m - 1) : b = m * y + q /\ y \in Int
  BY Quotient
<1> HIDE DEF x, y
<1>3. x >= 0
  <2> SUFFICES ASSUME x <= -1 PROVE FALSE
    BY <1>1
  <2>1. m * x \in Int /\ m * (-1) \in Int /\ m * x <= m * (-1)
    BY <1>1, Scales
  <2>2. m * (-1) = -m
    OBVIOUS
  <2> QED BY <1>1, <2>1, <2>2
<1>4. ASSUME a <= b PROVE x <= y
  <2> SUFFICES ASSUME y + 1 <= x PROVE FALSE
    BY <1>1, <1>2
  <2>1. m * (y + 1) \in Int /\ m * x \in Int /\ m * (y + 1) <= m * x
    BY <1>1, <1>2, Scales
  <2>2. m * (y + 1) = m * y + m /\ m * y \in Int
    BY <1>2
  <2> QED BY <1>1, <1>2, <1>4, <2>1, <2>2
<1>5. ASSUME a + m <= b PROVE x < y
  <2> SUFFICES ASSUME y <= x PROVE FALSE
    BY <1>1, <1>2
  <2>1. m * y \in Int /\ m * x \in Int /\ m * y <= m * x
    BY <1>1, <1>2, Scales
  <2> QED BY <1>1, <1>2, <1>5, <2>1
<1> QED BY <1>1, <1>3, <1>4, <1>5 DEF x, y

\* Quotients are what they have to be.
LEMMA QuotientIs ==
  ASSUME NEW m \in Nat \ {0}, NEW x \in Nat, NEW r \in 0..(m - 1)
  PROVE  m * x + r \in Nat /\ (m * x + r) \div m = x
<1> DEFINE a == m * x + r
           y == a \div m
<1>1. m * x \in Int /\ m * 0 = 0 /\ 0 <= m * x
  <2>1. m * 0 \in Int /\ m * x \in Int /\ m * 0 <= m * x
    BY Scales
  <2> QED BY <2>1
<1>2. a \in Nat
  BY <1>1
<1> HIDE DEF a
<1>3. PICK q \in 0..(m - 1) : a = m * y + q /\ y \in Int
  BY <1>2, Quotient
<1> HIDE DEF y
<1>4. m * y + q = m * x + r
  BY <1>3 DEF a
<1>5. y <= x
  <2> SUFFICES ASSUME x + 1 <= y PROVE FALSE
    BY <1>3
  <2>1. m * (x + 1) \in Int /\ m * y \in Int /\ m * (x + 1) <= m * y
    BY <1>3, Scales
  <2>2. m * (x + 1) = m * x + m
    OBVIOUS
  <2> QED BY <1>1, <1>4, <2>1, <2>2
<1>6. x <= y
  <2> SUFFICES ASSUME y + 1 <= x PROVE FALSE
    BY <1>3
  <2>1. m * (y + 1) \in Int /\ m * x \in Int /\ m * (y + 1) <= m * x
    BY <1>3, Scales
  <2>2. m * (y + 1) = m * y + m /\ m * y \in Int
    BY <1>3
  <2> QED BY <1>1, <1>4, <2>1, <2>2
<1> QED BY <1>2, <1>3, <1>5, <1>6 DEF a, y

\* The share x of L has of D, rounded.
Portion(D, L, x) == (2 * D * x + L) \div (2 * L)

LEMMA Portions ==
  ASSUME NEW D \in Nat, NEW L \in Nat \ {0}, NEW x \in Nat, NEW y \in Nat
  PROVE  /\ Portion(D, L, 0) = 0 /\ Portion(D, L, L) = D /\ Portion(D, L, x) \in Nat
         /\ x <= y => Portion(D, L, x) <= Portion(D, L, y)
         /\ L <= D /\ x + 1 <= y => Portion(D, L, x) < Portion(D, L, y)
<1> DEFINE m == 2 * L
           c == 2 * D
           a(z) == c * z + L
<1>1. m \in Nat \ {0} /\ L \in 0..(m - 1) /\ c \in Nat
  OBVIOUS
<1>2. \A z \in Nat : Portion(D, L, z) = a(z) \div m
  BY DEF Portion
<1>3. ASSUME NEW z \in Nat PROVE a(z) \in Nat /\ c * z \in Int
  <2>1. c * 0 \in Int /\ c * z \in Int /\ c * 0 <= c * z
    BY <1>1, Scales
  <2>2. c * 0 = 0
    BY <1>1
  <2> HIDE DEF c
  <2> QED BY <2>1, <2>2
<1>4. Portion(D, L, 0) = 0
  <2>1. a(0) = m * 0 + L
    BY <1>1
  <2>2. (m * 0 + L) \div m = 0
    BY <1>1, QuotientIs
  <2> QED BY <1>2, <2>1, <2>2
<1>5. Portion(D, L, L) = D
  <2>1. a(L) = m * D + L
    <3>1. (2 * D) * L = (2 * L) * D
      OBVIOUS
    <3> QED BY <3>1
  <2>2. (m * D + L) \div m = D
    BY <1>1, QuotientIs
  <2> QED BY <1>2, <2>1, <2>2
<1>6. ASSUME x <= y PROVE a(x) <= a(y)
  <2>1. c * x \in Int /\ c * y \in Int /\ c * x <= c * y
    BY <1>1, <1>6, Scales
  <2> HIDE DEF c
  <2> QED BY <2>1
<1>7. ASSUME L <= D, x + 1 <= y PROVE a(x) + m <= a(y)
  <2>1. c * (x + 1) \in Int /\ c * y \in Int /\ c * (x + 1) <= c * y
    BY <1>1, <1>7, Scales
  <2>2. c * (x + 1) = c * x + c /\ m <= c
    BY <1>1, <1>7
  <2>3. c * x \in Int
    BY <1>3
  <2> HIDE DEF c, m
  <2> QED BY <1>1, <2>1, <2>2, <2>3
<1>8. a(x) \in Nat /\ a(y) \in Nat
  BY <1>3
<1>9. Portion(D, L, x) = a(x) \div m /\ Portion(D, L, y) = a(y) \div m
  BY <1>2
<1> HIDE DEF a, m
<1>10. /\ a(x) \div m \in Nat
       /\ a(x) <= a(y) => a(x) \div m <= a(y) \div m
       /\ a(x) + m <= a(y) => a(x) \div m < a(y) \div m
  BY <1>1, <1>8, Rounds
<1> QED BY <1>4, <1>5, <1>6, <1>7, <1>9, <1>10

-----------------------------------------------------------------------------
(* Finite sets of numbers and of places *)

\* The values of a function on a finite domain are finitely many.
LEMMA ValuesAreFinite ==
  ASSUME NEW f, IsFiniteSet(DOMAIN f), f = [x \in DOMAIN f |-> f[x]]
  PROVE  IsFiniteSet({f[x] : x \in DOMAIN f})
<1> DEFINE T == {f[x] : x \in DOMAIN f}
<1>1. f \in [DOMAIN f -> T]
  OBVIOUS
<1>2. f \in Surjection(DOMAIN f, T)
  BY <1>1 DEF Surjection
<1> QED BY <1>2, FS_Surjection

\* A finite set of integers has a least and a greatest element.
LEMMA LeastAndGreatest ==
  ASSUME NEW T, IsFiniteSet(T), T # {}, T \subseteq Int
  PROVE  /\ \E m \in T : \A x \in T : m <= x
         /\ \E m \in T : \A x \in T : x <= m
<1> DEFINE Up == {p \in T \X T : p[1] < p[2]}
           Down == {p \in T \X T : p[1] > p[2]}
<1>1. \A x, y \in T : (<<x, y>> \in Up <=> x < y) /\ (<<x, y>> \in Down <=> x > y)
  OBVIOUS
<1> HIDE DEF Up, Down
<1>2. Orders(Up, T) /\ Orders(Down, T)
  <2>1. \A x, y \in T : x # y => <<x, y>> \in Up \/ <<y, x>> \in Up
    BY <1>1
  <2>2. \A x, y \in T : x # y => <<x, y>> \in Down \/ <<y, x>> \in Down
    BY <1>1
  <2>3. \A x, y \in T : <<x, y>> \in Up => <<y, x>> \notin Up
    BY <1>1
  <2>4. \A x, y \in T : <<x, y>> \in Down => <<y, x>> \notin Down
    BY <1>1
  <2>5. \A x, y, z \in T : <<x, y>> \in Up /\ <<y, z>> \in Up => <<x, z>> \in Up
    BY <1>1
  <2>6. \A x, y, z \in T : <<x, y>> \in Down /\ <<y, z>> \in Down => <<x, z>> \in Down
    BY <1>1
  <2> QED BY <2>1, <2>2, <2>3, <2>4, <2>5, <2>6, Zenon DEF Orders
<1>3. \E m \in T : \A x \in T \ {m} : <<m, x>> \in Up
  BY <1>2, FirstOfFinite, Zenon
<1>4. \E m \in T : \A x \in T \ {m} : <<m, x>> \in Down
  BY <1>2, FirstOfFinite, Zenon
<1>5. \E m \in T : \A x \in T : m <= x
  <2>1. PICK m \in T : \A x \in T \ {m} : <<m, x>> \in Up
    BY <1>3
  <2>2. ASSUME NEW x \in T PROVE m <= x
    <3>1. x = m \/ <<m, x>> \in Up
      BY <2>1
    <3>2. x = m \/ m < x
      BY <1>1, <3>1
    <3> QED BY <3>2
  <2> QED BY <2>2
<1>6. \E m \in T : \A x \in T : x <= m
  <2>1. PICK m \in T : \A x \in T \ {m} : <<m, x>> \in Down
    BY <1>4
  <2>2. ASSUME NEW x \in T PROVE x <= m
    <3>1. x = m \/ <<m, x>> \in Down
      BY <2>1
    <3>2. x = m \/ m > x
      BY <1>1, <3>1
    <3> QED BY <3>2
  <2> QED BY <2>2
<1> QED BY <1>5, <1>6

\* which are what Min and Max choose.
LEMMA Extremes ==
  ASSUME NEW T, IsFiniteSet(T), T # {}, T \subseteq Int
  PROVE  /\ Min(T) \in T /\ \A x \in T : Min(T) <= x
         /\ Max(T) \in T /\ \A x \in T : x <= Max(T)
<1>1. Min(T) \in T /\ \A x \in T : Min(T) <= x
  <2>1. \E m \in T : \A x \in T : m <= x
    BY LeastAndGreatest
  <2> QED BY <2>1 DEF Min
<1>2. Max(T) \in T /\ \A x \in T : x <= Max(T)
  <2>1. \E m \in T : \A x \in T : m >= x
    BY LeastAndGreatest
  <2>2. Max(T) \in T /\ \A x \in T : Max(T) >= x
    BY <2>1 DEF Max
  <2> QED BY <2>2
<1> QED BY <1>1, <1>2

LEMMA ExtremesOfTwo ==
  ASSUME NEW a \in Int, NEW b \in Int
  PROVE  /\ Min({a, b}) \in {a, b} /\ Min({a, b}) <= a /\ Min({a, b}) <= b
         /\ Max({a, b}) \in {a, b} /\ Max({a, b}) >= a /\ Max({a, b}) >= b
<1>1. IsFiniteSet({a, b})
  <2>1. IsFiniteSet({a}) /\ IsFiniteSet({b})
    BY FS_Singleton
  <2>2. {a, b} = {a} \cup {b}
    OBVIOUS
  <2> QED BY <2>1, <2>2, FS_Union
<1>2. {a, b} # {} /\ {a, b} \subseteq Int /\ a \in {a, b} /\ b \in {a, b}
  OBVIOUS
<1>3. /\ Min({a, b}) \in {a, b} /\ \A x \in {a, b} : Min({a, b}) <= x
      /\ Max({a, b}) \in {a, b} /\ \A x \in {a, b} : x <= Max({a, b})
  BY <1>1, <1>2, Extremes, Zenon
<1>4. Min({a, b}) <= a /\ Min({a, b}) <= b /\ a <= Max({a, b}) /\ b <= Max({a, b})
  BY <1>2, <1>3, Zenon
<1>5. Max({a, b}) \in Int
  BY <1>2, <1>3, Zenon
<1>6. Max({a, b}) >= a /\ Max({a, b}) >= b
  BY <1>4, <1>5
<1> QED BY <1>3, <1>4, <1>6

\* Of a set of places each number up to its size is the number of those up to one of them.
LEMMA NthPlace ==
  ASSUME NEW N \in Nat, NEW P, P \subseteq 1..N, NEW n \in 1..Cardinality(P)
  PROVE  \E i \in P : Cardinality({j \in P : j <= i}) = n
<1> DEFINE upTo(i) == {j \in P : j <= i}
           T == {i \in P : Cardinality(upTo(i)) >= n}
<1>1. IsFiniteSet(P) /\ Cardinality(P) \in Nat /\ P \subseteq Nat
  <2>1. IsFiniteSet(1..N)
    BY FS_Interval
  <2>2. IsFiniteSet(P)
    BY <2>1, FS_Subset
  <2>3. P \subseteq Nat
    OBVIOUS
  <2> QED BY <2>2, <2>3, FS_CardinalityType
<1>2. \A U \in SUBSET P : IsFiniteSet(U) /\ Cardinality(U) \in Nat
  BY <1>1, FS_Subset, FS_CardinalityType
<1>3. P # {}
  BY <1>1, FS_EmptySet
<1>4. T # {}
  <2>1. \A x \in P : x <= N
    OBVIOUS
  <2>2. PICK m \in P : \A x \in P : x <= m
    BY <1>1, <1>3, <2>1, GreatestNatural
  <2>3. upTo(m) = P
    BY <2>2
  <2> QED BY <1>1, <2>3
<1>5. PICK m \in T : \A x \in T : m <= x
  <2>1. T \subseteq Nat
    BY <1>1
  <2> QED BY <1>4, <2>1, LeastNatural
<1>6. ASSUME Cardinality(upTo(m)) # n PROVE FALSE
  <2> DEFINE B == upTo(m) \ {m}
  <2>1. m \in P /\ m \in Nat /\ Cardinality(upTo(m)) >= n
    BY <1>1
  <2>2. m \in upTo(m)
    BY <2>1
  <2>3. upTo(m) \in SUBSET P /\ B \in SUBSET P
    OBVIOUS
  <2>4. IsFiniteSet(upTo(m)) /\ Cardinality(upTo(m)) \in Nat /\ Cardinality(B) \in Nat
    BY <1>2, <2>3
  <2>5. Cardinality(B) = Cardinality(upTo(m)) - 1
    BY <2>2, <2>4, FS_RemoveElement
  <2>6. Cardinality(B) >= n /\ n >= 1
    <3>1. n \in Nat /\ n >= 1
      BY <1>1
    <3>2. Cardinality(upTo(m)) # n
      BY <1>6
    <3> HIDE DEF B, upTo
    <3> QED BY <2>1, <2>4, <2>5, <3>1, <3>2
  <2>7. B # {}
    BY <2>4, <2>6, FS_EmptySet
  <2>8. B \subseteq Nat /\ \A x \in B : x <= N
    <3>1. B \subseteq P
      OBVIOUS
    <3>2. \A x \in P : x \in Nat /\ x <= N
      OBVIOUS
    <3> QED BY <3>1, <3>2, Zenon
  <2>9. PICK k \in B : \A x \in B : x <= k
    <3> HIDE DEF B
    <3> QED BY <2>7, <2>8, GreatestNatural
  <2>10. k \in P /\ k \in Nat /\ k < m
    BY <1>1, <2>1, <2>9
  <2>11. upTo(k) = B
    <3>1. \A x \in P : x \in Nat
      BY <1>1
    <3>2. \A x \in P : x <= k => x <= m /\ x # m
      BY <2>1, <2>10, <3>1
    <3> QED BY <2>9, <3>2
  <2>12. k \in T
    BY <2>6, <2>10, <2>11
  <2> QED BY <1>5, <2>1, <2>10, <2>12
<1> QED BY <1>5, <1>6
=============================================================================
