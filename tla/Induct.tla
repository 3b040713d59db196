------------------------------- MODULE Induct -------------------------------
(***************************************************************************)
(* Induction with a set in the place of a predicate, sums over finite      *)
(* sets, and folds of sequences.  The induction rules of the library take  *)
(* the predicate as an operator; these follow from its theorems on minimal *)
(* elements and on the natural numbers, which do not have to.              *)
(***************************************************************************)
EXTENDS Integers, Sequences, FiniteSetsExt, FiniteSetTheorems, TLAPS

\* What holds of a set when it holds of each smaller one holds of every subset of
\* a finite set.
LEMMA SubsetInduction ==
  ASSUME NEW S, IsFiniteSet(S), NEW P,
         \A T \in SUBSET S : (\A U \in SUBSET T : U # T => U \in P) => T \in P
  PROVE  SUBSET S \subseteq P
<1> SUFFICES ASSUME (SUBSET S) \ P # {}  PROVE FALSE
  OBVIOUS
<1>1. IsWellFoundedOn(StrictSubsetOrdering(S), SUBSET S)
  <2>1. IsWellFoundedOn(StrictSubsetOrdering(S), FiniteSubsetsOf(S))
    BY FS_StrictSubsetOrderingWellFounded
  <2>2. FiniteSubsetsOf(S) = SUBSET S
    BY FS_FiniteSubsetsOfFinite
  <2> QED  BY <2>1, <2>2
<1>2. PICK T \in (SUBSET S) \ P : \A U \in (SUBSET S) \ P : ~(<<U, T>> \in StrictSubsetOrdering(S))
  <2>1. PICK Q : Q = (SUBSET S) \ P
    OBVIOUS
  <2>2. PICK R : R = StrictSubsetOrdering(S) /\ IsWellFoundedOn(R, SUBSET S)
    BY <1>1
  <2>3. Q \subseteq SUBSET S /\ Q # {}
    BY <2>1
  <2>4. \E T \in Q : \A U \in Q : ~(<<U, T>> \in R)
    BY <2>2, <2>3, WFMin
  <2> QED  BY <2>1, <2>2, <2>4
<1>3. ASSUME NEW U \in SUBSET T, U # T  PROVE U \in P
  <2>1. <<U, T>> \in StrictSubsetOrdering(S)
    BY <1>2, <1>3 DEF StrictSubsetOrdering
  <2> QED  BY <1>2, <2>1
<1> QED  BY <1>2, <1>3

\* What holds of 0, and of n + 1 when it holds of n, holds of every number.
LEMMA NatInduct ==
  ASSUME NEW P, 0 \in P, \A n \in Nat : n \in P => n + 1 \in P
  PROVE  Nat \subseteq P
<1> SUFFICES ASSUME Nat \ P # {}  PROVE FALSE
  OBVIOUS
<1>1. PICK n \in Nat \ P : \A m \in Nat \ P : ~(<<m, n>> \in OpToRel(<, Nat))
  BY NatLessThanWellFounded, WFMin
<1>2. n # 0 /\ n \in Nat /\ n \notin P
  OBVIOUS
<1>2a. n - 1 \in Nat /\ n - 1 < n /\ (n - 1) + 1 = n
  BY <1>2
<1>3. n - 1 \notin P
  BY <1>2, <1>2a
<1>4. <<n - 1, n>> \in OpToRel(<, Nat)
  BY <1>2, <1>2a DEF OpToRel
<1> QED  BY <1>1, <1>2a, <1>3, <1>4

-----------------------------------------------------------------------------
(* Sums.                                                                   *)

\* How MapThenSumSet goes through the subsets of S, for the numbers f.
Sums(f, S, h) ==
  h = [T \in SUBSET S |->
         IF T = {} THEN 0
         ELSE f[CHOOSE x \in T : TRUE] + h[T \ {CHOOSE x \in T : TRUE}]]

LEMMA SumsExist == ASSUME NEW S, IsFiniteSet(S), NEW f  PROVE \E h : Sums(f, S, h)
<1> DEFINE x(T) == CHOOSE y \in T : TRUE
           Small(n) == {T \in SUBSET S : Cardinality(T) <= n}
           OK(n, h) == h = [T \in Small(n) |->
                              IF T = {} THEN 0 ELSE f[x(T)] + h[T \ {x(T)}]]
           P == {n \in Nat : \E h : OK(n, h)}
<1>1. \A T \in SUBSET S : /\ Cardinality(T) \in Nat /\ (Cardinality(T) = 0 => T = {})
                          /\ T # {} => /\ x(T) \in T /\ T \ {x(T)} \in SUBSET S
                                       /\ Cardinality(T \ {x(T)}) = Cardinality(T) - 1
  <2> TAKE T \in SUBSET S
  <2>1. IsFiniteSet(T)
    BY FS_Subset
  <2>2. T # {} => x(T) \in T
    OBVIOUS
  <2> HIDE DEF x
  <2> QED  BY <2>1, <2>2, FS_CardinalityType, FS_EmptySet, FS_RemoveElement
<1> HIDE DEF x
<1>2. 0 \in P
  <2>1. Small(0) \subseteq {{}}
    <3>1. \A T \in Small(0) : Cardinality(T) = 0
      <4>1. \A c \in Nat : c <= 0 => c = 0
        OBVIOUS
      <4> QED  BY <1>1, <4>1
    <3> QED  BY <1>1, <3>1
  <2> DEFINE h == [T \in Small(0) |-> 0]
  <2>2. OK(0, h)
    BY <2>1
  <2> QED  BY <2>2
<1>3. ASSUME NEW n \in Nat, n \in P  PROVE n + 1 \in P
  <2>1. PICK h : OK(n, h)
    BY <1>3
  <2> DEFINE g == [T \in Small(n + 1) |-> IF T = {} THEN 0 ELSE f[x(T)] + h[T \ {x(T)}]]
  <2>2. \A T \in Small(n) : T \in Small(n + 1) /\ g[T] = h[T]
    <3>1. \A T \in Small(n) : T \in Small(n + 1)
      <4>1. \A c \in Nat : c <= n => c <= n + 1
        OBVIOUS
      <4> QED  BY <1>1, <4>1
    <3>2. \A T \in Small(n) : h[T] = IF T = {} THEN 0 ELSE f[x(T)] + h[T \ {x(T)}]
      BY <2>1
    <3> HIDE DEF Small
    <3> QED  BY <3>1, <3>2
  <2>3. \A T \in Small(n + 1) : T # {} => T \ {x(T)} \in Small(n)
    BY <1>1
  <2>4. OK(n + 1, g)
    <3> HIDE DEF Small
    <3>1. \A T \in Small(n + 1) : T # {} => g[T \ {x(T)}] = h[T \ {x(T)}]
      BY <2>2, <2>3
    <3> QED  BY <3>1
  <2> HIDE DEF OK, g
  <2> QED  BY <2>4
<1>4. Cardinality(S) \in P
  <2>1. Nat \subseteq P
    <3> HIDE DEF P
    <3> QED  BY <1>2, <1>3, NatInduct
  <2> HIDE DEF P
  <2> QED  BY <2>1, FS_CardinalityType
<1>5. Small(Cardinality(S)) = SUBSET S
  BY FS_Subset
<1> QED  BY <1>4, <1>5 DEF Sums, x

LEMMA SumsOf ==
  ASSUME NEW S, NEW f, NEW h, Sums(f, S, h), NEW T \in SUBSET S
  PROVE  h[T] = IF T = {} THEN 0
                ELSE f[CHOOSE x \in T : TRUE] + h[T \ {CHOOSE x \in T : TRUE}]
BY DEF Sums

LEMMA SumsNatural ==
  ASSUME NEW S, IsFiniteSet(S), NEW f \in [S -> Nat], NEW h, Sums(f, S, h)
  PROVE  \A T \in SUBSET S : h[T] \in Nat
<1> DEFINE P == {T \in SUBSET S : h[T] \in Nat}
<1>1. ASSUME NEW T \in SUBSET S, \A U \in SUBSET T : U # T => U \in P  PROVE T \in P
  <2>1. CASE T = {}
    BY <2>1, SumsOf
  <2>2. CASE T # {}
    <3>1. PICK x \in T : x = CHOOSE y \in T : TRUE
      BY <2>2
    <3>2. h[T] = f[x] + h[T \ {x}]
      BY <2>2, <3>1, SumsOf
    <3>3. T \ {x} \in P
      BY <1>1, <3>1
    <3> QED  BY <3>1, <3>2, <3>3
  <2> QED  BY <2>1, <2>2
<1>2. SUBSET S \subseteq P
  <2> HIDE DEF P
  <2> QED  BY <1>1, SubsetInduction
<1> QED  BY <1>2

\* g is f with one more at e, if that is one of S.
OneMore(f, g, e, S) == \A x \in S : g[x] = IF x = e THEN f[x] + 1 ELSE f[x]

\* When one number is more by one, so is the sum, and else it is the same.
LEMMA SumsGrow ==
  ASSUME NEW S, IsFiniteSet(S), NEW f \in [S -> Nat], NEW h, Sums(f, S, h),
         NEW e, NEW g \in [S -> Nat], NEW k, Sums(g, S, k), OneMore(f, g, e, S)
  PROVE  k[S] = IF e \in S THEN h[S] + 1 ELSE h[S]
<1> DEFINE P == {T \in SUBSET S : k[T] = IF e \in T THEN h[T] + 1 ELSE h[T]}
<1>1. ASSUME NEW T \in SUBSET S, \A U \in SUBSET T : U # T => U \in P  PROVE T \in P
  <2>1. CASE T = {}
    BY <2>1, SumsOf
  <2>2. CASE T # {}
    <3>1. PICK x \in T : x = CHOOSE y \in T : TRUE
      BY <2>2
    <3>2. h[T] = f[x] + h[T \ {x}]
      <4>1. Sums(f, S, h)
        OBVIOUS
      <4> QED  BY <2>2, <3>1, <4>1 DEF Sums
    <3>3. k[T] = g[x] + k[T \ {x}]
      <4>1. Sums(g, S, k)
        OBVIOUS
      <4> QED  BY <2>2, <3>1, <4>1 DEF Sums
    <3>4. PICK U \in SUBSET T : U = T \ {x}
      OBVIOUS
    <3>5. k[U] = IF e \in U THEN h[U] + 1 ELSE h[U]
      BY <1>1, <3>1, <3>4
    <3>6. h[U] \in Nat /\ f[x] \in Nat
      BY <3>4, SumsNatural
    <3>7. CASE x = e
      BY <3>2, <3>3, <3>4, <3>5, <3>6, <3>7 DEF OneMore
    <3>8. CASE x # e
      <4>1. g[x] = f[x] /\ (e \in U <=> e \in T)
        BY <3>4, <3>8 DEF OneMore
      <4> QED  BY <3>2, <3>3, <3>4, <3>5, <3>6, <4>1
    <3> QED  BY <3>7, <3>8
  <2> QED  BY <2>1, <2>2
<1>2. SUBSET S \subseteq P
  <2> HIDE DEF P
  <2> QED  BY <1>1, SubsetInduction
<1> QED  BY <1>2

\* The numbers at the places S of a table, in one function.
Reads(f, u, S) == \A p \in S : f[p] = u[p[1]][p[2]]

\* The sum of the numbers at the places S of a table, which is one of those sums.
Total(u, S) == MapThenSumSet(LAMBDA p : u[p[1]][p[2]], S)

LEMMA TotalSums ==
  ASSUME NEW S, IsFiniteSet(S), NEW u, NEW f, Reads(f, u, S)
  PROVE  \E h : Sums(f, S, h) /\ Total(u, S) = h[S]
<1> DEFINE x(T) == CHOOSE y \in T : TRUE
           IsSum(h) == h = [T \in SUBSET S |-> IF T = {} THEN 0
                                      ELSE u[x(T)[1]][x(T)[2]] + h[T \ {x(T)}]]
           iter == CHOOSE h : IsSum(h)
<1>1. \A h : Sums(f, S, h) <=> IsSum(h)
  <2>1. \A T \in SUBSET S : T # {} => f[x(T)] = u[x(T)[1]][x(T)[2]]
    BY DEF Reads
  <2> HIDE DEF x
  <2>2. \A h : [T \in SUBSET S |-> IF T = {} THEN 0 ELSE u[x(T)[1]][x(T)[2]] + h[T \ {x(T)}]]
             = [T \in SUBSET S |-> IF T = {} THEN 0 ELSE f[x(T)] + h[T \ {x(T)}]]
    BY <2>1
  <2> QED  BY <2>2 DEF Sums, x
<1>2. \E h : IsSum(h)
  <2>1. PICK h : Sums(f, S, h)
    BY SumsExist
  <2> HIDE DEF IsSum
  <2> QED  BY <1>1, <2>1
<1>3. IsSum(iter)
  <2> HIDE DEF IsSum
  <2> QED  BY <1>2
<1>4. Total(u, S) = iter[S]
  BY DEF Total, MapThenSumSet, MapThenFoldSet
<1> HIDE DEF IsSum, iter
<1> QED  BY <1>1, <1>3, <1>4

LEMMA TotalGrows ==
  ASSUME NEW S, IsFiniteSet(S), NEW e, NEW u, NEW f \in [S -> Nat], Reads(f, u, S),
         NEW v, NEW g \in [S -> Nat], Reads(g, v, S), OneMore(f, g, e, S)
  PROVE  Total(v, S) = IF e \in S THEN Total(u, S) + 1 ELSE Total(u, S)
<1>1. PICK h : Sums(f, S, h) /\ Total(u, S) = h[S]
  BY TotalSums
<1>2. PICK k : Sums(g, S, k) /\ Total(v, S) = k[S]
  BY TotalSums
<1> QED  BY <1>1, <1>2, SumsGrow

\* A table of natural numbers.
Table(u, A, C) == u \in [A -> [C -> Nat]]

\* v is u with one more at row a and column c, if that is one of the places R \X C.
OneUp(u, v, a, c, R, C) ==
  \A b \in R, d \in C : v[b][d] = IF b = a /\ d = c THEN u[b][d] + 1 ELSE u[b][d]

\* The sum over the rows R and the columns C of a table: a natural number, and
\* more by one when one of its numbers is.
LEMMA TableSum ==
  ASSUME NEW R, IsFiniteSet(R), NEW C, IsFiniteSet(C), NEW A, R \subseteq A,
         NEW u, Table(u, A, C)
  PROVE  Total(u, R \X C) \in Nat
<1> DEFINE f == [p \in R \X C |-> u[p[1]][p[2]]]
<1>1. IsFiniteSet(R \X C)
  BY FS_Product
<1>2. f \in [R \X C -> Nat] /\ Reads(f, u, R \X C)
  BY DEF Table, Reads
<1> HIDE DEF f
<1>3. PICK h : Sums(f, R \X C, h) /\ Total(u, R \X C) = h[R \X C]
  BY <1>1, <1>2, TotalSums
<1> QED  BY <1>1, <1>2, <1>3, SumsNatural

LEMMA TableSumGrows ==
  ASSUME NEW R, IsFiniteSet(R), NEW C, IsFiniteSet(C), NEW A, R \subseteq A,
         NEW u, Table(u, A, C), NEW a \in A, NEW c \in C,
         NEW v, Table(v, A, C), OneUp(u, v, a, c, R, C)
  PROVE  Total(v, R \X C) = IF a \in R THEN Total(u, R \X C) + 1 ELSE Total(u, R \X C)
<1>1. PICK S : S = R \X C
  OBVIOUS
<1>2. PICK e : e = <<a, c>>
  OBVIOUS
<1>3. IsFiniteSet(S)
  BY <1>1, FS_Product
<1>4. PICK f : f = [p \in S |-> u[p[1]][p[2]]]
  OBVIOUS
<1>5. PICK g : g = [p \in S |-> v[p[1]][p[2]]]
  OBVIOUS
<1>6. f \in [S -> Nat] /\ Reads(f, u, S)
  BY <1>1, <1>4 DEF Reads, Table
<1>7. g \in [S -> Nat] /\ Reads(g, v, S)
  BY <1>1, <1>5 DEF Reads, Table
<1>8. OneMore(f, g, e, S)
  BY <1>1, <1>2, <1>6, <1>7 DEF OneMore, Reads, OneUp
<1>9. Total(v, S) = IF e \in S THEN Total(u, S) + 1 ELSE Total(u, S)
  BY <1>3, <1>6, <1>7, <1>8, TotalGrows
<1> QED  BY <1>1, <1>2, <1>9

-----------------------------------------------------------------------------
(* Folds of sequences.                                                     *)

\* What holds of 0, and of each number up to n when it holds of the one before.
LEMMA UpTo ==
  ASSUME NEW n \in Nat, NEW P, 0 \in P, \A k \in 1 .. n : k - 1 \in P => k \in P
  PROVE  \A k \in 0 .. n : k \in P
<1> DEFINE Q == {k \in Nat : k <= n => k \in P}
<1>1. 0 \in Q
  OBVIOUS
<1>2. ASSUME NEW k \in Nat, k \in Q  PROVE k + 1 \in Q
  <2>1. CASE k + 1 <= n
    <3>1. k \in P /\ k + 1 \in 1 .. n /\ (k + 1) - 1 = k
      BY <1>2, <2>1
    <3> QED  BY <3>1
  <2> QED  BY <2>1
<1>3. Nat \subseteq Q
  <2> HIDE DEF Q
  <2> QED  BY <1>1, <1>2, NatInduct
<1> QED  BY <1>3

LEMMA MaxOf ==
  ASSUME NEW n \in Nat, NEW T \in SUBSET (1 .. n), T # {}
  PROVE  Max(T) \in T /\ \A x \in T : x <= Max(T)
<1> DEFINE Ends(S) == \E x \in S : \A y \in S : y <= x
           P == {m \in Nat : \A S \in SUBSET (1 .. m) : S # {} => Ends(S)}
<1>1. 0 \in P
  <2>1. 1 .. 0 = {}
    OBVIOUS
  <2> QED  BY <2>1
<1>2. ASSUME NEW m \in Nat, m \in P  PROVE m + 1 \in P
  <2> SUFFICES ASSUME NEW S \in SUBSET (1 .. m + 1), S # {}  PROVE Ends(S)
    OBVIOUS
  <2>1. CASE m + 1 \in S
    BY <2>1
  <2>2. CASE m + 1 \notin S
    <3>1. S \in SUBSET (1 .. m)
      BY <2>2
    <3> QED  BY <1>2, <3>1
  <2> QED  BY <2>1, <2>2
<1>3. Nat \subseteq P
  <2> HIDE DEF P
  <2> QED  BY <1>1, <1>2, NatInduct
<1>4. PICK x \in T : \A y \in T : y <= x
  BY <1>3
<1>5. \A y \in T : x >= y
  BY <1>4
<1> QED  BY <1>4, <1>5 DEF Max

LEMMA MaxIn ==
  ASSUME NEW X, NEW q \in Seq(X), NEW T \in SUBSET DOMAIN q, T # {}
  PROVE  q[Max(T)] \in X /\ T \ {Max(T)} \in SUBSET DOMAIN q
<1>1. Len(q) \in Nat /\ DOMAIN q = 1 .. Len(q)
  OBVIOUS
<1>2. Max(T) \in 1 .. Len(q)
  BY <1>1, MaxOf
<1> QED  BY <1>1, <1>2

\* How FoldLeft goes through a sequence q, from base, with an operation that is
\* the function g on the values V: h gives its result for each set of positions.
Iterates(h, V, g, base, q) ==
  /\ h[{}] = base
  /\ \A T \in SUBSET DOMAIN q : T # {} /\ h[T \ {Max(T)}] \in V =>
       h[T] = g[<<h[T \ {Max(T)}], q[Max(T)]>>]

\* There is such an h: the recursion of FoldLeft has a solution.
Folding(h, g, base, q) ==
  h = [T \in SUBSET DOMAIN q |-> IF T = {} THEN base ELSE g[<<h[T \ {Max(T)}], q[Max(T)]>>]]

LEMMA FoldingExists ==
  ASSUME NEW V, NEW X, NEW q \in Seq(X), NEW g \in [V \X X -> V], NEW base \in V
  PROVE  \E h \in [SUBSET DOMAIN q -> V] : Folding(h, g, base, q)
<1> DEFINE Is(m, h) == h = [T \in SUBSET (1 .. m) |->
                              IF T = {} THEN base ELSE g[<<h[T \ {Max(T)}], q[Max(T)]>>]]
           P == {m \in 0 .. Len(q) : \E h \in [SUBSET (1 .. m) -> V] : Is(m, h)}
<1>0. Len(q) \in Nat
  OBVIOUS
<1>1. 0 \in P
  <2>1. SUBSET (1 .. 0) = {{}}
    OBVIOUS
  <2> DEFINE h == [T \in SUBSET (1 .. 0) |-> base]
  <2>2. h \in [SUBSET (1 .. 0) -> V] /\ Is(0, h)
    BY <2>1
  <2> QED  BY <2>2
<1>2. ASSUME NEW m \in 1 .. Len(q), m - 1 \in P  PROVE m \in P
  <2>1. PICK h \in [SUBSET (1 .. m - 1) -> V] : Is(m - 1, h)
    BY <1>2
  <2>0. m \in Nat
    BY <1>0
  <2> DEFINE k == [T \in SUBSET (1 .. m) |->
                     IF m \in T THEN g[<<h[T \ {m}], q[m]>>] ELSE h[T]]
  <2>2. \A T \in SUBSET (1 .. m) : /\ m \in T => T \ {m} \in SUBSET (1 .. m - 1)
                                   /\ m \notin T => T \in SUBSET (1 .. m - 1)
    OBVIOUS
  <2>3. k \in [SUBSET (1 .. m) -> V]
    <3>1. q[m] \in X
      OBVIOUS
    <3> QED  BY <2>2, <3>1
  <2>4. ASSUME NEW T \in SUBSET (1 .. m)
        PROVE  k[T] = IF T = {} THEN base ELSE g[<<k[T \ {Max(T)}], q[Max(T)]>>]
    <3>1. CASE m \in T
      <4>1. Max(T) \in T /\ \A x \in T : x <= Max(T)
        BY <2>0, <3>1, MaxOf
      <4>2. Max(T) = m
        <5>1. Max(T) \in 1 .. m /\ m <= Max(T)
          BY <3>1, <4>1
        <5> QED  BY <2>0, <5>1
      <4>3. k[T] = g[<<h[T \ {m}], q[m]>>] /\ k[T \ {m}] = h[T \ {m}]
        BY <2>2, <3>1
      <4> QED  BY <3>1, <4>2, <4>3
    <3>2. CASE m \notin T /\ T # {}
      <4>1. T \in SUBSET (1 .. m - 1) /\ Max(T) \in T
        BY <2>0, <2>2, <3>2, MaxOf
      <4>2. h[T] = g[<<h[T \ {Max(T)}], q[Max(T)]>>]
        BY <2>1, <3>2, <4>1
      <4>3. k[T] = h[T] /\ k[T \ {Max(T)}] = h[T \ {Max(T)}]
        BY <3>2, <4>1
      <4> QED  BY <3>2, <4>2, <4>3
    <3>3. CASE T = {}
      <4>1. {} \in SUBSET (1 .. m - 1)
        OBVIOUS
      <4>2. h[{}] = base
        BY <2>1, <4>1
      <4> QED  BY <3>3, <4>2
    <3> QED  BY <3>1, <3>2, <3>3
  <2>5. Is(m, k)
    <3> DEFINE b == [T \in SUBSET (1 .. m) |->
                       IF T = {} THEN base ELSE g[<<k[T \ {Max(T)}], q[Max(T)]>>]]
    <3>1. \A T \in SUBSET (1 .. m) : k[T] = b[T]
      <4> HIDE DEF k
      <4> QED  BY <2>4
    <3> QED  BY <3>1
  <2> HIDE DEF Is, k
  <2> QED  BY <2>3, <2>5
<1>3. Len(q) \in P
  <2>1. PICK Q : Q = P
    OBVIOUS
  <2>2. 0 \in Q /\ \A m \in 1 .. Len(q) : m - 1 \in Q => m \in Q
    <3> HIDE DEF P
    <3> QED  BY <1>1, <1>2, <2>1
  <2>3. \A m \in 0 .. Len(q) : m \in Q
    BY <1>0, <2>2, UpTo
  <2>4. Len(q) \in Q
    BY <1>0, <2>3
  <2> QED  BY <2>1, <2>4
<1>4. DOMAIN q = 1 .. Len(q)
  OBVIOUS
<1> QED  BY <1>3, <1>4 DEF Folding

\* The results for the beginnings of q, one after the other.
Steps(F, V, g, base, q) ==
  /\ F \in [0 .. Len(q) -> V] /\ F[0] = base
  /\ \A k \in 1 .. Len(q) : F[k] = g[<<F[k - 1], q[k]>>]

LEMMA FoldSteps ==
  ASSUME NEW V, NEW X, NEW q \in Seq(X), NEW g \in [V \X X -> V], NEW base \in V,
         NEW h, Iterates(h, V, g, base, q)
  PROVE  \E F : /\ Steps(F, V, g, base, q) /\ h[DOMAIN q] = F[Len(q)]
                /\ \A k \in 1 .. Len(q) : F[k - 1] \in V /\ q[k] \in X
<1> DEFINE F == [k \in 0 .. Len(q) |-> h[1 .. k]]
           P == {k \in 0 .. Len(q) : F[k] \in V}
<1>0. Len(q) \in Nat
  OBVIOUS
<1>1. 0 \in P /\ F[0] = base
  <2>1. 1 .. 0 = {}
    OBVIOUS
  <2> QED  BY <2>1 DEF Iterates
<1>2. ASSUME NEW k \in 1 .. Len(q), k - 1 \in P
      PROVE  F[k] = g[<<F[k - 1], q[k]>>] /\ k \in P
  <2>1. PICK T : T = 1 .. k
    OBVIOUS
  <2>2. T \in SUBSET (1 .. Len(q)) /\ T # {} /\ DOMAIN q = 1 .. Len(q) /\ k \in T
    <3>1. k \in T /\ DOMAIN q = 1 .. Len(q)
      BY <2>1
    <3>2. \A j \in T : j \in 1 .. Len(q)
      BY <1>0, <2>1
    <3> QED  BY <3>1, <3>2
  <2>3. Max(T) \in T /\ \A x \in T : x <= Max(T)
    BY <1>0, <2>2, MaxOf
  <2>4. Max(T) = k /\ T \ {k} = 1 .. k - 1
    BY <2>1, <2>2, <2>3
  <2>5. h[1 .. k - 1] \in V
    BY <1>2
  <2>6. h[T] = g[<<h[1 .. k - 1], q[k]>>]
    BY <2>2, <2>4, <2>5 DEF Iterates
  <2>7. q[k] \in X
    OBVIOUS
  <2>8. F[k] = h[T] /\ F[k - 1] = h[1 .. k - 1]
    BY <2>1
  <2> HIDE DEF F
  <2> QED  BY <2>5, <2>6, <2>7, <2>8
<1>3. \A k \in 0 .. Len(q) : k \in P
  <2>1. PICK Q : Q = P
    OBVIOUS
  <2>2. 0 \in Q /\ \A k \in 1 .. Len(q) : k - 1 \in Q => k \in Q
    <3> HIDE DEF P
    <3> QED  BY <1>1, <1>2, <2>1
  <2>3. \A k \in 0 .. Len(q) : k \in Q
    BY <1>0, <2>2, UpTo
  <2> QED  BY <2>1, <2>3
<1>4. Steps(F, V, g, base, q)
  <2>1. F \in [0 .. Len(q) -> V]
    BY <1>3
  <2>2. \A k \in 1 .. Len(q) : k - 1 \in 0 .. Len(q)
    OBVIOUS
  <2> HIDE DEF F, P
  <2> QED  BY <1>1, <1>2, <1>3, <2>1, <2>2 DEF Steps
<1>5. h[DOMAIN q] = F[Len(q)]
  <2>1. DOMAIN q = 1 .. Len(q)
    OBVIOUS
  <2> QED  BY <2>1
<1>6. \A k \in 1 .. Len(q) : F[k - 1] \in V /\ q[k] \in X
  <2>1. \A k \in 1 .. Len(q) : k - 1 \in 0 .. Len(q) /\ q[k] \in X
    OBVIOUS
  <2> QED  BY <1>4, <2>1 DEF Steps
<1> QED  BY <1>4, <1>5, <1>6

=============================================================================
