-------------------------- MODULE CpAmmMathProofs --------------------------
(***************************************************************************)
(* Facts about the arithmetic of CpAmmMath: quotients rounded down and up, *)
(* sums over finite sets of accounts, and exact powers.  Products are      *)
(* opaque to the provers, so that each step that multiplies or divides is  *)
(* a lemma.                                                                *)
(***************************************************************************)
EXTENDS CpAmmMath, FiniteSetTheorems, TLAPS

-----------------------------------------------------------------------------
(* Quotients.                                                              *)

LEMMA DivBounds ==
    ASSUME NEW n \in Nat, NEW d \in Nat \ {0}
    PROVE  /\ n \div d \in Nat
           /\ (n \div d) * d <= n
           /\ n < (n \div d) * d + d
BY SMT

LEMMA Monotone ==
    ASSUME NEW x \in Int, NEW y \in Int, NEW d \in Nat, x <= y
    PROVE  x * d <= y * d
BY SMT

LEMMA Cancel ==
    ASSUME NEW x \in Int, NEW y \in Int, NEW d \in Nat, x * d < y * d
    PROVE  x < y
<1>1. CASE y <= x
  BY <1>1, Monotone
<1> QED
  BY <1>1

\* A quotient rounded up is the least number that covers the dividend.
LEMMA CeilBounds ==
    ASSUME NEW n \in Nat, NEW d \in Nat \ {0}
    PROVE  /\ CeilDiv(n, d) \in Nat
           /\ n <= CeilDiv(n, d) * d
           /\ CeilDiv(n, d) * d < n + d
<1> DEFINE c == (n + d - 1) \div d
<1>1. n + d - 1 \in Nat
  OBVIOUS
<1>2. c \in Nat /\ c * d <= n + d - 1 /\ n + d - 1 < c * d + d
  BY <1>1, DivBounds
<1> QED
  <2> c * d \in Int
    BY <1>2
  <2> HIDE DEF c
  <2> QED
    BY <1>2 DEF CeilDiv, c

LEMMA CeilIs ==
    ASSUME NEW n \in Nat, NEW d \in Nat \ {0}, NEW c \in Int,
           n <= c * d, c * d < n + d
    PROVE  CeilDiv(n, d) = c
<1> DEFINE k == CeilDiv(n, d)
<1>1. k \in Nat /\ n <= k * d /\ k * d < n + d
  BY CeilBounds
<1> HIDE DEF k
<1>2. (k + 1) * d = k * d + d /\ (c + 1) * d = c * d + d
  BY <1>1
<1>3. k * d \in Int /\ c * d \in Int /\ (k + 1) * d \in Int /\ (c + 1) * d \in Int
  BY <1>1
<1>4. c * d < (k + 1) * d /\ k * d < (c + 1) * d
  BY <1>1, <1>2, <1>3
<1>5. c < k + 1 /\ k < c + 1
  BY <1>1, <1>4, Cancel
<1>6. k = c
  BY <1>1, <1>5
<1> QED
  BY <1>6 DEF k

\* A quotient rounded down is the greatest number within the dividend, one
\* rounded up the least that covers it.
LEMMA DivAtLeast ==
    ASSUME NEW n \in Nat, NEW d \in Nat \ {0}, NEW k \in Int, k * d <= n
    PROVE  k <= n \div d
<1> DEFINE c == n \div d
<1>1. c \in Nat /\ n < c * d + d
  BY DivBounds
<1> HIDE DEF c
<1>2. (c + 1) * d = c * d + d /\ c * d \in Int /\ k * d \in Int
  BY <1>1
<1>3. k * d < (c + 1) * d
  BY <1>1, <1>2
<1>4. k < c + 1
  BY <1>1, <1>3, Cancel
<1> QED
  BY <1>1, <1>4 DEF c

LEMMA CeilAtMost ==
    ASSUME NEW n \in Nat, NEW d \in Nat \ {0}, NEW k \in Int, n <= k * d
    PROVE  CeilDiv(n, d) <= k
<1> DEFINE c == CeilDiv(n, d)
<1>1. c \in Nat /\ c * d < n + d
  BY CeilBounds
<1> HIDE DEF c
<1>2. (k + 1) * d = k * d + d /\ c * d \in Int /\ k * d \in Int
  BY <1>1
<1>3. c * d < (k + 1) * d
  BY <1>1, <1>2
<1>4. c < k + 1
  BY <1>1, <1>3, Cancel
<1> QED
  BY <1>1, <1>4 DEF c

\* Rounding down keeps the order.
LEMMA DivMonotone ==
    ASSUME NEW x \in Nat, NEW y \in Nat, NEW d \in Nat \ {0}, x <= y
    PROVE  x \div d <= y \div d
<1> DEFINE c == x \div d
<1>1. c \in Nat /\ c * d <= x
  BY DivBounds
<1> HIDE DEF c
<1>2. c * d <= y
  <2>1. c * d \in Int
    BY <1>1
  <2> QED
    BY <1>1, <2>1
<1>3. c <= y \div d
  BY <1>1, <1>2, DivAtLeast
<1> QED
  BY <1>3 DEF c

LEMMA CancelLe ==
    ASSUME NEW x \in Int, NEW y \in Int, NEW d \in Nat \ {0}, x * d <= y * d
    PROVE  x <= y
<1>1. CASE y < x
  <2>1. (y + 1) * d <= x * d
    BY <1>1, Monotone
  <2>2. (y + 1) * d = y * d + d /\ x * d \in Int /\ y * d \in Int
    OBVIOUS
  <2> QED
    BY <2>1, <2>2
<1> QED
  BY <1>1

\* A part of n given by a fraction of at most 1.
LEMMA PartOf ==
    ASSUME NEW n \in Nat, NEW d \in Nat \ {0}, NEW k \in 0 .. d
    PROVE  /\ (n * k) \div d \in 0 .. n
           /\ CeilDiv(n * k, d) \in 0 .. n
<1>1. n * k \in Nat /\ n * k <= n * d
  <2>1. k * n <= d * n
    BY Monotone
  <2>2. k * n = n * k /\ d * n = n * d
    OBVIOUS
  <2> QED
    BY <2>1, <2>2
<1>2. CeilDiv(n * k, d) \in Nat /\ CeilDiv(n * k, d) <= n
  BY <1>1, CeilBounds, CeilAtMost
<1> DEFINE c == (n * k) \div d
<1>3. c \in Nat /\ c * d <= n * k
  BY <1>1, DivBounds
<1> HIDE DEF c
<1>4. c * d <= n * d
  BY <1>1, <1>3
<1>5. c <= n
  BY <1>3, <1>4, CancelLe
<1> QED
  BY <1>2, <1>3, <1>5 DEF c

\* A fee of b/M is kept of an amount: the least amount of which a part of
\* what is left is left, computed backwards, is not above the first.
LEMMA LeastIsWithin ==
    ASSUME NEW M \in Nat \ {0}, NEW b \in 0 .. (M - 1), NEW a \in Nat, NEW part \in Nat,
           part <= a - CeilDiv(a * b, M)
    PROVE  CeilDiv(part * M, M - b) <= a
<1> DEFINE d == M - b
           kept == CeilDiv(a * b, M)
           raw == CeilDiv(part * M, d)
<1>0. d \in Nat \ {0} /\ a * b \in Nat /\ part * M \in Nat
  OBVIOUS
<1>1. kept \in Nat /\ a * b <= kept * M
  BY <1>0, CeilBounds
<1>2. raw \in Nat /\ raw * d < part * M + d
  BY <1>0, CeilBounds
<1> HIDE DEF raw
<1>3. kept <= a - part
  BY <1>1
<1> HIDE DEF kept
<1>4. kept * M <= (a - part) * M
  BY <1>1, <1>3, Monotone
<1>5. (a - part) * M = a * M - part * M /\ a * d = a * M - a * b
  OBVIOUS
<1>6. raw * d < (a + 1) * d
  <2>1. (a + 1) * d = a * d + d
    OBVIOUS
  <2>2. kept * M \in Int /\ a * M \in Int /\ raw * d \in Int
    BY <1>1, <1>2
  <2> QED
    BY <1>0, <1>1, <1>2, <1>4, <1>5, <2>1, <2>2
<1>7. raw < a + 1
  BY <1>0, <1>2, <1>6, Cancel
<1> QED
  BY <1>2, <1>7 DEF raw

-----------------------------------------------------------------------------
(* Induction over the subsets of a finite set.                             *)

LEMMA StrictSubsetsFinite ==
  ASSUME NEW S, IsFiniteSet(S)
  PROVE  IsWellFoundedOn(StrictSubsetOrdering(S), SUBSET S)
<1>1. FiniteSubsetsOf(S) = SUBSET S
  BY FS_FiniteSubsetsOfFinite, Zenon
<1>2. IsWellFoundedOn(StrictSubsetOrdering(S), FiniteSubsetsOf(S))
  BY FS_StrictSubsetOrderingWellFounded
<1> QED
  BY <1>1, <1>2

LEMMA LeastSubset ==
  ASSUME NEW S, IsFiniteSet(S), NEW Bad, Bad \subseteq SUBSET S, Bad # {}
  PROVE  \E T \in Bad : \A U \in Bad : ~ (<<U, T>> \in StrictSubsetOrdering(S))
<1>1. IsWellFoundedOn(StrictSubsetOrdering(S), SUBSET S)
  BY StrictSubsetsFinite
<1> QED
  BY <1>1, WFMin

\* What holds of a set as soon as it holds of all its proper subsets holds of
\* every finite set.
LEMMA SubsetInduction ==
  ASSUME NEW S, IsFiniteSet(S), NEW Good,
         \A T \in SUBSET S : (\A U \in SUBSET T : U # T => U \in Good) => T \in Good
  PROVE  S \in Good
<1> SUFFICES ASSUME S \notin Good PROVE FALSE
  OBVIOUS
<1>1. PICK Bad : Bad = {T \in SUBSET S : T \notin Good}
  OBVIOUS
<1>2. PICK T \in Bad : \A U \in Bad : ~ (<<U, T>> \in StrictSubsetOrdering(S))
  BY <1>1, LeastSubset
<1> QED
  BY <1>1, <1>2 DEF StrictSubsetOrdering

-----------------------------------------------------------------------------
(* The sum is well defined: the recursive function it is taken from exists. *)

Pick(S) == CHOOSE x \in S : TRUE
Sums(g, f, S) ==
    g = [T \in SUBSET S |-> IF T = {} THEN 0 ELSE f[Pick(T)] + g[T \ {Pick(T)}]]

LEMMA SumDef ==
  ASSUME NEW f, NEW S
  PROVE  Total(f, S) = (CHOOSE g : Sums(g, f, S))[S]
  BY DEF Total, SumFunctionOnSet, FoldFunctionOnSet, MapThenFoldSet, Sums, Pick

LEMMA SumsStep ==
  ASSUME NEW f, NEW S, NEW g, Sums(g, f, S), NEW T \in SUBSET S, T # {}
  PROVE  /\ Pick(T) \in T
         /\ g[T] = f[Pick(T)] + g[T \ {Pick(T)}]
  BY DEF Sums, Pick

LEMMA SumsEmpty ==
  ASSUME NEW f, NEW S, NEW g, Sums(g, f, S)
  PROVE  g[{}] = 0
  BY DEF Sums

LEMMA SumsUnique ==
  ASSUME NEW f, NEW R, NEW S, NEW g, NEW h, Sums(g, f, R), Sums(h, f, S),
         NEW T \in SUBSET R, T \in SUBSET S, IsFiniteSet(T)
  PROVE  g[T] = h[T]
<1>1. PICK Good : Good = {U \in SUBSET T : g[U] = h[U]}
  OBVIOUS
<1>2. ASSUME NEW U \in SUBSET T, \A V \in SUBSET U : V # U => V \in Good
      PROVE  U \in Good
  <2>1. CASE U = {}
    BY <1>1, <2>1, SumsEmpty
  <2>2. CASE U # {}
    <3>1. Pick(U) \in U
      BY <2>2 DEF Pick
    <3>2. g[U \ {Pick(U)}] = h[U \ {Pick(U)}]
      BY <1>1, <1>2, <3>1
    <3>3. g[U] = f[Pick(U)] + g[U \ {Pick(U)}] /\ h[U] = f[Pick(U)] + h[U \ {Pick(U)}]
      BY <2>2, SumsStep
    <3> QED
      BY <1>1, <3>2, <3>3
  <2> QED
    BY <2>1, <2>2
<1>3. T \in Good
  BY <1>2, SubsetInduction
<1> QED
  BY <1>1, <1>3

LEMMA SumsExist ==
  ASSUME NEW f, NEW S, IsFiniteSet(S)
  PROVE  \E g : Sums(g, f, S)
<1>1. PICK Good : Good = {T \in SUBSET S : \E g : Sums(g, f, T)}
  OBVIOUS
<1>2. ASSUME NEW T \in SUBSET S, \A U \in SUBSET T : U # T => U \in Good
      PROVE  T \in Good
  <2> DEFINE below(U) == CHOOSE g : Sums(g, f, U)
             value(U) == IF U = {} THEN 0
                         ELSE f[Pick(U)] + below(U \ {Pick(U)})[U \ {Pick(U)}]
             h == [U \in SUBSET T |-> IF U = T THEN value(T) ELSE below(U)[U]]
  <2>1. ASSUME NEW U \in SUBSET T, U # T
        PROVE  Sums(below(U), f, U)
    BY <1>1, <1>2, <2>1
  <2>2. ASSUME NEW U \in SUBSET T
        PROVE  h[U] = IF U = {} THEN 0 ELSE f[Pick(U)] + h[U \ {Pick(U)}]
    <3>1. CASE U = T
      <4>1. CASE U = {}
        BY <3>1, <4>1
      <4>2. CASE U # {}
        <5>1. Pick(U) \in U
          BY <4>2 DEF Pick
        <5>2. h[U \ {Pick(U)}] = below(U \ {Pick(U)})[U \ {Pick(U)}]
          BY <3>1, <5>1
        <5>3. h[U] = value(U)
          BY <3>1
        <5> QED
          BY <4>2, <5>2, <5>3
      <4> QED
        BY <4>1, <4>2
    <3>2. CASE U # T
      <4>1. Sums(below(U), f, U) /\ h[U] = below(U)[U]
        BY <2>1, <3>2
      <4>2. CASE U = {}
        <5> HIDE DEF below, h
        <5> QED
          BY <4>1, <4>2, SumsEmpty
      <4>3. CASE U # {}
        <5>1. Pick(U) \in U
          BY <4>3 DEF Pick
        <5> DEFINE V == U \ {Pick(U)}
        <5>2. V \in SUBSET T /\ V # T /\ V \in SUBSET U /\ V \in SUBSET V
          BY <5>1, <3>2
        <5>3. Sums(below(V), f, V) /\ h[V] = below(V)[V]
          BY <2>1, <5>2
        <5>4. IsFiniteSet(V)
          BY <5>2, FS_Subset
        <5> HIDE DEF below, h, V
        <5>5. below(V)[V] = below(U)[V]
          BY <4>1, <5>2, <5>3, <5>4, SumsUnique
        <5>6. below(U)[U] = f[Pick(U)] + below(U)[V]
          BY <4>1, <4>3, SumsStep DEF V
        <5> QED
          BY <4>1, <4>3, <5>3, <5>5, <5>6 DEF V
      <4> QED
        BY <4>2, <4>3
    <3> QED
      BY <3>1, <3>2
  <2>3. h = [U \in SUBSET T |-> h[U]]
    OBVIOUS
  <2>4. Sums(h, f, T)
    <3> HIDE DEF h
    <3> QED
      BY <2>2, <2>3 DEF Sums
  <2> QED
    BY <1>1, <2>4
<1>3. S \in Good
  BY <1>2, SubsetInduction
<1> QED
  BY <1>1, <1>3

-----------------------------------------------------------------------------
(* Sums over finite sets.                                                  *)

LEMMA SumEmpty == \A f : Total(f, {}) = 0
<1> TAKE f
<1>1. IsFiniteSet({})
  BY FS_EmptySet
<1>2. Sums(CHOOSE g : Sums(g, f, {}), f, {})
  BY <1>1, SumsExist
<1> QED
  BY <1>2, SumDef, SumsEmpty

LEMMA SumPick ==
  ASSUME NEW f, NEW S, IsFiniteSet(S), S # {}
  PROVE  /\ Pick(S) \in S
         /\ Total(f, S) = f[Pick(S)] + Total(f, S \ {Pick(S)})
<1> DEFINE g(T) == CHOOSE g : Sums(g, f, T)
           R == S \ {Pick(S)}
<1>1. Pick(S) \in S
  BY DEF Pick
<1>2. IsFiniteSet(R) /\ R \in SUBSET S /\ R \in SUBSET R /\ S \in SUBSET S
  BY FS_Subset
<1>3. Sums(g(S), f, S)
  BY SumsExist
<1>4. Sums(g(R), f, R)
  <2> HIDE DEF R
  <2> QED
    BY <1>2, SumsExist
<1>5. Total(f, S) = g(S)[S] /\ Total(f, R) = g(R)[R]
  BY SumDef
<1> HIDE DEF g
<1>6. g(S)[S] = f[Pick(S)] + g(S)[R]
  BY <1>2, <1>3, SumsStep
<1> HIDE DEF R
<1>7. g(S)[R] = g(R)[R]
  BY <1>2, <1>3, <1>4, SumsUnique
<1> QED
  BY <1>1, <1>5, <1>6, <1>7 DEF R

\* A sum of integers is one, and so is a sum of naturals a natural.
LEMMA SumInt ==
  ASSUME NEW f, NEW S, IsFiniteSet(S), \A x \in S : f[x] \in Int
  PROVE  Total(f, S) \in Int
<1>1. PICK Good : Good = {T \in SUBSET S : Total(f, T) \in Int}
  OBVIOUS
<1>2. ASSUME NEW T \in SUBSET S, \A U \in SUBSET T : U # T => U \in Good
      PROVE  T \in Good
  <2>1. IsFiniteSet(T)
    BY FS_Subset
  <2>2. CASE T = {}
    BY <1>1, <2>2, SumEmpty
  <2>3. CASE T # {}
    <3>1. Pick(T) \in T /\ Total(f, T) = f[Pick(T)] + Total(f, T \ {Pick(T)})
      BY <2>1, <2>3, SumPick
    <3>2. Total(f, T \ {Pick(T)}) \in Int
      BY <1>1, <1>2, <3>1
    <3> QED
      BY <1>1, <3>1, <3>2
  <2> QED
    BY <2>2, <2>3
<1>3. S \in Good
  BY <1>2, SubsetInduction
<1> QED
  BY <1>1, <1>3

\* The order in which the elements are added does not matter.
LEMMA SumRemove ==
  ASSUME NEW f, NEW S, IsFiniteSet(S), NEW x \in S, \A y \in S : f[y] \in Int
  PROVE  Total(f, S) = f[x] + Total(f, S \ {x})
<1>1. PICK Good : Good = {T \in SUBSET S :
                            \A y \in T : Total(f, T) = f[y] + Total(f, T \ {y})}
  OBVIOUS
<1>2. ASSUME NEW T \in SUBSET S, \A U \in SUBSET T : U # T => U \in Good
      PROVE  T \in Good
  <2> SUFFICES ASSUME NEW y \in T
               PROVE  Total(f, T) = f[y] + Total(f, T \ {y})
    BY <1>1
  <2> DEFINE z == Pick(T)
  <2>1. IsFiniteSet(T) /\ IsFiniteSet(T \ {y}) /\ IsFiniteSet((T \ {y}) \ {z})
    BY FS_Subset
  <2>2. z \in T /\ Total(f, T) = f[z] + Total(f, T \ {z})
    BY <2>1, SumPick
  <2> HIDE DEF z
  <2>3. CASE z = y
    BY <2>2, <2>3
  <2>4. CASE z # y
    <3>1. T \ {z} \in Good /\ y \in T \ {z} /\ T \ {y} \in Good /\ z \in T \ {y}
      BY <1>2, <2>2, <2>4
    <3>2. Total(f, T \ {z}) = f[y] + Total(f, (T \ {z}) \ {y})
      BY <1>1, <3>1
    <3>3. Total(f, T \ {y}) = f[z] + Total(f, (T \ {y}) \ {z})
      BY <1>1, <3>1
    <3>4. (T \ {z}) \ {y} = (T \ {y}) \ {z}
      OBVIOUS
    <3> DEFINE rest == Total(f, (T \ {y}) \ {z})
    <3>5. rest \in Int
      BY <2>1, SumInt
    <3>6. f[y] \in Int /\ f[z] \in Int
      BY <2>2
    <3>7. Total(f, T \ {z}) = f[y] + rest /\ Total(f, T \ {y}) = f[z] + rest
      BY <3>2, <3>3, <3>4
    <3> HIDE DEF rest
    <3>8. f[z] + (f[y] + rest) = f[y] + (f[z] + rest)
      BY <3>5, <3>6
    <3> QED
      BY <2>2, <3>7, <3>8
  <2> QED
    BY <2>3, <2>4
<1>3. S \in Good
  BY <1>2, SubsetInduction
<1> QED
  BY <1>1, <1>3

LEMMA SumInsert ==
  ASSUME NEW f, NEW S, IsFiniteSet(S), NEW x, x \notin S,
         \A y \in S \cup {x} : f[y] \in Int
  PROVE  Total(f, S \cup {x}) = f[x] + Total(f, S)
<1>1. IsFiniteSet(S \cup {x})
  BY FS_AddElement
<1>2. (S \cup {x}) \ {x} = S /\ x \in S \cup {x}
  OBVIOUS
<1> QED
  BY <1>1, <1>2, SumRemove

\* The sum of a sum.
LEMMA SumPlus ==
  ASSUME NEW f, NEW g, NEW h, NEW S, IsFiniteSet(S),
         \A x \in S : f[x] \in Int /\ g[x] \in Int /\ h[x] = f[x] + g[x]
  PROVE  Total(h, S) = Total(f, S) + Total(g, S)
<1>1. PICK Good : Good = {T \in SUBSET S : Total(h, T) = Total(f, T) + Total(g, T)}
  OBVIOUS
<1>2. ASSUME NEW T \in SUBSET S, \A U \in SUBSET T : U # T => U \in Good
      PROVE  T \in Good
  <2>1. IsFiniteSet(T)
    BY FS_Subset
  <2>2. CASE T = {}
    BY <1>1, <2>2, SumEmpty
  <2>3. CASE T # {}
    <3> DEFINE x == Pick(T)
               R == T \ {x}
    <3>1. /\ x \in T
          /\ Total(f, T) = f[x] + Total(f, R)
          /\ Total(g, T) = g[x] + Total(g, R)
          /\ Total(h, T) = h[x] + Total(h, R)
      BY <2>1, <2>3, SumPick
    <3>2. R \in Good
      BY <1>2, <3>1
    <3>3. IsFiniteSet(R)
      BY <2>1, FS_Subset
    <3>4. Total(f, R) \in Int /\ Total(g, R) \in Int
      BY <3>3, SumInt
    <3> HIDE DEF x, R
    <3> QED
      BY <1>1, <3>1, <3>2, <3>4
  <2> QED
    BY <2>2, <2>3
<1>3. S \in Good
  BY <1>2, SubsetInduction
<1> QED
  BY <1>1, <1>3

\* A common factor.
LEMMA SumTimes ==
  ASSUME NEW f, NEW h, NEW c \in Int, NEW S, IsFiniteSet(S),
         \A x \in S : f[x] \in Int /\ h[x] = f[x] * c
  PROVE  Total(h, S) = Total(f, S) * c
<1>1. PICK Good : Good = {T \in SUBSET S : Total(h, T) = Total(f, T) * c}
  OBVIOUS
<1>2. ASSUME NEW T \in SUBSET S, \A U \in SUBSET T : U # T => U \in Good
      PROVE  T \in Good
  <2>1. IsFiniteSet(T)
    BY FS_Subset
  <2>2. CASE T = {}
    BY <1>1, <2>2, SumEmpty
  <2>3. CASE T # {}
    <3> DEFINE x == Pick(T)
               R == T \ {x}
    <3>1. /\ x \in T
          /\ Total(f, T) = f[x] + Total(f, R)
          /\ Total(h, T) = h[x] + Total(h, R)
      BY <2>1, <2>3, SumPick
    <3>2. R \in Good
      BY <1>2, <3>1
    <3>3. IsFiniteSet(R)
      BY <2>1, FS_Subset
    <3>4. Total(f, R) \in Int /\ f[x] \in Int
      BY <3>1, <3>3, SumInt
    <3> HIDE DEF x, R
    <3>5. (f[x] + Total(f, R)) * c = f[x] * c + Total(f, R) * c
      BY <3>4
    <3> QED
      BY <1>1, <3>1, <3>2, <3>4, <3>5
  <2> QED
    BY <2>2, <2>3
<1>3. S \in Good
  BY <1>2, SubsetInduction
<1> QED
  BY <1>1, <1>3

\* A sum grows with its terms.
LEMMA SumLe ==
  ASSUME NEW f, NEW g, NEW S, IsFiniteSet(S),
         \A x \in S : f[x] \in Int /\ g[x] \in Int /\ f[x] <= g[x]
  PROVE  Total(f, S) <= Total(g, S)
<1>1. PICK Good : Good = {T \in SUBSET S : Total(f, T) <= Total(g, T)}
  OBVIOUS
<1>2. ASSUME NEW T \in SUBSET S, \A U \in SUBSET T : U # T => U \in Good
      PROVE  T \in Good
  <2>1. IsFiniteSet(T)
    BY FS_Subset
  <2>2. CASE T = {}
    BY <1>1, <2>2, SumEmpty
  <2>3. CASE T # {}
    <3> DEFINE x == Pick(T)
               R == T \ {x}
    <3>1. /\ x \in T
          /\ Total(f, T) = f[x] + Total(f, R)
          /\ Total(g, T) = g[x] + Total(g, R)
      BY <2>1, <2>3, SumPick
    <3>2. R \in Good
      BY <1>2, <3>1
    <3>3. IsFiniteSet(R)
      BY <2>1, FS_Subset
    <3>4. Total(f, R) \in Int /\ Total(g, R) \in Int
      BY <3>3, SumInt
    <3> HIDE DEF x, R
    <3> QED
      BY <1>1, <3>1, <3>2, <3>4
  <2> QED
    BY <2>2, <2>3
<1>3. S \in Good
  BY <1>2, SubsetInduction
<1> QED
  BY <1>1, <1>3

LEMMA SumNat ==
  ASSUME NEW f, NEW S, IsFiniteSet(S), \A x \in S : f[x] \in Nat
  PROVE  Total(f, S) \in Nat
<1>1. PICK Good : Good = {T \in SUBSET S : Total(f, T) \in Nat}
  OBVIOUS
<1>2. ASSUME NEW T \in SUBSET S, \A U \in SUBSET T : U # T => U \in Good
      PROVE  T \in Good
  <2>1. IsFiniteSet(T)
    BY FS_Subset
  <2>2. CASE T = {}
    BY <1>1, <2>2, SumEmpty
  <2>3. CASE T # {}
    <3>1. Pick(T) \in T /\ Total(f, T) = f[Pick(T)] + Total(f, T \ {Pick(T)})
      BY <2>1, <2>3, SumPick
    <3>2. Total(f, T \ {Pick(T)}) \in Nat
      BY <1>1, <1>2, <3>1
    <3> QED
      BY <1>1, <3>1, <3>2
  <2> QED
    BY <2>2, <2>3
<1>3. S \in Good
  BY <1>2, SubsetInduction
<1> QED
  BY <1>1, <1>3

\* A sum depends only on its terms.
LEMMA SumEq ==
  ASSUME NEW f, NEW g, NEW S, IsFiniteSet(S),
         \A x \in S : f[x] \in Int /\ g[x] = f[x]
  PROVE  Total(g, S) = Total(f, S)
<1>1. Total(f, S) \in Int /\ Total(g, S) \in Int
  BY SumInt
<1>2. Total(f, S) <= Total(g, S)
  BY SumLe
<1>3. Total(g, S) <= Total(f, S)
  BY SumLe
<1> QED
  BY <1>1, <1>2, <1>3

LEMMA SumZero ==
  ASSUME NEW f, NEW S, IsFiniteSet(S), \A x \in S : f[x] = 0
  PROVE  Total(f, S) = 0
<1>1. Total(f, S) = Total(f, S) * 0
  BY SumTimes
<1>2. Total(f, S) \in Int
  BY SumInt
<1> QED
  BY <1>1, <1>2

\* One term changes.
LEMMA SumOne ==
  ASSUME NEW f, NEW g, NEW S, IsFiniteSet(S), NEW x \in S, g[x] \in Int,
         \A y \in S : f[y] \in Int /\ (y # x => g[y] = f[y])
  PROVE  /\ Total(f, S) \in Int /\ Total(g, S) \in Int
         /\ Total(g, S) = Total(f, S) + (g[x] - f[x])
<1>1. /\ Total(f, S) = f[x] + Total(f, S \ {x})
      /\ Total(g, S) = g[x] + Total(g, S \ {x})
  BY SumRemove
<1>2. IsFiniteSet(S \ {x})
  BY FS_Subset
<1>3. Total(g, S \ {x}) = Total(f, S \ {x})
  BY <1>2, SumEq
<1>4. Total(f, S \ {x}) \in Int
  BY <1>2, SumInt
<1> QED
  BY <1>1, <1>3, <1>4

\* Two terms change.
LEMMA SumTwo ==
  ASSUME NEW f, NEW g, NEW S, IsFiniteSet(S), NEW x \in S, NEW y \in S, x # y,
         g[x] \in Int, g[y] \in Int,
         \A z \in S : f[z] \in Int /\ (z \notin {x, y} => g[z] = f[z])
  PROVE  /\ Total(f, S) \in Int /\ Total(g, S) \in Int
         /\ Total(g, S) = Total(f, S) + (g[x] - f[x]) + (g[y] - f[y])
<1>1. /\ Total(f, S) = f[x] + Total(f, S \ {x})
      /\ Total(g, S) = g[x] + Total(g, S \ {x})
  BY SumRemove
<1>2. IsFiniteSet(S \ {x}) /\ y \in S \ {x}
  BY FS_Subset
<1>3. /\ Total(f, S \ {x}) \in Int
      /\ Total(g, S \ {x}) = Total(f, S \ {x}) + (g[y] - f[y])
  BY <1>2, SumOne
<1> QED
  BY <1>1, <1>3

\* A term of a sum of naturals.
LEMMA SumTerm ==
  ASSUME NEW f, NEW S, IsFiniteSet(S), NEW x \in S, \A y \in S : f[y] \in Nat
  PROVE  f[x] <= Total(f, S)
<1>1. Total(f, S) = f[x] + Total(f, S \ {x})
  BY SumRemove
<1>2. IsFiniteSet(S \ {x})
  BY FS_Subset
<1>3. Total(f, S \ {x}) \in Nat
  BY <1>2, SumNat
<1> QED
  BY <1>1, <1>3

\* Terms that are zero may be left out.
LEMMA SumSupport ==
  ASSUME NEW f, NEW S, IsFiniteSet(S), NEW R \in SUBSET S,
         \A x \in S : f[x] \in Int /\ (x \notin R => f[x] = 0)
  PROVE  Total(f, S) = Total(f, R)
<1>1. PICK Good : Good = {T \in SUBSET S : Total(f, T) = Total(f, T \cap R)}
  OBVIOUS
<1>2. ASSUME NEW T \in SUBSET S, \A U \in SUBSET T : U # T => U \in Good
      PROVE  T \in Good
  <2>1. IsFiniteSet(T)
    BY FS_Subset
  <2>2. CASE T \subseteq R
    <3>1. T \cap R = T
      BY <2>2
    <3> QED
      BY <1>1, <3>1
  <2>3. ASSUME NEW x \in T, x \notin R
        PROVE  T \in Good
    <3>1. Total(f, T) = f[x] + Total(f, T \ {x})
      BY <2>1, SumRemove
    <3>2. T \ {x} \in SUBSET T /\ T \ {x} # T
      OBVIOUS
    <3>3. Total(f, T \ {x}) = Total(f, (T \ {x}) \cap R)
      BY <1>1, <1>2, <3>2
    <3>4. (T \ {x}) \cap R = T \cap R
      BY <2>3
    <3>5. IsFiniteSet(T \ {x})
      BY <2>1, FS_Subset
    <3>6. Total(f, T \ {x}) \in Int
      BY <3>5, SumInt
    <3>7. f[x] = 0
      BY <2>3
    <3>8. Total(f, T) = Total(f, T \ {x})
      BY <3>1, <3>6, <3>7
    <3>9. Total(f, T) = Total(f, T \cap R)
      BY <3>3, <3>4, <3>8, Zenon
    <3> QED
      BY <1>1, <3>9
  <2> QED
    BY <2>2, <2>3
<1>3. S \in Good
  BY <1>2, SubsetInduction
<1>4. S \cap R = R
  OBVIOUS
<1> QED
  BY <1>1, <1>3, <1>4

-----------------------------------------------------------------------------
(* Remainders, and induction.                                              *)

LEMMA Division ==
    ASSUME NEW n \in Nat, NEW d \in Nat \ {0}
    PROVE  /\ n \div d \in Nat /\ n % d \in 0 .. d - 1
           /\ n = (n \div d) * d + (n % d)
<1>1. n \div d \in Nat /\ (n \div d) * d <= n /\ n < (n \div d) * d + d
  BY DivBounds
<1>2. n % d = n - (n \div d) * d
  OBVIOUS
<1>3. (n \div d) * d \in Int
  BY <1>1
<1> QED
  BY <1>1, <1>2, <1>3

LEMMA DivisionIs ==
    ASSUME NEW n \in Nat, NEW d \in Nat \ {0}, NEW q \in Nat, NEW r \in 0 .. d - 1,
           n = q * d + r
    PROVE  n \div d = q /\ n % d = r
<1> DEFINE k == n \div d
           s == n % d
<1>1. k \in Nat /\ s \in 0 .. d - 1 /\ n = k * d + s
  BY Division
<1> HIDE DEF k, s
<1>2. (k + 1) * d = k * d + d /\ (q + 1) * d = q * d + d
  BY <1>1
<1>3. k * d \in Int /\ q * d \in Int
  BY <1>1
<1>4. k * d < (q + 1) * d /\ q * d < (k + 1) * d
  BY <1>1, <1>2, <1>3
<1>5. k < q + 1 /\ q < k + 1
  BY <1>1, <1>4, Cancel
<1>6. k = q
  BY <1>1, <1>5
<1>7. s = r
  BY <1>1, <1>3, <1>6
<1> QED
  BY <1>6, <1>7 DEF k, s

\* What holds of 0, and of every number that follows one of which it holds,
\* holds of all natural numbers.
LEMMA NaturalInduction ==
    ASSUME NEW Good, 0 \in Good, \A n \in Nat : n \in Good => n + 1 \in Good
    PROVE  Nat \subseteq Good
<1> SUFFICES ASSUME ~ Nat \subseteq Good PROVE FALSE
  OBVIOUS
<1>1. PICK Bad : Bad = {n \in Nat : n \notin Good}
  OBVIOUS
<1>2. Bad \subseteq Nat /\ Bad # {}
  BY <1>1
<1>3. PICK n \in Bad : \A k \in Bad : ~ (<<k, n>> \in OpToRel(<, Nat))
  BY <1>2, NatLessThanWellFounded, WFMin, Zenon
<1>4. n \in Nat /\ \A k \in Bad : ~ (k < n)
  BY <1>1, <1>3, Zenon DEF OpToRel
<1>5. n # 0
  BY <1>1
<1>6. n - 1 \in Nat /\ n - 1 < n /\ (n - 1) + 1 = n
  BY <1>4, <1>5
<1>7. n - 1 \in Good
  BY <1>1, <1>4, <1>6
<1> QED
  BY <1>1, <1>6, <1>7

-----------------------------------------------------------------------------
(* Exact powers.                                                           *)

Powers(g, x, n) == g = [k \in 0 .. n |-> IF k = 0 THEN 1 ELSE x * g[k - 1]]

LEMMA PowerDef ==
    ASSUME NEW x, NEW n
    PROVE  Power(x, n) = (CHOOSE g : Powers(g, x, n))[n]
BY DEF Power, Powers

LEMMA PowersFirst ==
    ASSUME NEW x, NEW n \in Nat, NEW g, Powers(g, x, n)
    PROVE  g[0] = 1
BY DEF Powers

LEMMA PowersNext ==
    ASSUME NEW x, NEW n \in Nat, NEW g, Powers(g, x, n), NEW k \in Nat, k + 1 <= n
    PROVE  g[k + 1] = x * g[k]
<1>1. k + 1 \in 0 .. n /\ k + 1 # 0 /\ (k + 1) - 1 = k
  OBVIOUS
<1> QED
  BY <1>1 DEF Powers

LEMMA PowersExist ==
    ASSUME NEW x, NEW n \in Nat
    PROVE  \E g : Powers(g, x, n)
<1>1. PICK Good : Good = {k \in Nat : \E g : Powers(g, x, k)}
  OBVIOUS
<1>2. 0 \in Good
  <2> DEFINE g == [k \in 0 .. 0 |-> 1]
  <2>1. g = [k \in 0 .. 0 |-> IF k = 0 THEN 1 ELSE x * g[k - 1]]
    OBVIOUS
  <2> HIDE DEF g
  <2>2. Powers(g, x, 0)
    BY <2>1 DEF Powers
  <2> QED
    BY <1>1, <2>2
<1>3. ASSUME NEW k \in Nat, k \in Good PROVE k + 1 \in Good
  <2>1. PICK g : Powers(g, x, k)
    BY <1>1, <1>3
  <2> DEFINE h == [j \in 0 .. k + 1 |-> IF j <= k THEN g[j] ELSE x * g[k]]
  <2>2. ASSUME NEW j \in 0 .. k + 1
        PROVE  h[j] = IF j = 0 THEN 1 ELSE x * h[j - 1]
    <3>1. CASE j = 0
      <4>1. g[0] = 1
        BY <2>1, PowersFirst
      <4> QED
        BY <3>1, <4>1
    <3>2. CASE j # 0
      <4>1. j - 1 \in Nat /\ j - 1 \in 0 .. k + 1 /\ j - 1 <= k /\ (j - 1) + 1 = j
        BY <3>2
      <4>2. h[j - 1] = g[j - 1]
        BY <4>1
      <4>3. CASE j <= k
        <5>1. g[(j - 1) + 1] = x * g[j - 1]
          <6>1. (j - 1) + 1 <= k
            BY <4>1, <4>3
          <6> QED
            BY <2>1, <4>1, <6>1, PowersNext
        <5> QED
          BY <3>2, <4>1, <4>2, <4>3, <5>1
      <4>4. CASE ~ j <= k
        <5>1. j - 1 = k /\ h[j] = x * g[k]
          BY <4>1, <4>4
        <5> QED
          BY <3>2, <4>2, <5>1
      <4> QED
        BY <4>3, <4>4
    <3> QED
      BY <3>1, <3>2
  <2>3. h = [j \in 0 .. k + 1 |-> h[j]]
    OBVIOUS
  <2> HIDE DEF h
  <2>4. Powers(h, x, k + 1)
    BY <2>2, <2>3 DEF Powers
  <2> QED
    BY <1>1, <2>4
<1>4. Nat \subseteq Good
  BY <1>2, <1>3, NaturalInduction
<1> QED
  BY <1>1, <1>4

LEMMA PowersAgree ==
    ASSUME NEW x, NEW m \in Nat, NEW n \in Nat, m <= n,
           NEW g, Powers(g, x, m), NEW h, Powers(h, x, n)
    PROVE  g[m] = h[m]
<1>1. PICK Good : Good = {k \in Nat : k <= m => g[k] = h[k]}
  OBVIOUS
<1>2. 0 \in Good
  <2>1. g[0] = 1 /\ h[0] = 1
    BY PowersFirst
  <2> QED
    BY <1>1, <2>1
<1>3. ASSUME NEW k \in Nat, k \in Good PROVE k + 1 \in Good
  <2> SUFFICES ASSUME k + 1 <= m PROVE g[k + 1] = h[k + 1]
    BY <1>1
  <2>1. g[k + 1] = x * g[k] /\ h[k + 1] = x * h[k]
    <3>1. k + 1 <= n
      OBVIOUS
    <3> QED
      BY <3>1, PowersNext
  <2>2. g[k] = h[k]
    BY <1>1, <1>3
  <2> QED
    BY <2>1, <2>2
<1>4. Nat \subseteq Good
  BY <1>2, <1>3, NaturalInduction
<1> QED
  BY <1>1, <1>4

LEMMA PowerSteps ==
    ASSUME NEW x
    PROVE  /\ Power(x, 0) = 1
           /\ \A n \in Nat : Power(x, n + 1) = x * Power(x, n)
<1> DEFINE g(n) == CHOOSE g : Powers(g, x, n)
<1>1. \A n \in Nat : Powers(g(n), x, n)
  BY PowersExist
<1>2. \A n \in Nat : Power(x, n) = g(n)[n]
  BY PowerDef
<1> HIDE DEF g
<1>3. Power(x, 0) = 1
  BY <1>1, <1>2, PowersFirst
<1>4. ASSUME NEW n \in Nat PROVE Power(x, n + 1) = x * Power(x, n)
  <2>1. Powers(g(n), x, n) /\ Powers(g(n + 1), x, n + 1)
    BY <1>1
  <2>2. g(n + 1)[n + 1] = x * g(n + 1)[n]
    BY <2>1, PowersNext
  <2>3. g(n)[n] = g(n + 1)[n]
    BY <2>1, PowersAgree
  <2> QED
    BY <1>2, <2>2, <2>3
<1> QED
  BY <1>3, <1>4

LEMMA PowerNat ==
    ASSUME NEW x \in Nat, NEW y \in Nat, x <= y, NEW n \in Nat
    PROVE  /\ Power(x, n) \in Nat /\ Power(x, n) <= Power(y, n)
           /\ x # 0 => Power(x, n) # 0
<1> DEFINE Holds(k) == /\ Power(x, k) \in Nat /\ Power(y, k) \in Nat
                       /\ Power(x, k) <= Power(y, k)
                       /\ x # 0 => Power(x, k) # 0
<1>1. PICK Good : Good = {k \in Nat : Holds(k)}
  OBVIOUS
<1>2. 0 \in Good
  <2>1. Power(x, 0) = 1 /\ Power(y, 0) = 1
    BY PowerSteps
  <2> QED
    BY <1>1, <2>1
<1>3. ASSUME NEW k \in Nat, k \in Good PROVE k + 1 \in Good
  <2> DEFINE p == Power(x, k)
             q == Power(y, k)
  <2>1. Power(x, k + 1) = x * p /\ Power(y, k + 1) = y * q
    BY PowerSteps
  <2>2. p \in Nat /\ q \in Nat /\ p <= q /\ (x # 0 => p # 0)
    BY <1>1, <1>3
  <2> HIDE DEF p, q
  <2>3. x * p \in Nat /\ y * q \in Nat
    BY <2>2
  <2>4. x * p <= y * q
    <3>1. x * p <= y * p
      BY <2>2, Monotone
    <3>2. p * y <= q * y /\ p * y = y * p /\ q * y = y * q
      BY <2>2, Monotone
    <3> QED
      BY <2>2, <2>3, <3>1, <3>2
  <2>5. x # 0 => x * p # 0
    BY <2>2
  <2>6. Holds(k + 1)
    BY <2>1, <2>3, <2>4, <2>5
  <2> HIDE DEF Holds
  <2> QED
    BY <1>1, <2>6
<1>4. Nat \subseteq Good
  BY <1>2, <1>3, NaturalInduction
<1> QED
  BY <1>1, <1>4

LEMMA PowerPlus ==
    ASSUME NEW x \in Nat, NEW m \in Nat, NEW n \in Nat
    PROVE  Power(x, m + n) = Power(x, m) * Power(x, n)
<1> DEFINE p == Power(x, m)
<1>1. p \in Nat /\ \A k \in Nat : Power(x, k) \in Nat
  <2>1. x <= x
    OBVIOUS
  <2> QED
    BY <2>1, PowerNat
<1>2. PICK Good : Good = {k \in Nat : Power(x, m + k) = p * Power(x, k)}
  OBVIOUS
<1>3. 0 \in Good
  <2>1. Power(x, 0) = 1 /\ m + 0 = m
    BY PowerSteps
  <2>2. p * 1 = p
    BY <1>1
  <2> QED
    BY <1>2, <2>1, <2>2
<1>4. ASSUME NEW k \in Nat, k \in Good PROVE k + 1 \in Good
  <2> DEFINE q == Power(x, k)
  <2>1. Power(x, k + 1) = x * q
    BY PowerSteps
  <2>2. Power(x, m + (k + 1)) = x * Power(x, m + k)
    <3>1. m + (k + 1) = (m + k) + 1 /\ m + k \in Nat
      OBVIOUS
    <3> QED
      BY <3>1, PowerSteps
  <2>3. Power(x, m + k) = p * q
    BY <1>2, <1>4
  <2>4. x * (p * q) = p * (x * q)
    <3>1. p \in Nat /\ q \in Nat
      BY <1>1
    <3> HIDE DEF p, q
    <3> QED
      BY <3>1
  <2> HIDE DEF p, q
  <2>5. Power(x, m + (k + 1)) = p * Power(x, k + 1)
    BY <2>1, <2>2, <2>3, <2>4
  <2> QED
    BY <1>2, <2>5
<1> HIDE DEF p
<1>5. Nat \subseteq Good
  BY <1>3, <1>4, NaturalInduction
<1> QED
  BY <1>2, <1>5 DEF p

LEMMA PowerOfFour ==
    ASSUME NEW n \in Nat
    PROVE  /\ Power(2, n) \in Nat \ {0}
           /\ Power(4, n) = Power(2, n) * Power(2, n)
<1>1. \A k \in Nat : Power(2, k) \in Nat \ {0}
  BY PowerNat
<1>2. PICK Good : Good = {k \in Nat : Power(4, k) = Power(2, k) * Power(2, k)}
  OBVIOUS
<1>3. 0 \in Good
  BY <1>2, PowerSteps
<1>4. ASSUME NEW k \in Nat, k \in Good PROVE k + 1 \in Good
  <2> DEFINE h == Power(2, k)
             b == h * h
  <2>1. h \in Nat /\ Power(4, k) = b
    BY <1>1, <1>2, <1>4
  <2>2. Power(4, k + 1) = 4 * b /\ Power(2, k + 1) = 2 * h
    BY <2>1, PowerSteps
  <2>3. Power(4, k + 1) = Power(2, k + 1) * Power(2, k + 1)
    <3> HIDE DEF h
    <3>1. (2 * h) * (2 * h) = 4 * b
      BY <2>1
    <3> QED
      BY <2>2, <3>1
  <2> QED
    BY <1>2, <2>3
<1>5. Nat \subseteq Good
  BY <1>3, <1>4, NaturalInduction
<1> QED
  BY <1>1, <1>2, <1>5
=============================================================================
