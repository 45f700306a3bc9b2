--------------------------- MODULE RecommenderProofs ---------------------------
(***************************************************************************)
(* What rankUsers answers, for any users, documents, words, length of the  *)
(* answer and any weights that fall with the number of holders, while the  *)
(* import script moves users.                                              *)
(*                                                                         *)
(* The loops of the code are folds, defined by CHOOSE: each is shown to    *)
(* be what it should by looking at a smallest set of which that is wrong.  *)
(* documentFrequency counts the holders of a token (FrequencyCounts), Dot  *)
(* is positive just if a token is shared (DotPositive) and bounded by the  *)
(* norms (DotBound, after Cauchy and Schwarz).                             *)
(*                                                                         *)
(* The invariant follows the profiles: there is one of each user (Distinct)*)
(* with the tokens of a document it had since the query (ReadFromHeld),    *)
(* and the answer is a prefix of the others as sorted (Answered).  Each    *)
(* property of an answer is then a fact about that ranking.                *)
(***************************************************************************)
EXTENDS Recommender, FiniteSetTheorems, SequenceTheorems, TLAPS

\* Every non-empty set of natural numbers has a least element.
LEMMA LeastElement ==
  ASSUME NEW T \in SUBSET Nat, T # {}
  PROVE  \E m \in T : \A k \in T : m <= k
<1>1. PICK m \in T : \A k \in T : ~(<<k, m>> \in OpToRel(<, Nat))
  BY WFMin, NatLessThanWellFounded
<1>2. ASSUME NEW k \in T PROVE m <= k
  <2>1. <<k, m>> \in Nat \X Nat /\ k \in Nat /\ m \in Nat
    OBVIOUS
  <2>2. ~(k < m)
    BY <1>1, <2>1 DEF OpToRel
  <2>3. QED  BY <2>1, <2>2
<1>3. QED  BY <1>2

\* Every non-empty set of subsets of a finite set has a minimal element.
LEMMA MinimalSubset ==
  ASSUME NEW S, IsFiniteSet(S), NEW C \in SUBSET (SUBSET S), C # {}
  PROVE  \E T \in C : \A U \in C : U \subseteq T => U = T
<1>1. IsWellFoundedOn(StrictSubsetOrdering(S), FiniteSubsetsOf(S))
  BY FS_StrictSubsetOrderingWellFounded
<1>2. C \subseteq FiniteSubsetsOf(S)
  BY FS_FiniteSubsetsOfFinite
<1>3. PICK T \in C : \A U \in C : ~(<<U, T>> \in StrictSubsetOrdering(S))
  BY <1>1, <1>2, WFMin
<1>4. QED  BY <1>3 DEF StrictSubsetOrdering

-----------------------------------------------------------------------------
(* Sums of products.                                                       *)

\* The element that a sum over a set takes next.
APick(s) == CHOOSE x \in s : TRUE

\* f has the sum of the products over each set of D, taken one by one.
Totals(f, a, b, D) ==
  f = [s \in D |-> IF s = {} THEN 0
                   ELSE a[APick(s)] * b[APick(s)] + f[s \ {APick(s)}]]

\* Dot is such a sum, over the tokens that both vectors have.
LEMMA DotIsTotal ==
  ASSUME NEW a, NEW b, NEW D, D = DOMAIN a \cap DOMAIN b
  PROVE  Dot(a, b) = (CHOOSE f : Totals(f, a, b, SUBSET D))[D]
BY DEF Dot, MapThenSumSet, MapThenFoldSet, Totals, APick

\* The subsets of S of at most n elements.
UpTo(S, n) == {s \in SUBSET S : Cardinality(s) <= n}

\* The recursion of a sum over a finite set has a solution.
LEMMA TotalsExist ==
  ASSUME NEW a, NEW b, NEW S, IsFiniteSet(S)
  PROVE  \E f : Totals(f, a, b, SUBSET S)
<1> DEFINE Bad == {n \in Nat : ~ \E f : Totals(f, a, b, UpTo(S, n))}
<1>1. \A s \in SUBSET S : IsFiniteSet(s) /\ Cardinality(s) \in Nat
                           /\ Cardinality(s) <= Cardinality(S)
  BY FS_Subset, FS_CardinalityType
<1>2. \A s \in SUBSET S : s # {} =>
        /\ APick(s) \in s /\ s \ {APick(s)} \in SUBSET S
        /\ Cardinality(s \ {APick(s)}) = Cardinality(s) - 1
  BY <1>1, FS_RemoveElement DEF APick
<1>3. 0 \notin Bad
  <2>1. \A s \in UpTo(S, 0) : s = {}
    BY <1>1, FS_EmptySet DEF UpTo
  <2>2. Totals([s \in UpTo(S, 0) |-> 0], a, b, UpTo(S, 0))
    BY <2>1 DEF Totals
  <2>3. QED  BY <2>2
<1>4. ASSUME NEW n \in Nat, n \notin Bad PROVE n + 1 \notin Bad
  <2>1. PICK f : Totals(f, a, b, UpTo(S, n))
    BY <1>4
  <2> DEFINE g == [s \in UpTo(S, n + 1) |->
                     IF s = {} THEN 0
                     ELSE a[APick(s)] * b[APick(s)] + f[s \ {APick(s)}]]
  <2>2. ASSUME NEW s \in UpTo(S, n)
        PROVE  s \in UpTo(S, n + 1) /\ g[s] = f[s]
    <3>1. s \in UpTo(S, n + 1)
      BY <1>1 DEF UpTo
    <3>2. QED  BY <2>1, <3>1 DEF Totals
  <2>3. \A s \in UpTo(S, n + 1) : s # {} => s \ {APick(s)} \in UpTo(S, n)
    BY <1>1, <1>2 DEF UpTo
  <2>4. Totals(g, a, b, UpTo(S, n + 1))
    BY <2>2, <2>3 DEF Totals
  <2>5. QED  BY <2>4
<1>5. Bad = {}
  <2>1. SUFFICES ASSUME Bad # {} PROVE FALSE
    OBVIOUS
  <2>2. PICK m \in Bad : \A k \in Bad : m <= k
    BY <2>1, LeastElement
  <2>3. m - 1 \in Nat /\ m - 1 \notin Bad /\ m \in Nat
    BY <1>3, <2>2
  <2>4. m - 1 + 1 \notin Bad
    BY <1>4, <2>3
  <2>5. QED  BY <2>2, <2>3, <2>4
<1>6. UpTo(S, Cardinality(S)) = SUBSET S /\ Cardinality(S) \in Nat
  BY <1>1 DEF UpTo
<1>7. \E f : Totals(f, a, b, UpTo(S, Cardinality(S)))
  BY <1>5, <1>6
<1>8. QED  BY <1>6, <1>7

\* What the solution is: a sum of natural numbers, in any order.
IsSum(f, a, b, S) ==
  /\ f \in [SUBSET S -> Nat] /\ f[{}] = 0
  /\ \A s \in SUBSET S : \A y \in s : f[s] = a[y] * b[y] + f[s \ {y}]

\* The products over S are natural numbers.
Summable(a, b, S) == IsFiniteSet(S) /\ \A x \in S : a[x] * b[x] \in Nat

\* Sums of natural numbers are natural numbers.
LEMMA TotalNat ==
  ASSUME NEW a, NEW b, NEW S, Summable(a, b, S),
         NEW f, Totals(f, a, b, SUBSET S)
  PROVE  /\ f \in [SUBSET S -> Nat] /\ f[{}] = 0
<1>0. IsFiniteSet(S) /\ \A x \in S : a[x] * b[x] \in Nat
  BY DEF Summable
<1> DEFINE Bad == {s \in SUBSET S : f[s] \notin Nat}
<1>1. f[{}] = 0 /\ DOMAIN f = SUBSET S
  BY DEF Totals
<1>2. \A s \in SUBSET S : s # {} =>
        /\ APick(s) \in s /\ s \ {APick(s)} \in SUBSET S
        /\ f[s] = a[APick(s)] * b[APick(s)] + f[s \ {APick(s)}]
  BY DEF Totals, APick
<1>3. Bad = {}
  <2>1. SUFFICES ASSUME Bad # {} PROVE FALSE
    OBVIOUS
  <2>2. PICK s \in Bad : \A u \in Bad : u \subseteq s => u = s
    <3>1. Bad \in SUBSET (SUBSET S)
      OBVIOUS
    <3> HIDE DEF Bad
    <3>2. QED  BY <1>0, <2>1, <3>1, MinimalSubset
  <2>3. s # {} /\ s \in SUBSET S
    <3>1. f[s] \notin Nat /\ f[{}] \in Nat
      BY <1>1
    <3>2. QED  BY <3>1
  <2>4. s \ {APick(s)} \notin Bad /\ APick(s) \in S
    BY <1>2, <2>2, <2>3
  <2>5. f[s \ {APick(s)}] \in Nat /\ a[APick(s)] * b[APick(s)] \in Nat
    BY <1>0, <1>2, <2>3, <2>4
  <2>6. f[s] \in Nat
    <3>1. f[s] = a[APick(s)] * b[APick(s)] + f[s \ {APick(s)}]
      BY <1>2, <2>3
    <3>2. QED  BY <2>5, <3>1
  <2>7. QED  BY <2>6
<1>4. f = [s \in SUBSET S |-> f[s]]
  BY DEF Totals
<1>5. QED  BY <1>1, <1>3, <1>4

\* The order in which a sum is taken does not matter.
LEMMA TotalIsSum ==
  ASSUME NEW a, NEW b, NEW S, Summable(a, b, S),
         NEW f, Totals(f, a, b, SUBSET S)
  PROVE  IsSum(f, a, b, S)
<1>0. IsFiniteSet(S) /\ \A x \in S : a[x] * b[x] \in Nat
  BY DEF Summable
<1> DEFINE Bad == {s \in SUBSET S :
                     \E y \in s : f[s] # a[y] * b[y] + f[s \ {y}]}
<1>1. f \in [SUBSET S -> Nat] /\ f[{}] = 0
  BY TotalNat
<1>2. \A s \in SUBSET S : s # {} =>
        /\ APick(s) \in s
        /\ f[s] = a[APick(s)] * b[APick(s)] + f[s \ {APick(s)}]
  BY DEF Totals, APick
<1>3. Bad = {}
  <2>1. SUFFICES ASSUME Bad # {} PROVE FALSE
    OBVIOUS
  <2>2. PICK s \in Bad : \A u \in Bad : u \subseteq s => u = s
    <3>1. Bad \in SUBSET (SUBSET S)
      OBVIOUS
    <3> HIDE DEF Bad
    <3>2. QED  BY <1>0, <2>1, <3>1, MinimalSubset
  <2>3. PICK y \in s : f[s] # a[y] * b[y] + f[s \ {y}]
    OBVIOUS
  <2> DEFINE x == APick(s)
             r == (s \ {x}) \ {y}
  <2>4. /\ x \in s /\ s \in SUBSET S /\ s \ {x} \in SUBSET S
        /\ s \ {y} \in SUBSET S
        /\ f[s] = a[x] * b[x] + f[s \ {x}]
    BY <1>2, <2>3
  <2>5. x # y
    BY <2>3, <2>4
  <2>6. s \ {x} \notin Bad /\ s \ {y} \notin Bad
    BY <2>2, <2>3, <2>4
  <2>7. f[s \ {x}] = a[y] * b[y] + f[r]
    BY <2>3, <2>4, <2>5, <2>6
  <2>8. (s \ {y}) \ {x} = r
    OBVIOUS
  <2>9. f[s \ {y}] = a[x] * b[x] + f[r]
    BY <2>4, <2>5, <2>6, <2>8
  <2>10. /\ f[r] \in Nat /\ a[x] * b[x] \in Nat /\ a[y] * b[y] \in Nat
         /\ f[s \ {x}] \in Nat /\ f[s \ {y}] \in Nat
    BY <1>0, <1>1, <2>3, <2>4
  <2>11. QED
    <3> HIDE DEF x, r
    <3> QED  BY <2>3, <2>4, <2>7, <2>9, <2>10
<1>4. QED  BY <1>1, <1>3 DEF IsSum

\* A sum of natural numbers is at least the sum over a part of its set.
LEMMA TotalGrows ==
  ASSUME NEW a, NEW b, NEW S, Summable(a, b, S), NEW f, IsSum(f, a, b, S),
         NEW r \in SUBSET S
  PROVE  f[r] <= f[S]
<1>0. IsFiniteSet(S) /\ \A x \in S : a[x] * b[x] \in Nat
  BY DEF Summable
<1> DEFINE Bad == {s \in SUBSET S : r \subseteq s /\ ~(f[r] <= f[s])}
<1>1. f \in [SUBSET S -> Nat]
  BY DEF IsSum
<1>2. Bad = {}
  <2>1. SUFFICES ASSUME Bad # {} PROVE FALSE
    OBVIOUS
  <2>2. PICK s \in Bad : \A u \in Bad : u \subseteq s => u = s
    <3>1. Bad \in SUBSET (SUBSET S)
      OBVIOUS
    <3> HIDE DEF Bad
    <3>2. QED  BY <1>0, <2>1, <3>1, MinimalSubset
  <2>3. r # s
    BY <1>1
  <2>4. PICK y \in s : y \notin r
    BY <2>3
  <2>5. s \ {y} \in SUBSET S /\ r \subseteq s \ {y} /\ s \ {y} \notin Bad
    BY <2>2, <2>4
  <2>6. f[r] <= f[s \ {y}]
    BY <2>5
  <2>7. f[s] = a[y] * b[y] + f[s \ {y}]
    BY DEF IsSum
  <2>8. /\ a[y] * b[y] \in Nat /\ f[s] \in Nat /\ f[r] \in Nat
        /\ f[s \ {y}] \in Nat
    BY <1>0, <1>1, <2>5
  <2>9. f[r] <= f[s]
    BY <2>6, <2>7, <2>8
  <2>10. QED  BY <2>9
<1>3. S \notin Bad
  BY <1>2
<1>4. QED  BY <1>3

-----------------------------------------------------------------------------
(* The inequality of Cauchy and Schwarz.                                   *)

\* Natural numbers are closed under products.
LEMMA Products ==
  ASSUME NEW p \in Nat, NEW q \in Nat
  PROVE  p * q \in Nat
OBVIOUS

\* Squares are ordered as their roots are.
LEMMA SquareOrder ==
  ASSUME NEW p \in Nat, NEW q \in Nat, p * p <= q * q
  PROVE  p <= q
OBVIOUS

\* The arithmetic mean is at least the geometric one.
LEMMA MeansInequality ==
  ASSUME NEW u \in Nat, NEW v \in Nat, NEW w \in Nat, w * w <= u * v
  PROVE  2 * w <= u + v
<1>1. (2 * w) * (2 * w) <= (u + v) * (u + v)
  <2>1. (u - v) * (u - v) >= 0
    OBVIOUS
  <2>2. (u + v) * (u + v) = (u - v) * (u - v) + 4 * (u * v)
    OBVIOUS
  <2>3. (2 * w) * (2 * w) = 4 * (w * w)
    OBVIOUS
  <2>4. QED  BY <2>1, <2>2, <2>3
<1>2. QED  BY <1>1, SquareOrder

\* The inequality survives one more product.
LEMMA OneMoreProduct ==
  ASSUME NEW p \in Nat, NEW q \in Nat, NEW r \in Nat, NEW c \in Nat, NEW d \in Nat,
         r * r <= p * q
  PROVE  (c * d + r) * (c * d + r) <= (c * c + p) * (d * d + q)
<1>1. 2 * (r * (c * d)) <= p * (d * d) + q * (c * c)
  <2>1. (r * (c * d)) * (r * (c * d)) = (r * r) * ((c * d) * (c * d))
    OBVIOUS
  <2>2. (p * (d * d)) * (q * (c * c)) = (p * q) * ((c * d) * (c * d))
    OBVIOUS
  <2>3. (r * r) * ((c * d) * (c * d)) <= (p * q) * ((c * d) * (c * d))
    OBVIOUS
  <2>4. QED  BY <2>1, <2>2, <2>3, MeansInequality
<1>2. (c * d + r) * (c * d + r) = (c * d) * (c * d) + 2 * (r * (c * d)) + r * r
  OBVIOUS
<1>3. (c * c + p) * (d * d + q)
        = (c * d) * (c * d) + p * (d * d) + q * (c * c) + p * q
  OBVIOUS
<1>4. QED  BY <1>1, <1>2, <1>3

\* The square of a sum of products is at most the product of the sums of
\* squares, over each subset.
LEMMA SumsOfProducts ==
  ASSUME NEW a, NEW b, NEW A, NEW B, IsFiniteSet(A), IsFiniteSet(B),
         \A x \in A : a[x] \in Nat,
         \A x \in B : b[x] \in Nat,
         NEW aa, Totals(aa, a, a, SUBSET A),
         NEW bb, Totals(bb, b, b, SUBSET B),
         NEW ab, Totals(ab, a, b, SUBSET (A \cap B))
  PROVE  \A s \in SUBSET (A \cap B) : ab[s] * ab[s] <= aa[s] * bb[s]
<1> DEFINE S == A \cap B
           Bad == {s \in SUBSET S : ~(ab[s] * ab[s] <= aa[s] * bb[s])}
<1>1. /\ IsFiniteSet(S)
      /\ \A x \in A : a[x] * a[x] \in Nat
      /\ \A x \in B : b[x] * b[x] \in Nat
      /\ \A x \in S : a[x] * b[x] \in Nat
  BY FS_Intersection, Products
<1>2. Summable(a, a, A) /\ Summable(b, b, B) /\ Summable(a, b, S)
  BY <1>1 DEF Summable
<1>3. IsSum(aa, a, a, A) /\ IsSum(bb, b, b, B) /\ IsSum(ab, a, b, S)
  BY <1>2, TotalIsSum
<1>4. /\ aa \in [SUBSET A -> Nat] /\ aa[{}] = 0
      /\ bb \in [SUBSET B -> Nat] /\ bb[{}] = 0
      /\ ab \in [SUBSET S -> Nat] /\ ab[{}] = 0
  BY <1>3 DEF IsSum
<1>5. Bad = {}
  <2>1. SUFFICES ASSUME Bad # {} PROVE FALSE
    OBVIOUS
  <2>2. PICK s \in Bad : \A u \in Bad : u \subseteq s => u = s
    <3>1. Bad \in SUBSET (SUBSET S)
      OBVIOUS
    <3> HIDE DEF Bad, S
    <3>2. QED  BY <1>1, <2>1, <3>1, MinimalSubset
  <2>3. s \in SUBSET S /\ s # {}
    <3>1. ~(ab[s] * ab[s] <= aa[s] * bb[s])
      OBVIOUS
    <3>2. 0 * 0 <= 0 * 0
      OBVIOUS
    <3>3. QED  BY <1>4, <3>1, <3>2
  <2>4. PICK y \in s : TRUE
    BY <2>3
  <2> DEFINE r == s \ {y}
  <2>5. r \in SUBSET S /\ r \notin Bad /\ y \in A /\ y \in B
    BY <2>2, <2>3, <2>4
  <2>6. ab[r] * ab[r] <= aa[r] * bb[r]
    BY <2>5
  <2>7. /\ aa[r] \in Nat /\ bb[r] \in Nat /\ ab[r] \in Nat
        /\ a[y] \in Nat /\ b[y] \in Nat
    BY <1>4, <2>5
  <2>8. /\ aa[s] = a[y] * a[y] + aa[r]
        /\ bb[s] = b[y] * b[y] + bb[r]
        /\ ab[s] = a[y] * b[y] + ab[r]
    BY <1>3, <2>3, <2>4 DEF IsSum
  <2>9. ab[s] * ab[s] <= aa[s] * bb[s]
    <3> HIDE DEF r
    <3>1. (a[y] * b[y] + ab[r]) * (a[y] * b[y] + ab[r])
            <= (a[y] * a[y] + aa[r]) * (b[y] * b[y] + bb[r])
      BY <2>6, <2>7, OneMoreProduct
    <3>2. QED  BY <2>8, <3>1
  <2>10. QED  BY <2>9
<1>6. QED  BY <1>5

-----------------------------------------------------------------------------
(* Dot products and cosines.                                               *)

\* A vector of TF_IDF: finitely many tokens, with positive weights.
IsVector(a) == /\ IsFiniteSet(DOMAIN a)
               /\ \A t \in DOMAIN a : a[t] \in Nat \ {0}

\* Dot sums up the positive products of the tokens that both have.
LEMMA DotSums ==
  ASSUME NEW a, NEW b, IsVector(a), IsVector(b),
         NEW D, D = DOMAIN a \cap DOMAIN b
  PROVE  /\ Summable(a, b, D) /\ \A x \in D : a[x] * b[x] \in Nat \ {0}
         /\ \E f : Totals(f, a, b, SUBSET D) /\ Dot(a, b) = f[D]
<1>1. IsFiniteSet(D)
  BY FS_Intersection DEF IsVector
<1>2. ASSUME NEW x \in D PROVE a[x] * b[x] \in Nat \ {0}
  <2>1. a[x] \in Nat \ {0} /\ b[x] \in Nat \ {0}
    BY DEF IsVector
  <2>2. QED  BY <2>1
<1>3. Totals(CHOOSE f : Totals(f, a, b, SUBSET D), a, b, SUBSET D)
  BY <1>1, TotalsExist
<1>4. QED  BY <1>1, <1>2, <1>3, DotIsTotal DEF Summable

\* Two vectors are orthogonal exactly if they share no token.
LEMMA DotPositive ==
  ASSUME NEW a, NEW b, IsVector(a), IsVector(b)
  PROVE  /\ Dot(a, b) \in Nat
         /\ Dot(a, b) = 0 <=> DOMAIN a \cap DOMAIN b = {}
<1> DEFINE D == DOMAIN a \cap DOMAIN b
<1>1. /\ Summable(a, b, D) /\ \A x \in D : a[x] * b[x] \in Nat \ {0}
      /\ \E f : Totals(f, a, b, SUBSET D) /\ Dot(a, b) = f[D]
  BY DotSums
<1>2. PICK f : Totals(f, a, b, SUBSET D) /\ Dot(a, b) = f[D]
  BY <1>1
<1> HIDE DEF D
<1>3. IsSum(f, a, b, D)
  BY <1>1, <1>2, TotalIsSum
<1>4. ASSUME NEW y \in D PROVE f[D] # 0
  <2>1. f[D] = a[y] * b[y] + f[D \ {y}]
    BY <1>3 DEF IsSum
  <2>2. f[D \ {y}] \in Nat /\ a[y] * b[y] \in Nat \ {0}
    BY <1>1, <1>3 DEF IsSum
  <2>3. QED  BY <2>1, <2>2
<1>5. Dot(a, b) \in Nat
  BY <1>2, <1>3 DEF IsSum
<1>6. Dot(a, b) = 0 <=> D = {}
  BY <1>2, <1>3, <1>4 DEF IsSum
<1>7. QED  BY <1>5, <1>6 DEF D

\* The inequality of Cauchy and Schwarz: no cosine is more than 1.
LEMMA DotBound ==
  ASSUME NEW a, NEW b, IsVector(a), IsVector(b)
  PROVE  Dot(a, b) * Dot(a, b) <= Dot(a, a) * Dot(b, b)
<1> DEFINE A == DOMAIN a
           B == DOMAIN b
           D == A \cap B
<1>1. PICK aa : Totals(aa, a, a, SUBSET A) /\ Dot(a, a) = aa[A]
  BY DotSums
<1>2. PICK bb : Totals(bb, b, b, SUBSET B) /\ Dot(b, b) = bb[B]
  BY DotSums
<1>3. PICK ab : Totals(ab, a, b, SUBSET D) /\ Dot(a, b) = ab[D]
  BY DotSums
<1>4. Summable(a, a, A) /\ Summable(b, b, B) /\ Summable(a, b, D)
  BY DotSums
<1>5. /\ \A x \in A : a[x] \in Nat
      /\ \A x \in B : b[x] \in Nat
      /\ IsFiniteSet(A) /\ IsFiniteSet(B)
  BY DEF IsVector
<1> HIDE DEF A, B
<1>6. ab[D] * ab[D] <= aa[D] * bb[D]
  BY <1>1, <1>2, <1>3, <1>5, SumsOfProducts
<1>7. D \in SUBSET A /\ D \in SUBSET B
  OBVIOUS
<1> HIDE DEF D
<1>8. IsSum(aa, a, a, A) /\ IsSum(bb, b, b, B) /\ IsSum(ab, a, b, D)
  BY <1>1, <1>2, <1>3, <1>4, TotalIsSum
<1>9. aa[D] <= aa[A] /\ bb[D] <= bb[B]
  BY <1>4, <1>7, <1>8, TotalGrows
<1>10. /\ aa[D] \in Nat /\ bb[D] \in Nat /\ aa[A] \in Nat /\ bb[B] \in Nat
       /\ ab[D] \in Nat
  BY <1>7, <1>8 DEF IsSum
<1>11. aa[D] * bb[D] <= aa[A] * bb[B]
  BY <1>9, <1>10
<1>12. QED  BY <1>1, <1>2, <1>3, <1>6, <1>10, <1>11

-----------------------------------------------------------------------------
(* Document frequencies.                                                   *)

\* A non-empty finite set of natural numbers has a greatest element.
LEMMA GreatestElement ==
  ASSUME NEW n \in Nat, NEW S \in SUBSET (1..n), S # {}
  PROVE  Max(S) \in S
<1> DEFINE Bounds == {k \in Nat : \A y \in S : y <= k}
<1>1. n \in Bounds
  OBVIOUS
<1>2. PICK m \in Bounds : \A k \in Bounds : m <= k
  BY <1>1, LeastElement
<1>3. m \in S
  <2>1. SUFFICES ASSUME m \notin S PROVE FALSE
    OBVIOUS
  <2>2. PICK x \in S : TRUE
    OBVIOUS
  <2>3. \A y \in S : y \in Nat /\ y <= m /\ y # m
    BY <1>2, <2>1
  <2>4. m - 1 \in Bounds
    BY <1>2, <2>2, <2>3
  <2>5. QED  BY <1>2, <2>4
<1>4. \A y \in S : m >= y
  BY <1>2
<1>5. QED  BY <1>3, <1>4 DEF Max

\* f has what the loop over the profiles counts over each set of D.
Counting(f, ps, D) ==
  f = [s \in D |->
        IF s = {} THEN NoTokens
        ELSE [t \in Tokens |->
               IF t \in Range(ps[Max(s)].tokens)
                 THEN f[s \ {Max(s)}][t] + 1 ELSE f[s \ {Max(s)}][t]]]

\* documentFrequency is that count over all the profiles.
LEMMA FrequencyIsCounting ==
  ASSUME NEW ps, NEW D, D = DOMAIN ps
  PROVE  documentFrequency(ps) = (CHOOSE f : Counting(f, ps, SUBSET D))[D]
BY DEF documentFrequency, FoldLeft, MapThenFoldSet, Counting

\* The profiles in s that have the token.
Holders(ps, s, t) == {i \in s : t \in Range(ps[i].tokens)}

\* The loop of documentFrequency over any profiles counts, for each token,
\* those that have it, each once.
THEOREM FrequencyCounts ==
  ASSUME NEW ps, NEW n \in Nat, DOMAIN ps = 1..n
  PROVE  documentFrequency(ps)
           = [t \in Tokens |-> Cardinality(Holders(ps, 1..n, t))]
<1> DEFINE D == 1..n
           g == [s \in SUBSET D |->
                  [t \in Tokens |-> Cardinality(Holders(ps, s, t))]]
<1>1. IsFiniteSet(D)
  BY FS_Interval
<1>2. \A s \in SUBSET D : s # {} => Max(s) \in s
  BY GreatestElement
<1>3. Counting(g, ps, SUBSET D)
  <2>1. g[{}] = NoTokens
    <3>1. \A t \in Tokens : Holders(ps, {}, t) = {}
      BY DEF Holders
    <3>2. QED  BY <3>1, FS_EmptySet DEF NoTokens
  <2>2. ASSUME NEW s \in SUBSET D, s # {}
        PROVE  g[s] = [t \in Tokens |->
                        IF t \in Range(ps[Max(s)].tokens)
                          THEN g[s \ {Max(s)}][t] + 1 ELSE g[s \ {Max(s)}][t]]
    <3> DEFINE x == Max(s)
    <3>1. x \in s /\ s \ {x} \in SUBSET D
      BY <1>2, <2>2
    <3>2. ASSUME NEW t \in Tokens
          PROVE  Cardinality(Holders(ps, s, t))
                   = IF t \in Range(ps[x].tokens)
                       THEN Cardinality(Holders(ps, s \ {x}, t)) + 1
                       ELSE Cardinality(Holders(ps, s \ {x}, t))
      <4>1. IsFiniteSet(Holders(ps, s \ {x}, t))
        BY <1>1, FS_Subset DEF Holders
      <4>2. x \notin Holders(ps, s \ {x}, t)
        BY DEF Holders
      <4>3. Holders(ps, s, t) = IF t \in Range(ps[x].tokens)
                                  THEN Holders(ps, s \ {x}, t) \cup {x}
                                  ELSE Holders(ps, s \ {x}, t)
        BY <3>1 DEF Holders
      <4>4. QED  BY <4>1, <4>2, <4>3, FS_AddElement
    <3>3. QED
      <4> HIDE DEF x
      <4>1. g[s] = [t \in Tokens |-> Cardinality(Holders(ps, s, t))]
        OBVIOUS
      <4>2. \A t \in Tokens : g[s \ {x}][t] = Cardinality(Holders(ps, s \ {x}, t))
        BY <3>1
      <4> HIDE DEF g
      <4>3. g[s] = [t \in Tokens |->
                     IF t \in Range(ps[x].tokens)
                       THEN g[s \ {x}][t] + 1 ELSE g[s \ {x}][t]]
        BY <3>2, <4>1, <4>2
      <4>4. QED  BY <4>3 DEF x
  <2>3. g = [s \in SUBSET D |-> g[s]]
    OBVIOUS
  <2> HIDE DEF g
  <2>4. QED  BY <2>1, <2>2, <2>3 DEF Counting
<1>4. PICK f : /\ Counting(f, ps, SUBSET D)
               /\ documentFrequency(ps) = f[D]
  BY <1>3, FrequencyIsCounting
<1>5. f[D] = g[D]
  <2> DEFINE Bad == {s \in SUBSET D : f[s] # g[s]}
  <2>1. SUFFICES ASSUME Bad # {} PROVE FALSE
    OBVIOUS
  <2>2. PICK s \in Bad : \A u \in Bad : u \subseteq s => u = s
    <3>1. Bad \in SUBSET (SUBSET D)
      OBVIOUS
    <3> HIDE DEF Bad, D
    <3>2. QED  BY <1>1, <2>1, <3>1, MinimalSubset
  <2> HIDE DEF g
  <2>3. s \in SUBSET D /\ f[s] # g[s]
    OBVIOUS
  <2>4. s # {}
    BY <1>3, <1>4, <2>3 DEF Counting
  <2>5. s \ {Max(s)} \in SUBSET D /\ s \ {Max(s)} # s
    BY <1>2, <2>3, <2>4
  <2>6. f[s \ {Max(s)}] = g[s \ {Max(s)}]
    BY <2>2, <2>5
  <2>7. f[s] = [t \in Tokens |->
               IF t \in Range(ps[Max(s)].tokens)
                 THEN f[s \ {Max(s)}][t] + 1 ELSE f[s \ {Max(s)}][t]]
    BY <1>4, <2>3, <2>4 DEF Counting
  <2>8. g[s] = [t \in Tokens |->
               IF t \in Range(ps[Max(s)].tokens)
                 THEN g[s \ {Max(s)}][t] + 1 ELSE g[s \ {Max(s)}][t]]
    BY <1>3, <2>3, <2>4 DEF Counting
  <2>9. QED  BY <2>3, <2>6, <2>7, <2>8
<1>6. QED  BY <1>4, <1>5

-----------------------------------------------------------------------------
(* Weights.                                                                *)

\* The more profiles have a token, the less it weighs.
LEMMA WeightsDecrease ==
  ASSUME NEW n \in 1..Cardinality(Users), NEW i \in 1..n, NEW j \in 1..n, i < j
  PROVE  Idf(i, n) > Idf(j, n)
<1> DEFINE Bad == {m \in Nat : m > i /\ m <= n /\ ~(Idf(i, n) > Idf(m, n))}
<1>1. \A m \in 1..n : /\ Idf(m, n) \in Nat
                      /\ m < n => Idf(m, n) > Idf(m + 1, n)
  BY RecommenderAssumption
<1>2. Bad = {}
  <2>1. SUFFICES ASSUME Bad # {} PROVE FALSE
    OBVIOUS
  <2>2. PICK m \in Bad : \A k \in Bad : m <= k
    <3>1. Bad \in SUBSET Nat
      OBVIOUS
    <3> HIDE DEF Bad
    <3>2. QED  BY <2>1, <3>1, LeastElement
  <2>3. m \in 1..n /\ m - 1 \in 1..n /\ m - 1 < n /\ m - 1 + 1 = m
    OBVIOUS
  <2>4. Idf(m - 1, n) > Idf(m, n)
    BY <1>1, <2>3
  <2>5. m - 1 # i => Idf(i, n) > Idf(m - 1, n)
    BY <2>2, <2>3
  <2>6. /\ Idf(m, n) \in Nat /\ Idf(m - 1, n) \in Nat /\ Idf(i, n) \in Nat
    BY <1>1, <2>3
  <2>7. Idf(i, n) > Idf(m, n)
    BY <2>4, <2>5, <2>6
  <2>8. QED  BY <2>7
<1>3. j \notin Bad
  BY <1>2
<1>4. QED  BY <1>3

\* A token of a profile occurs in it.
LEMMA TokenIsCounted ==
  ASSUME NEW w \in Seq(Tokens), NEW t
  PROVE  TF(w, t) \in Nat /\ (TF(w, t) > 0 <=> t \in Range(w))
<1> DEFINE At == {i \in DOMAIN w : w[i] = t}
<1>1. IsFiniteSet(At)
  <2>1. IsFiniteSet(1..Len(w)) /\ DOMAIN w = 1..Len(w)
    BY FS_Interval
  <2>2. QED  BY <2>1, FS_Subset
<1>2. Cardinality(At) \in Nat /\ (Cardinality(At) = 0 <=> At = {})
  BY <1>1, FS_CardinalityType, FS_EmptySet
<1>3. At # {} <=> t \in Range(w)
  BY DEF Range
<1>4. QED  BY <1>2, <1>3 DEF TF

\* What the cursor may have delivered: n profiles, of no more than the users.
ProfileList(ps, n) ==
  ps \in Seq(Profile) /\ n = Len(ps) /\ n <= Cardinality(Users)

\* The vector of a profile: a positive weight for each of its tokens.
LEMMA VectorAt ==
  ASSUME NEW ps, NEW n, ProfileList(ps, n), NEW i \in 1..n
  PROVE  /\ DOMAIN ps = 1..n /\ n \in 1..Cardinality(Users)
         /\ ps[i].id \in Users /\ ps[i].tokens \in Seq(Tokens)
         /\ DOMAIN TF_IDF(ps) = 1..n
         /\ TF_IDF(ps)[i]
              = [t \in Range(ps[i].tokens) |->
                  TF(ps[i].tokens, t) * Idf(Cardinality(Holders(ps, 1..n, t)), n)]
         /\ \A t \in Range(ps[i].tokens) :
              Cardinality(Holders(ps, 1..n, t)) \in 1..n
         /\ DOMAIN TF_IDF(ps)[i] = Range(ps[i].tokens)
         /\ IsVector(TF_IDF(ps)[i])
<1>1. DOMAIN ps = 1..n /\ n \in 1..Cardinality(Users)
  <2>1. Cardinality(Users) \in Nat
    BY RecommenderAssumption, FS_CardinalityType
  <2>2. QED  BY <2>1 DEF ProfileList
<1>2. /\ ps[i].id \in Users /\ ps[i].tokens \in Seq(Tokens)
  <2>1. ps[i] \in Profile
    BY <1>1 DEF ProfileList
  <2>2. QED  BY <2>1 DEF Profile
<1>3. Range(ps[i].tokens) \subseteq Tokens /\ IsFiniteSet(Range(ps[i].tokens))
  <2> DEFINE w == ps[i].tokens
  <2>1. w \in Seq(Tokens) /\ DOMAIN w = 1..Len(w)
    BY <1>2
  <2>2. w \in Surjection(1..Len(w), Range(w))
    BY <2>1 DEF Surjection, Range
  <2>3. IsFiniteSet(Range(w))
    BY <2>2, FS_Interval, FS_Surjection
  <2>4. QED  BY <2>1, <2>3 DEF Range
<1>4. documentFrequency(ps) = [t \in Tokens |-> Cardinality(Holders(ps, 1..n, t))]
  BY <1>1, FrequencyCounts
<1>5. /\ DOMAIN TF_IDF(ps) = 1..n
      /\ TF_IDF(ps)[i]
           = [t \in Range(ps[i].tokens) |->
               TF(ps[i].tokens, t) * Idf(documentFrequency(ps)[t], n)]
  BY <1>1 DEF TF_IDF, inverseDocumentFrequency, ProfileList
<1>6. ASSUME NEW t \in Range(ps[i].tokens)
      PROVE  /\ Cardinality(Holders(ps, 1..n, t)) \in 1..n
             /\ documentFrequency(ps)[t] = Cardinality(Holders(ps, 1..n, t))
             /\ TF(ps[i].tokens, t)
                  * Idf(Cardinality(Holders(ps, 1..n, t)), n) \in Nat \ {0}
  <2>1. /\ IsFiniteSet(1..n) /\ Cardinality(1..n) = n
        /\ Holders(ps, 1..n, t) \in SUBSET (1..n) /\ i \in Holders(ps, 1..n, t)
    BY <1>1, FS_Interval DEF Holders
  <2>2. /\ Cardinality(Holders(ps, 1..n, t)) \in Nat
        /\ Cardinality(Holders(ps, 1..n, t)) <= n
        /\ Cardinality(Holders(ps, 1..n, t)) # 0
    BY <2>1, FS_Subset, FS_CardinalityType, FS_EmptySet
  <2>3. Cardinality(Holders(ps, 1..n, t)) \in 1..n
    BY <1>1, <2>2
  <2>4. Idf(Cardinality(Holders(ps, 1..n, t)), n) \in Nat \ {0}
    BY <1>1, <2>3, RecommenderAssumption
  <2>5. TF(ps[i].tokens, t) \in Nat \ {0}
    BY <1>2, TokenIsCounted
  <2>6. documentFrequency(ps)[t] = Cardinality(Holders(ps, 1..n, t))
    BY <1>3, <1>4
  <2>7. QED  BY <2>3, <2>4, <2>5, <2>6
<1>7. TF_IDF(ps)[i]
        = [t \in Range(ps[i].tokens) |->
            TF(ps[i].tokens, t) * Idf(Cardinality(Holders(ps, 1..n, t)), n)]
  BY <1>5, <1>6
<1>8. IsVector(TF_IDF(ps)[i]) /\ DOMAIN TF_IDF(ps)[i] = Range(ps[i].tokens)
  BY <1>3, <1>6, <1>7 DEF IsVector
<1>9. QED  BY <1>1, <1>2, <1>5, <1>6, <1>7, <1>8

-----------------------------------------------------------------------------
(* Sorting and cutting.                                                    *)

\* SetToSeq lists a finite set, each element once.
LEMMA ListOfSet ==
  ASSUME NEW S, IsFiniteSet(S)
  PROVE  /\ SetToSeq(S) \in [1..Cardinality(S) -> S]
         /\ \A x \in S : \E i \in 1..Cardinality(S) : SetToSeq(S)[i] = x
<1> DEFINE c == Cardinality(S)
<1>1. c \in Nat /\ \E f \in [1..c -> S] : IsInjective(f)
  <2>1. c \in Nat /\ ExistsBijection(1..c, S)
    BY FS_CardinalityType
  <2>2. QED  BY <2>1 DEF ExistsBijection, Bijection, Injection, IsInjective
<1>2. SetToSeq(S) \in [1..c -> S] /\ IsInjective(SetToSeq(S))
  BY <1>1 DEF SetToSeq
<1>3. SetToSeq(S) \in Injection(1..c, S)
  BY <1>2 DEF Injection
<1>4. Cardinality(1..c) = c /\ IsFiniteSet(1..c)
  BY <1>1, FS_Interval
<1>5. SetToSeq(S) \in Surjection(1..c, S)
  BY <1>3, <1>4, FS_Injection
<1>6. QED  BY <1>2, <1>5 DEF Surjection

\* The others with their similarities, in no order.
Scores(V, k) ==
  {[at |-> i, score |-> Cosine(V[k], V[i])] : i \in DOMAIN V \ {k}}

\* cosineSimilarity has an entry for each of the others, and no more.
LEMMA SimilaritiesAre ==
  ASSUME NEW V, NEW k, IsFiniteSet(DOMAIN V)
  PROVE  Range(cosineSimilarity(V, k)) = Scores(V, k)
<1> DEFINE S == DOMAIN V \ {k}
           l == SetToSeq(S)
           c == Cardinality(S)
<1>1. IsFiniteSet(S)
  BY FS_RemoveElement
<1>2. l \in [1..c -> S] /\ \A x \in S : \E i \in 1..c : l[i] = x
  BY <1>1, ListOfSet
<1>3. cosineSimilarity(V, k)
        = [i \in DOMAIN l |-> [at |-> l[i], score |-> Cosine(V[k], V[l[i]])]]
  BY DEF cosineSimilarity
<1> HIDE DEF l, c
<1>4. QED  BY <1>2, <1>3 DEF Range, Scores

\* A sorted list has every profile but one, each once, none above an earlier.
SortedList(r, V, k, n) ==
  /\ r \in [1..(n - 1) -> Scores(V, k)]
  /\ \A i \in 1..(n - 1) : /\ r[i].at \in (1..n) \ {k}
                           /\ r[i].score = Cosine(V[k], V[r[i].at])
  /\ \A i, j \in 1..(n - 1) : i # j => r[i].at # r[j].at
  /\ \A m \in (1..n) \ {k} : \E i \in 1..(n - 1) : r[i].at = m
  /\ \A i, j \in 1..(n - 1) : i < j => ~Above(r[j].score, r[i].score)

\* Whatever order std::sort leaves, it is such a list.
LEMMA SortedIsList ==
  ASSUME NEW V, NEW n \in Nat, DOMAIN V = 1..n, NEW k \in 1..n,
         NEW r \in Sorted(cosineSimilarity(V, k))
  PROVE  SortedList(r, V, k, n)
<1> DEFINE S == (1..n) \ {k}
           T == Scores(V, k)
           at == [i \in S |-> [at |-> i, score |-> Cosine(V[k], V[i])]]
<1>1. IsFiniteSet(S) /\ Cardinality(S) = n - 1 /\ IsFiniteSet(DOMAIN V)
  <2>1. IsFiniteSet(1..n) /\ Cardinality(1..n) = n
    BY FS_Interval
  <2>2. QED  BY <2>1, FS_RemoveElement
<1>2. IsFiniteSet(T) /\ Cardinality(T) = n - 1
  <2>1. at \in Bijection(S, T)
    BY DEF Bijection, Injection, Surjection, IsInjective, Scores
  <2>2. ExistsBijection(S, T)
    BY <2>1 DEF ExistsBijection
  <2> HIDE DEF S, T
  <2>3. QED  BY <1>1, <2>2, FS_Bijection
<1>3. /\ r \in SetToSeqs(T)
      /\ \A i, j \in DOMAIN r : i < j => ~Above(r[j].score, r[i].score)
  BY <1>1, SimilaritiesAre DEF Sorted
<1>4. /\ r \in [1..(n - 1) -> T]
      /\ \A i, j \in 1..(n - 1) : i # j => r[i] # r[j]
  BY <1>2, <1>3 DEF SetToSeqs
<1>5. r \in Surjection(1..(n - 1), T)
  <2>1. r \in Injection(1..(n - 1), T)
    BY <1>4 DEF Injection, IsInjective
  <2>2. Cardinality(1..(n - 1)) = n - 1
    BY FS_Interval
  <2> HIDE DEF T
  <2>3. QED  BY <1>2, <2>1, <2>2, FS_Injection, FS_Interval
<1>6. ASSUME NEW i \in 1..(n - 1)
      PROVE  r[i].at \in S /\ r[i] = [at |-> r[i].at, score |-> Cosine(V[k], V[r[i].at])]
  BY <1>4 DEF Scores
<1>7. ASSUME NEW m \in S PROVE \E i \in 1..(n - 1) : r[i].at = m
  <2>1. [at |-> m, score |-> Cosine(V[k], V[m])] \in T
    BY DEF Scores
  <2>2. PICK i \in 1..(n - 1) : r[i] = [at |-> m, score |-> Cosine(V[k], V[m])]
    BY <1>5, <2>1 DEF Surjection
  <2>3. QED  BY <2>2
<1>8. ASSUME NEW i \in 1..(n - 1), NEW j \in 1..(n - 1), i # j
      PROVE  r[i].at # r[j].at
  BY <1>4, <1>6, <1>8
<1>9. ASSUME NEW i \in 1..(n - 1), NEW j \in 1..(n - 1), i < j
      PROVE  ~Above(r[j].score, r[i].score)
  BY <1>3, <1>4, <1>9
<1>10. \A i \in 1..(n - 1) : r[i].score = Cosine(V[k], V[r[i].at])
  <2>1. TAKE i \in 1..(n - 1)
  <2>2. r[i] = [at |-> r[i].at, score |-> Cosine(V[k], V[r[i].at])]
    BY <1>6
  <2>3. QED  BY <2>2
<1>11. QED  BY <1>4, <1>6, <1>7, <1>8, <1>9, <1>10 DEF SortedList

\* std::min of the limit and the length.
LEMMA LesserOfTwo ==
  ASSUME NEW m \in Nat, NEW n \in Nat
  PROVE  Min({m, n}) = IF m <= n THEN m ELSE n
<1>1. \E x \in {m, n} : \A y \in {m, n} : x <= y
  OBVIOUS
<1>2. Min({m, n}) \in {m, n} /\ \A y \in {m, n} : Min({m, n}) <= y
  BY <1>1 DEF Min
<1>3. QED  BY <1>2

\* The loop that fills the answer takes a prefix.
LEMMA CutIsPrefix ==
  ASSUME NEW S, NEW n \in Nat, NEW r \in [1..n -> S]
  PROVE  /\ Min({MaxResults, n}) \in 0..n
         /\ Cut(r) \in [1..Min({MaxResults, n}) -> S]
         /\ \A i \in 1..Min({MaxResults, n}) : Cut(r)[i] = r[i]
<1> DEFINE c == Min({MaxResults, n})
<1>1. c \in 0..n
  <2>1. MaxResults \in Nat
    BY RecommenderAssumption
  <2>2. c = IF MaxResults <= n THEN MaxResults ELSE n
    BY <2>1, LesserOfTwo
  <2>3. QED  BY <2>1, <2>2
<1>2. r \in Seq(S) /\ Len(r) = n
  OBVIOUS
<1>3. Cut(r) = SubSeq(r, 1, c)
  BY <1>2 DEF Cut
<1> HIDE DEF c
<1>4. /\ SubSeq(r, 1, c) \in Seq(S) /\ Len(SubSeq(r, 1, c)) = c
      /\ \A i \in 1..c : SubSeq(r, 1, c)[i] = r[i]
  BY <1>1, <1>2
<1>5. SubSeq(r, 1, c) \in [1..c -> S]
  BY <1>4, LenProperties
<1>6. QED  BY <1>1, <1>3, <1>4, <1>5 DEF c

\* Similarities are quotients of natural numbers, 0 only if no token is shared.
LEMMA CosineIs ==
  ASSUME NEW a, NEW b, IsVector(a), IsVector(b)
  PROVE  /\ Cosine(a, b) \in Similarity
         /\ Cosine(a, b).dot = 0 <=> DOMAIN a \cap DOMAIN b = {}
<1>1. /\ Dot(a, a) \in Nat /\ (Dot(a, a) = 0 <=> DOMAIN a \cap DOMAIN a = {})
      /\ Dot(b, b) \in Nat /\ (Dot(b, b) = 0 <=> DOMAIN b \cap DOMAIN b = {})
      /\ Dot(a, b) \in Nat /\ (Dot(a, b) = 0 <=> DOMAIN a \cap DOMAIN b = {})
  BY DotPositive
<1>2. CASE Dot(a, a) > 0 /\ Dot(b, b) > 0
  <2>1. Cosine(a, b) = [dot |-> Dot(a, b), own |-> Dot(b, b)]
    BY <1>2 DEF Cosine
  <2>2. Dot(b, b) \in Nat \ {0}
    BY <1>1, <1>2
  <2>3. QED  BY <1>1, <2>1, <2>2 DEF Similarity
<1>3. CASE ~(Dot(a, a) > 0 /\ Dot(b, b) > 0)
  <2>1. Cosine(a, b) = [dot |-> 0, own |-> 1]
    BY <1>3 DEF Cosine
  <2>2. DOMAIN a = {} \/ DOMAIN b = {}
    <3>1. Dot(a, a) = 0 \/ Dot(b, b) = 0
      BY <1>1, <1>3
    <3>2. QED  BY <1>1, <3>1
  <2>3. QED  BY <2>1, <2>2 DEF Similarity
<1>4. QED  BY <1>2, <1>3

-----------------------------------------------------------------------------
(* The invariant.                                                          *)

\* Nothing is read before the query, nor answered before the ranking.
Early == /\ pc = "idle" => profiles = <<>>
         /\ pc # "answered" => answer = <<>>

\* No user is read twice.
Distinct == \A i, j \in DOMAIN profiles : i # j => profiles[i].id # profiles[j].id

\* What a user has is among what it had since the query.
CurrentHeld == \A u \in Users : docs[u] \in held[u]

\* A profile is that of a document which its user had since the query.
ReadFromHeld ==
  \A i \in DOMAIN profiles :
    \E d \in held[profiles[i].id] :
      IsReadable(d) /\ profiles[i].tokens = TokensOf(d)

\* The profile k is the target's, and at lists the others as they were sorted.
Ranking(k, at) ==
  LET n == Cardinality(Users)
      V == TF_IDF(profiles)
  IN  /\ Len(profiles) = n /\ k \in 1..n /\ profiles[k].id = target
      /\ at \in [1..(n - 1) -> (1..n) \ {k}]
      /\ \A i, j \in 1..(n - 1) : i # j => at[i] # at[j]
      /\ \A m \in (1..n) \ {k} : \E i \in 1..(n - 1) : at[i] = m
      /\ \A i, j \in 1..(n - 1) :
           i < j => ~Above(Cosine(V[k], V[at[j]]), Cosine(V[k], V[at[i]]))
      /\ answer = [i \in 1..Min({MaxResults, n - 1}) |->
                    [id |-> profiles[at[i]].id, score |-> Cosine(V[k], V[at[i]])]]

\* An answer ranks all the users but the target.
Answered == pc = "answered" => Fetched = Users /\ \E k, at : Ranking(k, at)

\* The inductive invariant.
IInv == TypeOK /\ Early /\ Distinct /\ CurrentHeld /\ ReadFromHeld /\ Answered

\* There are finitely many users.
LEMMA UsersCounted == Cardinality(Users) \in Nat /\ IsFiniteSet(Users)
BY RecommenderAssumption, FS_CardinalityType

\* A profile has an id of a user and tokens.
LEMMA ProfileTyped ==
  ASSUME NEW ps \in Seq(Profile), NEW i \in DOMAIN ps
  PROVE  ps[i].id \in Users /\ ps[i].tokens \in Seq(Tokens)
<1>1. ps[i] \in Profile
  OBVIOUS
<1>2. QED  BY <1>1 DEF Profile

\* No more profiles than users, as many only if it is all of them.
LEMMA DistinctCount ==
  ASSUME NEW ps \in Seq(Profile),
         \A i, j \in DOMAIN ps : i # j => ps[i].id # ps[j].id
  PROVE  /\ Len(ps) <= Cardinality(Users)
         /\ {ps[i].id : i \in DOMAIN ps} = Users => Len(ps) = Cardinality(Users)
<1> DEFINE l == Len(ps)
           f == [i \in 1..l |-> ps[i].id]
<1>1. l \in Nat /\ DOMAIN ps = 1..l
  OBVIOUS
<1>2. f \in Injection(1..l, Users)
  BY <1>1, ProfileTyped DEF Injection, IsInjective
<1>3. IsFiniteSet(1..l) /\ Cardinality(1..l) = l
  BY <1>1, FS_Interval
<1>4. {ps[i].id : i \in DOMAIN ps} = Users => f \in Surjection(1..l, Users)
  BY <1>1, <1>2 DEF Injection, Surjection
<1> HIDE DEF f, l
<1>5. /\ Cardinality(1..l) <= Cardinality(Users)
      /\ Cardinality(1..l) = Cardinality(Users) <=> f \in Surjection(1..l, Users)
  BY <1>2, UsersCounted, FS_Injection
<1>6. QED  BY <1>3, <1>4, <1>5 DEF l

\* tokenize makes tokens of a document without a field that is no string.
LEMMA ReadableTokens ==
  ASSUME NEW d \in Doc, IsReadable(d)
  PROVE  TokensOf(d) \in Seq(Tokens)
<1>1. d.address \in Seq(Words) /\ d.budget \in Seq(Words)
  BY DEF Doc, Text, IsReadable
<1>2. d.address \o d.budget \in Seq(Words)
  BY <1>1
<1> DEFINE w == d.address \o d.budget
<1>3. TokensOf(d) = [i \in DOMAIN w |-> Lower[w[i]]] /\ w \in Seq(Words)
  BY <1>2 DEF TokensOf, tokenize
<1> HIDE DEF w
<1>4. /\ DOMAIN w = 1..Len(w) /\ Len(w) \in Nat
      /\ \A i \in 1..Len(w) : w[i] \in Words
  BY <1>3
<1>5. \A i \in 1..Len(w) : Lower[w[i]] \in Tokens
  BY <1>4 DEF Tokens
<1>6. QED  BY <1>3, <1>4, <1>5

-----------------------------------------------------------------------------
(* One conjunct at a time.                                                 *)

\* What a step can do to the profiles, the answer and the request.
LEMMA ProfileSteps ==
  ASSUME TypeOK, [Next]_vars
  PROVE  /\ UNCHANGED <<type, target, canonical>>
         /\ \/ /\ UNCHANGED <<profiles, answer>>
               /\ pc' = "answered" => pc = "answered"
            \/ \E u \in Users : FetchProfile(u)
            \/ RankUsers
BY DEF Next, vars, request, ImportRow, FetchProfile, FetchUnreadable, RefuseType,
   Query, Fault, TargetNotFound, RankUsers

\* The cursor delivers no document twice.
LEMMA DistinctStep == IInv /\ [Next]_vars => Distinct'
<1> SUFFICES ASSUME IInv, [Next]_vars PROVE Distinct'
  OBVIOUS
<1>1. TypeOK /\ Distinct
  BY DEF IInv
<1>2. CASE profiles' = profiles
  BY <1>1, <1>2 DEF Distinct
<1>3. ASSUME NEW u \in Users, FetchProfile(u) PROVE Distinct'
  <2>1. /\ profiles \in Seq(Profile)
        /\ profiles' = Append(profiles, [id |-> u, tokens |-> TokensOf(docs[u])])
        /\ \A i \in DOMAIN profiles : profiles[i].id # u
    BY <1>1, <1>3 DEF FetchProfile, Fetched, TypeOK
  <2>2. /\ Len(profiles) \in Nat /\ DOMAIN profiles = 1..Len(profiles)
        /\ DOMAIN profiles' = 1..(Len(profiles) + 1)
        /\ profiles'[Len(profiles) + 1].id = u
        /\ \A i \in 1..Len(profiles) : profiles'[i] = profiles[i]
    BY <2>1
  <2>3. QED  BY <1>1, <2>1, <2>2 DEF Distinct
<1>4. QED  BY <1>1, <1>2, <1>3, ProfileSteps DEF RankUsers

\* The script adds each address that it writes to what the user had.
LEMMA CurrentHeldStep == IInv /\ [Next]_vars => CurrentHeld'
<1> SUFFICES ASSUME IInv, [Next]_vars PROVE CurrentHeld'
  OBVIOUS
<1>1. TypeOK /\ CurrentHeld
  BY DEF IInv
<1>2. CASE UNCHANGED <<docs, held>>
  BY <1>1, <1>2 DEF CurrentHeld
<1>3. ASSUME NEW u \in Users, ImportRow(u) PROVE CurrentHeld'
  BY <1>1, <1>3 DEF CurrentHeld, ImportRow, TypeOK
<1>4. CASE Query
  BY <1>4 DEF CurrentHeld, Query
<1>5. QED
  BY <1>2, <1>3, <1>4 DEF Next, vars, FetchProfile, FetchUnreadable, RefuseType,
     Fault, TargetNotFound, RankUsers

\* Documents are only added to those a user had, but by the query.
LEMMA HeldGrows ==
  ASSUME TypeOK, [Next]_vars, pc # "idle"
  PROVE  \A u \in Users : held[u] \subseteq held'[u]
BY DEF TypeOK, Next, vars, request, ImportRow, FetchProfile, FetchUnreadable,
   RefuseType, Query, Fault, TargetNotFound, RankUsers

\* The cursor reads a document as it is then; the script forgets none.
LEMMA ReadStep == IInv /\ [Next]_vars => ReadFromHeld'
<1> SUFFICES ASSUME IInv, [Next]_vars PROVE ReadFromHeld'
  OBVIOUS
<1>1. TypeOK /\ Early /\ CurrentHeld /\ ReadFromHeld /\ profiles \in Seq(Profile)
  BY DEF IInv, TypeOK
<1>2. CASE profiles' = profiles /\ pc # "idle"
  <2>1. SUFFICES ASSUME NEW i \in DOMAIN profiles
                 PROVE  \E d \in held'[profiles[i].id] :
                          IsReadable(d) /\ profiles[i].tokens = TokensOf(d)
    BY <1>2 DEF ReadFromHeld
  <2>2. profiles[i].id \in Users
    BY <1>1, ProfileTyped
  <2>3. QED  BY <1>1, <1>2, <2>2, HeldGrows DEF ReadFromHeld
<1>3. CASE profiles' = profiles /\ pc = "idle"
  BY <1>1, <1>3 DEF Early, ReadFromHeld
<1>4. ASSUME NEW u \in Users, FetchProfile(u) PROVE ReadFromHeld'
  <2>1. /\ profiles' = Append(profiles, [id |-> u, tokens |-> TokensOf(docs[u])])
        /\ held' = held /\ docs[u] \in held[u] /\ IsReadable(docs[u])
    BY <1>1, <1>4 DEF FetchProfile, CurrentHeld
  <2>2. /\ Len(profiles) \in Nat /\ DOMAIN profiles = 1..Len(profiles)
        /\ DOMAIN profiles' = 1..(Len(profiles) + 1)
        /\ profiles'[Len(profiles) + 1] = [id |-> u, tokens |-> TokensOf(docs[u])]
        /\ \A i \in 1..Len(profiles) : profiles'[i] = profiles[i]
    BY <1>1, <2>1
  <2>3. ASSUME NEW i \in DOMAIN profiles'
        PROVE  \E d \in held'[profiles'[i].id] :
                 IsReadable(d) /\ profiles'[i].tokens = TokensOf(d)
    <3>1. CASE i \in DOMAIN profiles
      BY <1>1, <2>1, <2>2, <3>1 DEF ReadFromHeld
    <3>2. CASE i = Len(profiles) + 1
      BY <2>1, <2>2, <3>2
    <3>3. QED  BY <2>2, <3>1, <3>2
  <2>4. QED  BY <2>3 DEF ReadFromHeld
<1>5. QED  BY <1>1, <1>2, <1>3, <1>4, ProfileSteps DEF RankUsers

\* Only the ranking answers.
LEMMA EarlyStep == IInv /\ [Next]_vars => Early'
<1> SUFFICES ASSUME IInv, [Next]_vars PROVE Early'
  OBVIOUS
<1>1. Early
  BY DEF IInv
<1>2. QED
  BY <1>1 DEF Early, Next, vars, ImportRow, FetchProfile, FetchUnreadable,
     RefuseType, Query, Fault, TargetNotFound, RankUsers

\* The answer is what sorting and cutting make of the similarities.
LEMMA RankUsersRanks ==
  ASSUME IInv, RankUsers
  PROVE  (\E k, at : Ranking(k, at))'
<1> DEFINE n == Cardinality(Users)
           V == TF_IDF(profiles)
<1>1. TypeOK /\ Distinct /\ profiles \in Seq(Profile)
  BY DEF IInv, TypeOK
<1>2. UNCHANGED <<profiles, target>>
  BY DEF RankUsers, request
<1>3. PICK k \in DOMAIN profiles :
        /\ IsTarget(profiles[k])
        /\ \E s \in Sorted(cosineSimilarity(V, k)) :
             answer' = [i \in DOMAIN Cut(s) |->
                         [id |-> profiles[s[i].at].id, score |-> s[i].score]]
  BY DEF RankUsers
<1>4. Len(profiles) = n /\ n \in Nat /\ DOMAIN profiles = 1..n
  BY <1>1, UsersCounted, DistinctCount DEF RankUsers, Fetched, Distinct
<1>5. DOMAIN V = 1..n /\ k \in 1..n
  BY <1>3, <1>4 DEF TF_IDF
<1>6. PICK s \in Sorted(cosineSimilarity(V, k)) :
        answer' = [i \in DOMAIN Cut(s) |->
                    [id |-> profiles[s[i].at].id, score |-> s[i].score]]
  BY <1>3
<1>7. SortedList(s, V, k, n)
  BY <1>4, <1>5, SortedIsList
<1> DEFINE at == [i \in 1..(n - 1) |-> s[i].at]
           m == Min({MaxResults, n - 1})
<1>8. m \in 0..(n - 1) /\ DOMAIN Cut(s) = 1..m
  <2>1. n - 1 \in Nat /\ s \in [1..(n - 1) -> Scores(V, k)]
    BY <1>4, <1>5, <1>7 DEF SortedList
  <2>2. QED  BY <2>1, CutIsPrefix
<1>9. answer' = [i \in 1..m |-> [id    |-> profiles[at[i]].id,
                                 score |-> Cosine(V[k], V[at[i]])]]
  <2>1. \A i \in 1..m : /\ s[i].at = at[i]
                        /\ s[i].score = Cosine(V[k], V[at[i]])
    BY <1>4, <1>5, <1>7, <1>8 DEF SortedList
  <2> HIDE DEF at, m, V
  <2>2. QED  BY <1>6, <1>8, <2>1
<1>10. /\ at \in [1..(n - 1) -> (1..n) \ {k}]
       /\ \A i, j \in 1..(n - 1) : i # j => at[i] # at[j]
       /\ \A p \in (1..n) \ {k} : \E i \in 1..(n - 1) : at[i] = p
       /\ \A i, j \in 1..(n - 1) :
            i < j => ~Above(Cosine(V[k], V[at[j]]), Cosine(V[k], V[at[i]]))
  <2> HIDE DEF V
  <2>1. QED  BY <1>7 DEF SortedList
<1>11. profiles[k].id = target
  BY <1>3 DEF IsTarget
<1>12. Ranking(k, at)'
  <2> HIDE DEF at
  <2>1. QED  BY <1>2, <1>4, <1>5, <1>9, <1>10, <1>11 DEF Ranking
<1>13. QED  BY <1>12

\* An answer is made by the ranking, and changed by nothing after it.
LEMMA AnsweredStep == IInv /\ [Next]_vars => Answered'
<1> SUFFICES ASSUME IInv, [Next]_vars, pc' = "answered"
             PROVE  (Fetched = Users /\ \E k, at : Ranking(k, at))'
  BY DEF Answered
<1>1. CASE UNCHANGED <<profiles, answer>> /\ pc = "answered"
  <2>1. target' = target
    BY ProfileSteps DEF IInv
  <2>2. PICK k, at : Ranking(k, at)
    BY <1>1 DEF IInv, Answered
  <2>3. Ranking(k, at)'
    BY <1>1, <2>1, <2>2 DEF Ranking
  <2>4. (Fetched = Users)'
    BY <1>1 DEF IInv, Answered, Fetched
  <2>5. QED  BY <2>3, <2>4
<1>2. CASE RankUsers
  <2>1. (Fetched = Users)'
    BY <1>2 DEF RankUsers, Fetched
  <2>2. QED  BY <1>2, <2>1, RankUsersRanks
<1>3. ASSUME NEW u \in Users, FetchProfile(u) PROVE FALSE
  BY <1>3 DEF FetchProfile
<1>4. QED  BY <1>1, <1>2, <1>3, ProfileSteps DEF IInv

\* Each step keeps the types: no more profiles than users, no longer answer
\* than the limit.
LEMMA TypeStep == IInv /\ [Next]_vars => TypeOK'
<1> SUFFICES ASSUME IInv, [Next]_vars PROVE TypeOK'
  OBVIOUS
<1> USE RecommenderAssumption
<1>1. TypeOK
  BY DEF IInv
<1>2. ASSUME NEW u \in Users, ImportRow(u) PROVE TypeOK'
  <2>1. docs'[u] \in Doc /\ docs' \in [Users -> Doc]
    <3>1. docs[u] \in Doc /\ Rows[u] \in Text
      BY <1>1 DEF TypeOK, Text
    <3>2. [docs[u] EXCEPT !.address = Rows[u]] \in Doc
      BY <3>1 DEF Doc
    <3>3. docs' = [docs EXCEPT ![u] = [docs[u] EXCEPT !.address = Rows[u]]]
      BY <1>2 DEF ImportRow
    <3>4. QED  BY <1>1, <3>2, <3>3 DEF TypeOK
  <2>2. held' \in [Users -> SUBSET Doc]
    BY <1>1, <1>2, <2>1 DEF ImportRow, TypeOK
  <2>3. QED  BY <1>1, <1>2, <2>1, <2>2 DEF TypeOK, ImportRow, request
<1>3. ASSUME NEW u \in Users, FetchProfile(u) PROVE TypeOK'
  <2>1. [id |-> u, tokens |-> TokensOf(docs[u])] \in Profile
    BY <1>1, <1>3, ReadableTokens DEF FetchProfile, TypeOK, Profile
  <2>2. profiles' \in Seq(Profile)
    BY <1>1, <1>3, <2>1 DEF FetchProfile, TypeOK
  <2>3. Len(profiles') <= Cardinality(Users)
    <3>1. Distinct'
      BY DistinctStep
    <3>2. QED  BY <2>2, <3>1, DistinctCount DEF Distinct
  <2>4. QED  BY <1>1, <1>3, <2>2, <2>3 DEF TypeOK, FetchProfile, request
<1>4. ASSUME NEW u \in Users, FetchUnreadable(u) PROVE TypeOK'
  BY <1>1, <1>4 DEF TypeOK, FetchUnreadable, request
<1>5. CASE Query
  BY <1>1, <1>5 DEF TypeOK, Query, request
<1>6. CASE RefuseType \/ Fault \/ TargetNotFound
  BY <1>1, <1>6 DEF TypeOK, RefuseType, Fault, TargetNotFound, request
<1>7. CASE RankUsers
  <2>1. UNCHANGED <<profiles, docs, toMove, request, held>> /\ pc' = "answered"
    BY <1>7 DEF RankUsers
  <2>2. PICK k, at : Ranking(k, at)'
    BY <1>7, RankUsersRanks
  <2> DEFINE n == Cardinality(Users)
             m == Min({MaxResults, n - 1})
             V == TF_IDF(profiles)
  <2>3. /\ Len(profiles) = n /\ k \in 1..n
        /\ at \in [1..(n - 1) -> (1..n) \ {k}]
        /\ answer' = [i \in 1..m |-> [id    |-> profiles[at[i]].id,
                                      score |-> Cosine(V[k], V[at[i]])]]
    BY <2>1, <2>2 DEF Ranking
  <2>4. ProfileList(profiles, n) /\ n \in Nat
    BY <1>1, <2>3, UsersCounted DEF ProfileList, TypeOK
  <2>5. m \in 0..(n - 1) /\ m <= MaxResults
    <3>1. n - 1 \in Nat /\ MaxResults \in Nat
      BY <2>3, <2>4
    <3>2. m = IF MaxResults <= n - 1 THEN MaxResults ELSE n - 1
      BY <3>1, LesserOfTwo
    <3>3. QED  BY <3>1, <3>2
  <2>6. ASSUME NEW i \in 1..m
        PROVE  [id |-> profiles[at[i]].id, score |-> Cosine(V[k], V[at[i]])]
                 \in [id : Users, score : Similarity]
    <3>1. at[i] \in 1..n
      BY <2>3, <2>4, <2>5
    <3>2. /\ IsVector(V[k]) /\ IsVector(V[at[i]]) /\ profiles[at[i]].id \in Users
      BY <2>3, <2>4, <3>1, VectorAt
    <3>3. Cosine(V[k], V[at[i]]) \in Similarity
      BY <3>2, CosineIs
    <3>4. QED  BY <3>2, <3>3
  <2>7. answer' \in Seq([id : Users, score : Similarity]) /\ Len(answer') = m
    <3> HIDE DEF m, V
    <3>1. QED  BY <2>3, <2>4, <2>5, <2>6
  <2>8. QED  BY <1>1, <2>1, <2>5, <2>7 DEF TypeOK, request
<1>8. CASE UNCHANGED vars
  BY <1>1, <1>8 DEF TypeOK, vars, request
<1>9. QED
  BY <1>2, <1>3, <1>4, <1>5, <1>6, <1>7, <1>8 DEF Next

\* The invariant holds of a request that was not started.
LEMMA IInit == Init => IInv
<1> SUFFICES ASSUME Init PROVE IInv
  OBVIOUS
<1>1. TypeOK
  <2>1. docs \in [Users -> Doc] /\ held \in [Users -> SUBSET Doc]
    BY RecommenderAssumption DEF Init
  <2>2. /\ profiles \in Seq(Profile) /\ Len(profiles) <= Cardinality(Users)
        /\ answer \in Seq([id : Users, score : Similarity])
        /\ Len(answer) <= MaxResults
    BY RecommenderAssumption, UsersCounted DEF Init
  <2>3. QED  BY <2>1, <2>2 DEF Init, TypeOK
<1>2. Early /\ Distinct /\ CurrentHeld /\ ReadFromHeld /\ Answered
  BY DEF Init, Early, Distinct, CurrentHeld, ReadFromHeld, Answered
<1>3. QED  BY <1>1, <1>2 DEF IInv

\* The invariant holds throughout a request.
LEMMA IInvHolds == Spec => []IInv
<1>1. IInv /\ [Next]_vars => IInv'
  BY TypeStep, EarlyStep, DistinctStep, CurrentHeldStep, ReadStep, AnsweredStep
  DEF IInv
<1>2. QED  BY <1>1, IInit, PTL DEF Spec

-----------------------------------------------------------------------------
(* What the invariant says of an answer.                                   *)

\* The answer has the first m of at, a ranking by the vectors V.
AnswerOf(k, at, n, V, m) ==
  /\ k \in 1..n /\ at \in [1..(n - 1) -> (1..n) \ {k}]
  /\ profiles[k].id = target
  /\ \A i, j \in 1..(n - 1) : i # j => at[i] # at[j]
  /\ \A p \in (1..n) \ {k} : \E i \in 1..(n - 1) : at[i] = p
  /\ \A i, j \in 1..(n - 1) :
       i < j => ~Above(Cosine(V[k], V[at[j]]), Cosine(V[k], V[at[i]]))
  /\ \A i \in 1..m : /\ answer[i].id = profiles[at[i]].id
                     /\ answer[i].score = Cosine(V[k], V[at[i]])

\* Of all n users, those but the target are ranked and a prefix is answered.
LEMMA AnswerIs ==
  ASSUME IInv, pc = "answered",
         NEW n, n = Cardinality(Users), NEW V, V = TF_IDF(profiles),
         NEW m, m = Min({MaxResults, n - 1})
  PROVE  /\ ProfileList(profiles, n) /\ DOMAIN profiles = 1..n
         /\ n \in Nat \ {0} /\ m \in 0..(n - 1)
         /\ m = MaxResults \/ m = n - 1
         /\ DOMAIN answer = 1..m /\ Len(answer) = m
         /\ \A u \in Users : \E i \in 1..n : profiles[i].id = u
         /\ \E k, at : AnswerOf(k, at, n, V, m)
<1>1. PICK k, at : Ranking(k, at)
  BY DEF IInv, Answered
<1>2. /\ Len(profiles) = n /\ k \in 1..n /\ profiles[k].id = target
      /\ at \in [1..(n - 1) -> (1..n) \ {k}]
      /\ \A i, j \in 1..(n - 1) : i # j => at[i] # at[j]
      /\ \A p \in (1..n) \ {k} : \E i \in 1..(n - 1) : at[i] = p
      /\ \A i, j \in 1..(n - 1) :
           i < j => ~Above(Cosine(V[k], V[at[j]]), Cosine(V[k], V[at[i]]))
      /\ answer = [i \in 1..m |-> [id    |-> profiles[at[i]].id,
                                  score |-> Cosine(V[k], V[at[i]])]]
  BY <1>1 DEF Ranking
<1>3. ProfileList(profiles, n) /\ DOMAIN profiles = 1..n /\ n \in Nat \ {0}
  BY <1>2, UsersCounted DEF IInv, TypeOK, ProfileList
<1>4. m \in 0..(n - 1) /\ (m = MaxResults \/ m = n - 1)
  <2>1. n - 1 \in Nat /\ MaxResults \in Nat
    BY <1>3, RecommenderAssumption
  <2>2. m = IF MaxResults <= n - 1 THEN MaxResults ELSE n - 1
    BY <2>1, LesserOfTwo
  <2>3. QED  BY <2>1, <2>2
<1>5. DOMAIN answer = 1..m /\ Len(answer) = m
  BY <1>2, <1>4
<1>6. \A u \in Users : \E i \in 1..n : profiles[i].id = u
  BY <1>3 DEF IInv, Answered, Fetched
<1>7. \A i \in 1..m : /\ answer[i].id = profiles[at[i]].id
                      /\ answer[i].score = Cosine(V[k], V[at[i]])
  BY <1>2
<1>8. AnswerOf(k, at, n, V, m)
  BY <1>2, <1>7 DEF AnswerOf
<1>9. QED  BY <1>3, <1>4, <1>5, <1>6, <1>8

\* What was read of a user is its one profile.
LEMMA TokensReadAre ==
  ASSUME IInv, NEW i \in DOMAIN profiles
  PROVE  TokensRead(profiles[i].id) = Range(profiles[i].tokens)
<1>1. {j \in DOMAIN profiles : profiles[j].id = profiles[i].id} = {i}
  BY DEF IInv, Distinct
<1>2. QED  BY <1>1 DEF TokensRead

\* The ids of a prefix of different profiles are as many as it is long.
LEMMA NobodyIsDropped == IInv => NobodyDropped
<1> SUFFICES ASSUME IInv, pc = "answered"
             PROVE  /\ Cardinality(Ids) = Len(answer)
                    /\ Len(answer) = Min({MaxResults, Cardinality(Users) - 1})
                    /\ target \notin Ids
  BY DEF NobodyDropped
<1> DEFINE n == Cardinality(Users)
           V == TF_IDF(profiles)
           m == Min({MaxResults, n - 1})
<1>1. /\ DOMAIN profiles = 1..n /\ n \in Nat \ {0} /\ m \in 0..(n - 1)
      /\ DOMAIN answer = 1..m /\ Len(answer) = m
  BY AnswerIs
<1>2. PICK k, at : AnswerOf(k, at, n, V, m)
  BY AnswerIs
<1> HIDE DEF n, m
<1>3. ASSUME NEW i \in 1..m
      PROVE  /\ answer[i].id = profiles[at[i]].id
             /\ i \in 1..(n - 1) /\ at[i] \in DOMAIN profiles /\ at[i] # k
  BY <1>1, <1>2 DEF AnswerOf
<1>4. target \notin Ids
  <2>1. SUFFICES ASSUME NEW i \in 1..m PROVE answer[i].id # target
    BY <1>1 DEF Ids
  <2>2. profiles[at[i]].id # profiles[k].id
    BY <1>1, <1>2, <1>3 DEF IInv, Distinct, AnswerOf
  <2>3. QED  BY <1>2, <1>3, <2>2 DEF AnswerOf
<1>5. Cardinality(Ids) = m
  <2> DEFINE f == [i \in 1..m |-> answer[i].id]
  <2>1. ASSUME NEW i \in 1..m, NEW j \in 1..m, i # j
        PROVE  answer[i].id # answer[j].id
    <3>1. at[i] # at[j]
      BY <1>2, <1>3, <2>1 DEF AnswerOf
    <3>2. QED  BY <1>3, <3>1 DEF IInv, Distinct
  <2>2. f \in Bijection(1..m, Ids)
    BY <1>1, <2>1 DEF Ids, Bijection, Injection, Surjection, IsInjective
  <2>3. ExistsBijection(1..m, Ids)
    BY <2>2 DEF ExistsBijection
  <2>4. IsFiniteSet(1..m) /\ Cardinality(1..m) = m
    BY <1>1, FS_Interval
  <2>5. QED  BY <2>3, <2>4, FS_Bijection
<1>6. QED  BY <1>1, <1>4, <1>5 DEF n, m

\* Similarity 0 is below any other, so that a stranger in the answer comes
\* after all the others.
LEMMA SharersAreFirst == IInv => SharersFirst
<1> SUFFICES ASSUME IInv, pc = "answered", NEW i \in DOMAIN answer
             PROVE  /\ answer[i].score.dot = 0 <=> answer[i].id \in Strangers
                    /\ answer[i].id \in Strangers =>
                         Users \ ({target} \cup Strangers)
                           \subseteq {answer[j].id : j \in 1..(i - 1)}
  BY DEF SharersFirst
<1> DEFINE n == Cardinality(Users)
           V == TF_IDF(profiles)
           m == Min({MaxResults, n - 1})
<1>1. /\ ProfileList(profiles, n) /\ DOMAIN profiles = 1..n
      /\ n \in Nat \ {0} /\ m \in 0..(n - 1) /\ DOMAIN answer = 1..m
      /\ \A u \in Users : \E p \in 1..n : profiles[p].id = u
  BY AnswerIs
<1>2. PICK k, at : AnswerOf(k, at, n, V, m)
  BY AnswerIs
<1> HIDE DEF n, m, V
<1>3. ASSUME NEW p \in 1..n
      PROVE  /\ Cosine(V[k], V[p]) \in Similarity
             /\ profiles[p].id \in Users
             /\ Cosine(V[k], V[p]).dot = 0 <=> profiles[p].id \in Strangers
  <2>1. /\ IsVector(V[k]) /\ IsVector(V[p]) /\ profiles[p].id \in Users
        /\ DOMAIN V[k] = Range(profiles[k].tokens)
        /\ DOMAIN V[p] = Range(profiles[p].tokens)
    BY <1>1, <1>2, VectorAt DEF AnswerOf, V
  <2>2. /\ DOMAIN V[k] = TokensRead(target)
        /\ DOMAIN V[p] = TokensRead(profiles[p].id)
    BY <1>1, <1>2, <2>1, TokensReadAre DEF AnswerOf
  <2>3. /\ Cosine(V[k], V[p]) \in Similarity
        /\ Cosine(V[k], V[p]).dot = 0 <=> DOMAIN V[k] \cap DOMAIN V[p] = {}
    BY <2>1, CosineIs
  <2>4. QED  BY <2>1, <2>2, <2>3 DEF Strangers
<1>4. /\ i \in 1..m /\ i \in 1..(n - 1) /\ at[i] \in 1..n
      /\ answer[i].id = profiles[at[i]].id
      /\ answer[i].score = Cosine(V[k], V[at[i]])
  BY <1>1, <1>2 DEF AnswerOf
<1>5. answer[i].score.dot = 0 <=> answer[i].id \in Strangers
  BY <1>3, <1>4
<1>6. ASSUME answer[i].id \in Strangers,
             NEW u \in Users \ ({target} \cup Strangers)
      PROVE  \E j \in 1..(i - 1) : answer[j].id = u
  <2>1. PICK p \in (1..n) \ {k} : profiles[p].id = u
    BY <1>1, <1>2, <1>6 DEF AnswerOf
  <2>2. PICK j \in 1..(n - 1) : at[j] = p
    BY <1>2, <2>1 DEF AnswerOf
  <2> DEFINE r == Cosine(V[k], V[at[i]])
             s == Cosine(V[k], V[at[j]])
  <2>3. /\ r \in Similarity /\ s \in Similarity /\ r.dot = 0 /\ s.dot # 0
    BY <1>3, <1>4, <1>6, <2>1, <2>2
  <2>4. Above(s, r)
    <3> HIDE DEF r, s
    <3>1. /\ s.dot \in Nat \ {0} /\ r.own \in Nat \ {0} /\ s.own \in Nat
          /\ r.dot = 0
      BY <2>3 DEF Similarity
    <3>2. s.dot * s.dot * r.own > 0
      BY <3>1
    <3>3. r.dot * r.dot * s.own = 0
      BY <3>1
    <3>4. QED  BY <3>2, <3>3 DEF Above
  <2>5. ~(i < j)
    BY <1>2, <1>4, <2>4 DEF AnswerOf
  <2>6. i # j
    BY <2>3
  <2>7. j \in 1..(i - 1) /\ j \in 1..m
    BY <1>1, <1>4, <2>2, <2>5, <2>6
  <2>8. answer[j].id = u
    BY <1>2, <2>1, <2>2, <2>7 DEF AnswerOf
  <2>9. QED  BY <2>7, <2>8
<1>7. QED  BY <1>5, <1>6

-----------------------------------------------------------------------------
(* The weights.                                                            *)

HoldersOf(t) == {i \in DOMAIN profiles : t \in Range(profiles[i].tokens)}

(* Of two tokens that a user has equally often, the one that fewer users   *)
(* have weighs more, however often somebody repeats it.                    *)
RarerWeighsMore ==
  pc = "answered" =>
    LET V == TF_IDF(profiles)
    IN  \A i \in DOMAIN profiles : \A t, r \in DOMAIN V[i] :
          /\ TF(profiles[i].tokens, t) = TF(profiles[i].tokens, r)
          /\ Cardinality(HoldersOf(t)) < Cardinality(HoldersOf(r))
          => V[i][t] > V[i][r]

\* A token occurs equally often, the weights fall with its holders.
LEMMA RarerWeighMore == IInv => RarerWeighsMore
<1> SUFFICES ASSUME IInv, pc = "answered",
                    NEW V, V = TF_IDF(profiles), NEW i \in DOMAIN profiles,
                    NEW t \in DOMAIN V[i], NEW r \in DOMAIN V[i],
                    TF(profiles[i].tokens, t) = TF(profiles[i].tokens, r),
                    Cardinality(HoldersOf(t)) < Cardinality(HoldersOf(r))
             PROVE  V[i][t] > V[i][r]
  BY DEF RarerWeighsMore
<1> DEFINE n == Cardinality(Users)
           w == profiles[i].tokens
           ht == Cardinality(HoldersOf(t))
           hr == Cardinality(HoldersOf(r))
<1>1. ProfileList(profiles, n) /\ i \in 1..n /\ DOMAIN profiles = 1..n
  BY AnswerIs
<1>2. /\ n \in 1..Cardinality(Users) /\ w \in Seq(Tokens)
      /\ V[i] = [x \in Range(w) |->
                   TF(w, x) * Idf(Cardinality(Holders(profiles, 1..n, x)), n)]
      /\ \A x \in Range(w) : Cardinality(Holders(profiles, 1..n, x)) \in 1..n
  <2> DEFINE W == TF_IDF(profiles)
  <2>1. /\ n \in 1..Cardinality(Users) /\ profiles[i].tokens \in Seq(Tokens)
        /\ W[i] = [x \in Range(profiles[i].tokens) |->
                     TF(profiles[i].tokens, x)
                       * Idf(Cardinality(Holders(profiles, 1..n, x)), n)]
        /\ \A x \in Range(profiles[i].tokens) :
             Cardinality(Holders(profiles, 1..n, x)) \in 1..n
    <3> HIDE DEF n, w, ht, hr, W
    <3>1. ProfileList(profiles, n) /\ i \in 1..n
      BY <1>1
    <3>2. QED  BY <3>1, VectorAt DEF W
  <2>2. V = W
    OBVIOUS
  <2> HIDE DEF n, W
  <2>3. QED  BY <2>1, <2>2
<1>3. \A x : HoldersOf(x) = Holders(profiles, 1..n, x)
  BY <1>1 DEF HoldersOf, Holders
<1>4. t \in Range(w) /\ r \in Range(w)
  BY <1>2
<1>5. ht \in 1..n /\ hr \in 1..n /\ ht < hr
  BY <1>2, <1>3, <1>4
<1>6. V[i][t] = TF(w, t) * Idf(ht, n) /\ V[i][r] = TF(w, t) * Idf(hr, n)
  BY <1>2, <1>3, <1>4
<1>7. TF(w, t) \in Nat \ {0}
  BY <1>2, <1>4, TokenIsCounted
<1> HIDE DEF n, w, ht, hr
<1>8. /\ Idf(ht, n) \in Nat /\ Idf(hr, n) \in Nat /\ Idf(ht, n) > Idf(hr, n)
  BY <1>2, <1>5, WeightsDecrease, RecommenderAssumption DEF n
<1>9. QED  BY <1>6, <1>7, <1>8

\* cosineSimilarity is at most 1 for any two vectors of positive weights: the
\* square of a . b is at most a . a times b . b.
THEOREM CosineBound ==
  ASSUME NEW a, NEW b, IsVector(a), IsVector(b)
  PROVE  Cosine(a, b).dot * Cosine(a, b).dot <= Dot(a, a) * Cosine(a, b).own
<1>1. Dot(a, a) \in Nat
  BY DotPositive
<1>2. CASE Dot(a, a) > 0 /\ Dot(b, b) > 0
  BY <1>2, DotBound DEF Cosine
<1>3. CASE ~(Dot(a, a) > 0 /\ Dot(b, b) > 0)
  <2>1. Cosine(a, b) = [dot |-> 0, own |-> 1]
    BY <1>3 DEF Cosine
  <2>2. QED  BY <1>1, <2>1
<1>4. QED  BY <1>2, <1>3

\* Nothing is above what the vector itself is not above.
LEMMA NoneAboveTwin ==
  ASSUME NEW a, NEW b, NEW c, IsVector(a), IsVector(b), IsVector(c), DOMAIN a # {},
         ~Above(Cosine(a, a), Cosine(a, c))
  PROVE  ~Above(Cosine(a, b), Cosine(a, c))
<1> DEFINE d == Dot(a, a)
           r == Cosine(a, b)
           s == Cosine(a, c)
<1>1. d \in Nat \ {0}
  BY DotPositive
<1>2. Cosine(a, a) = [dot |-> d, own |-> d]
  BY <1>1 DEF Cosine
<1>3. /\ r.dot \in Nat /\ r.own \in Nat /\ s.dot \in Nat /\ s.own \in Nat
  BY CosineIs DEF Similarity
<1>4. r.dot * r.dot <= d * r.own
  BY CosineBound
<1>5. d * d * s.own <= s.dot * s.dot * d
  BY <1>1, <1>2, <1>3 DEF Above
<1> SUFFICES r.dot * r.dot * s.own <= s.dot * s.dot * r.own
  BY <1>3 DEF Above
<1> HIDE DEF d, r, s
<1>6. d * s.own <= s.dot * s.dot
  BY <1>1, <1>3, <1>5
<1>7. r.dot * r.dot * s.own <= (d * r.own) * s.own
  BY <1>1, <1>3, <1>4
<1>8. (d * s.own) * r.own <= s.dot * s.dot * r.own
  BY <1>1, <1>3, <1>6
<1>9. (d * r.own) * s.own = (d * s.own) * r.own
  BY <1>1, <1>3
<1>10. /\ r.dot * r.dot * s.own \in Nat /\ (d * r.own) * s.own \in Nat
       /\ s.dot * s.dot * r.own \in Nat
  BY <1>1, <1>3
<1>11. QED  BY <1>7, <1>8, <1>9, <1>10

\* Profiles with the same tokens, each as often, have the same vector.
LEMMA TwinsHaveOneVector ==
  ASSUME IInv, NEW n, ProfileList(profiles, n), NEW k \in 1..n, NEW p \in 1..n,
         SameTokens(held[profiles[p].id] \cup held[profiles[k].id])
  PROVE  /\ TF_IDF(profiles)[p] = TF_IDF(profiles)[k]
         /\ DOMAIN TF_IDF(profiles)[k] # {}
<1> DEFINE v == profiles[p].tokens
           w == profiles[k].tokens
<1>1. DOMAIN profiles = 1..n /\ v \in Seq(Tokens) /\ w \in Seq(Tokens)
  BY VectorAt
<1>2. PICK d \in held[profiles[p].id] : v = TokensOf(d)
  BY <1>1 DEF IInv, ReadFromHeld
<1>3. PICK e \in held[profiles[k].id] : w = TokensOf(e)
  BY <1>1 DEF IInv, ReadFromHeld
<1>4. w # <<>> /\ \A t \in Tokens : TF(v, t) = TF(w, t)
  BY <1>2, <1>3 DEF SameTokens
<1>5. Range(v) \subseteq Tokens /\ Range(w) \subseteq Tokens /\ Range(w) # {}
  <2>1. /\ DOMAIN v = 1..Len(v) /\ \A i \in DOMAIN v : v[i] \in Tokens
        /\ DOMAIN w = 1..Len(w) /\ \A i \in DOMAIN w : w[i] \in Tokens
        /\ 1 \in DOMAIN w
    <3> HIDE DEF v, w
    <3>1. QED  BY <1>1, <1>4
  <2>2. QED  BY <2>1 DEF Range
<1>6. Range(v) = Range(w)
  <2>1. \A t \in Tokens : t \in Range(v) <=> t \in Range(w)
    BY <1>1, <1>4, TokenIsCounted
  <2>2. QED  BY <1>5, <2>1
<1>7. /\ TF_IDF(profiles)[p]
           = [t \in Range(v) |->
               TF(v, t) * Idf(Cardinality(Holders(profiles, 1..n, t)), n)]
      /\ TF_IDF(profiles)[k]
           = [t \in Range(w) |->
               TF(w, t) * Idf(Cardinality(Holders(profiles, 1..n, t)), n)]
  BY VectorAt
<1> HIDE DEF v, w
<1>8. QED  BY <1>4, <1>5, <1>6, <1>7

\* A twin has the vector of the target, hence cosine 1, and whoever is in
\* front of it is not above.
LEMMA TwinsAreOnTop == IInv => TwinOnTop
<1> SUFFICES ASSUME IInv, pc = "answered", NEW u \in Users \ {target},
                    SameTokens(held[u] \cup held[target])
             PROVE  IF u \in Ids
                      THEN \A i, j \in DOMAIN answer :
                             answer[j].id = u =>
                               ~Above(answer[i].score, answer[j].score)
                      ELSE /\ Len(answer) = MaxResults
                           /\ \A i, j \in DOMAIN answer :
                                ~Above(answer[i].score, answer[j].score)
  BY DEF TwinOnTop
<1> DEFINE n == Cardinality(Users)
           V == TF_IDF(profiles)
           m == Min({MaxResults, n - 1})
<1>1. /\ ProfileList(profiles, n) /\ DOMAIN profiles = 1..n
      /\ n \in Nat \ {0} /\ m \in 0..(n - 1) /\ (m = MaxResults \/ m = n - 1)
      /\ DOMAIN answer = 1..m /\ Len(answer) = m
      /\ \A x \in Users : \E p \in 1..n : profiles[p].id = x
  BY AnswerIs
<1>2. PICK k, at : AnswerOf(k, at, n, V, m)
  BY AnswerIs
<1> HIDE DEF n, m
<1>3. PICK p \in 1..n : profiles[p].id = u
  BY <1>1
<1>4. p # k /\ k \in 1..n /\ profiles[k].id = target
  BY <1>2, <1>3 DEF AnswerOf
<1>5. V[p] = V[k] /\ DOMAIN V[k] # {}
  BY <1>1, <1>3, <1>4, TwinsHaveOneVector
<1>6. \A i \in 1..n : IsVector(V[i])
  BY <1>1, VectorAt
<1> HIDE DEF V
<1>7. ASSUME NEW i \in DOMAIN answer
      PROVE  /\ i \in 1..m /\ i \in 1..(n - 1) /\ at[i] \in 1..n
             /\ answer[i].id = profiles[at[i]].id
             /\ answer[i].score = Cosine(V[k], V[at[i]])
  BY <1>1, <1>2 DEF AnswerOf
<1>8. ASSUME NEW i \in DOMAIN answer, NEW j \in DOMAIN answer,
             ~Above(Cosine(V[k], V[k]), Cosine(V[k], V[at[j]]))
      PROVE  ~Above(answer[i].score, answer[j].score)
  <2>1. IsVector(V[k]) /\ IsVector(V[at[i]]) /\ IsVector(V[at[j]])
    BY <1>4, <1>6, <1>7
  <2>2. ~Above(Cosine(V[k], V[at[i]]), Cosine(V[k], V[at[j]]))
    BY <1>5, <1>8, <2>1, NoneAboveTwin
  <2>3. QED  BY <1>7, <2>2
<1>9. ~Above(Cosine(V[k], V[k]), Cosine(V[k], V[k]))
  <2>1. Cosine(V[k], V[k]) \in Similarity
    BY <1>4, <1>6, CosineIs
  <2>2. QED
    <3> DEFINE r == Cosine(V[k], V[k])
    <3> HIDE DEF r
    <3>1. r.dot \in Nat /\ r.own \in Nat
      BY <2>1 DEF r, Similarity
    <3>2. ~Above(r, r)
      BY <3>1 DEF Above
    <3>3. QED  BY <3>2 DEF r
<1>10. ASSUME u \in Ids, NEW i \in DOMAIN answer, NEW j \in DOMAIN answer,
              answer[j].id = u
       PROVE  ~Above(answer[i].score, answer[j].score)
  <2>1. at[j] = p
    BY <1>1, <1>3, <1>7, <1>10 DEF IInv, Distinct
  <2>2. QED  BY <1>5, <1>8, <1>9, <2>1
<1>11. ASSUME u \notin Ids
       PROVE  /\ Len(answer) = MaxResults
              /\ \A i, j \in DOMAIN answer :
                   ~Above(answer[i].score, answer[j].score)
  <2>1. PICK q \in 1..(n - 1) : at[q] = p
    BY <1>2, <1>3, <1>4 DEF AnswerOf
  <2>2. q \notin 1..m
    <3>1. SUFFICES ASSUME q \in 1..m PROVE FALSE
      OBVIOUS
    <3>2. answer[q].id = u /\ q \in DOMAIN answer
      BY <1>1, <1>3, <1>7, <2>1, <3>1
    <3>3. QED  BY <1>11, <3>2 DEF Ids
  <2>3. Len(answer) = MaxResults
    BY <1>1, <2>1, <2>2
  <2>4. ASSUME NEW i \in DOMAIN answer, NEW j \in DOMAIN answer
        PROVE  ~Above(answer[i].score, answer[j].score)
    <3>1. j \in 1..(n - 1) /\ j < q
      BY <1>1, <1>7, <2>1, <2>2
    <3>2. ~Above(Cosine(V[k], V[at[q]]), Cosine(V[k], V[at[j]]))
      BY <1>2, <2>1, <3>1 DEF AnswerOf
    <3>3. QED  BY <1>5, <1>8, <2>1, <3>2
  <2>5. QED  BY <2>3, <2>4
<1>12. QED  BY <1>10, <1>11

-----------------------------------------------------------------------------
(* The theorems.                                                           *)

\* The state has its types through a request of rankUsers: at most one profile
\* for each user is read, at most MaxResults are answered.
THEOREM RecommenderTyped == Spec => []TypeOK
BY IInvHolds, PTL DEF IInv

\* A request that is answered names different users other than the target, as
\* many as there are up to the limit: fetchUserData gives all or nothing.
THEOREM NobodyEverDropped == Spec => []NobodyDropped
BY IInvHolds, NobodyIsDropped, PTL

\* The score of rankUsers is positive just for those who share a token with
\* the target, and nobody else takes the place of one of them.
THEOREM SharersAlwaysFirst == Spec => []SharersFirst
BY IInvHolds, SharersAreFirst, PTL

\* Whoever has the very tokens of the target since the query is outranked by
\* nobody, whatever the weights: cosineSimilarity is at most 1.
THEOREM TwinsAlwaysOnTop == Spec => []TwinOnTop
BY IInvHolds, TwinsAreOnTop, PTL

\* TF_IDF gives the rarer of two tokens that a user has equally often the
\* greater weight, however often others repeat it.
THEOREM RarerAlwaysWeighsMore == Spec => []RarerWeighsMore
BY IInvHolds, RarerWeighMore, PTL
=============================================================================
