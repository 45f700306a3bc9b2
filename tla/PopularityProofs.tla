-------------------------- MODULE PopularityProofs --------------------------
(***************************************************************************)
(* What normalizePopularity returns for every double, the special values   *)
(* included.                                                               *)
(***************************************************************************)
EXTENDS Popularity, TLAPS

LEMMA Scale == MinPopularity = -99500 /\ One = 6467500
BY DEF One, MaxPopularity, MinPopularity, Unit, HalfUnit

LEMMA ScaleType == MinPopularity \in Int /\ One \in Nat
BY Scale

LEMMA IntegersAreNotSpecial ==
  NaN \notin Int /\ PosInf \notin Int /\ NegInf \notin Int
BY SpecialValues

\* What std::min and std::max return for two integers.
LEMMA MinMaxOfIntegers ==
  ASSUME NEW a \in Int, NEW b \in Int
  PROVE  /\ StdMin(a, b) = IF b < a THEN b ELSE a
         /\ StdMax(a, b) = IF a < b THEN b ELSE a
BY IntegersAreNotSpecial DEF StdMin, StdMax, Less

\* The clamp, case by case.  A NaN becomes 1.0: std::min compares once, in
\* vain, and returns its first argument.
LEMMA Clamp ==
  /\ \A x \in Int : normalizePopularity(x) =
       IF One < x - MinPopularity THEN One
       ELSE IF x < MinPopularity THEN 0 ELSE x - MinPopularity
  /\ normalizePopularity(NaN) = One
  /\ normalizePopularity(PosInf) = One
  /\ normalizePopularity(NegInf) = 0
<1>1. ASSUME NEW x \in Int
      PROVE  normalizePopularity(x) =
               IF One < x - MinPopularity THEN One
               ELSE IF x < MinPopularity THEN 0 ELSE x - MinPopularity
  <2> DEFINE shifted == x - MinPopularity
             least   == IF shifted < One THEN shifted ELSE One
  <2>1. shifted \in Int /\ One \in Int /\ least \in Int
    BY Scale
  <2>2. Affine(1, x, -MinPopularity) = shifted
    BY Scale DEF Affine
  <2>3. StdMin(One, shifted) = least
    BY <2>1, MinMaxOfIntegers
  <2>4. StdMax(0, least) = IF 0 < least THEN least ELSE 0
    BY <2>1, MinMaxOfIntegers
  <2>5. normalizePopularity(x) = IF 0 < least THEN least ELSE 0
    BY <2>2, <2>3, <2>4 DEF normalizePopularity
  <2>6. QED  BY <2>5, Scale
<1>2. StdMax(0, One) = One
  BY Scale, MinMaxOfIntegers
<1>3. normalizePopularity(NaN) = One
  <2>1. StdMin(One, NaN) = One
    BY DEF StdMin, Less
  <2>2. QED  BY <1>2, <2>1, IntegersAreNotSpecial DEF normalizePopularity, Affine
<1>4. normalizePopularity(PosInf) = One
  <2>1. StdMin(One, PosInf) = One
    <3>1. PosInf # One /\ PosInf # NegInf
      BY Scale, SpecialValues
    <3>2. One # PosInf /\ One # NegInf
      BY Scale, IntegersAreNotSpecial
    <3>3. QED  BY <3>1, <3>2, IntegersAreNotSpecial DEF StdMin, Less
  <2>2. QED  BY <1>2, <2>1, IntegersAreNotSpecial DEF normalizePopularity, Affine
<1>5. normalizePopularity(NegInf) = 0
  <2>1. NaN # One /\ NegInf # One /\ NaN # 0 /\ NegInf # 0 /\ PosInf # 0
    BY Scale, IntegersAreNotSpecial
  <2>2. StdMin(One, NegInf) = NegInf
    BY <2>1, SpecialValues DEF StdMin, Less
  <2>3. StdMax(0, NegInf) = 0
    BY <2>1, SpecialValues, IntegersAreNotSpecial DEF StdMax, Less
  <2>4. QED  BY <2>2, <2>3, IntegersAreNotSpecial DEF normalizePopularity, Affine
<1>6. QED  BY <1>1, <1>3, <1>4, <1>5

\* normalizePopularity is a number in its documented range for every double.
THEOREM RankIsInRange ==
  ASSUME NEW x \in Double
  PROVE  normalizePopularity(x) \in 0..One
<1>1. CASE x \in Int
  <2> DEFINE shifted == x - MinPopularity
  <2>1. shifted \in Int /\ (x < MinPopularity <=> shifted < 0)
    BY <1>1, ScaleType
  <2>2. normalizePopularity(x) =
          IF One < shifted THEN One ELSE IF shifted < 0 THEN 0 ELSE shifted
    BY <1>1, <2>1, Clamp
  <2> HIDE DEF shifted
  <2>3. QED  BY <2>1, <2>2, ScaleType
<1>2. CASE x \in {NaN, PosInf, NegInf}
  BY <1>2, Clamp, ScaleType
<1>3. QED  BY <1>1, <1>2 DEF Double

\* normalizePopularity is monotone: clamping never inverts an order.
THEOREM RankIsMonotone ==
  ASSUME NEW x \in Double, NEW y \in Double, Less(x, y)
  PROVE  normalizePopularity(x) <= normalizePopularity(y)
<1>1. CASE x \in Int /\ y \in Int
  <2>1. x < y
    BY <1>1, IntegersAreNotSpecial DEF Less
  <2>2. QED  BY <1>1, <2>1, Clamp, ScaleType
<1>2. CASE x = NegInf
  <2>1. normalizePopularity(x) = 0
    BY <1>2, Clamp
  <2>2. normalizePopularity(y) \in 0..One
    BY RankIsInRange
  <2>3. QED  BY <2>1, <2>2, ScaleType
<1>3. CASE y = PosInf
  <2>1. normalizePopularity(y) = One
    BY <1>3, Clamp
  <2>2. normalizePopularity(x) \in 0..One
    BY RankIsInRange
  <2>3. QED  BY <2>1, <2>2, ScaleType
<1>4. x = NegInf \/ y = PosInf \/ (x \in Int /\ y \in Int)
  BY DEF Less
<1>5. QED  BY <1>1, <1>2, <1>3, <1>4

=============================================================================
