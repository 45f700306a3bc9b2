----------------------------- MODULE ScoreProofs -----------------------------
(***************************************************************************)
(* The run of MCPopularity compares entities with small counters, the      *)
(* theorems here any two entities it can ever hold.                        *)
(***************************************************************************)
EXTENDS MCPopularity, PopularityProofs

(* The entities of MCPopularity.                                           *)

Entity == [received : Nat, made : Nat, matches : Nat, field : BudgetField]

EntitiesOK == left \in Entity /\ right \in Entity

LEMMA FieldsAreBudgets == Fields \subseteq BudgetField
BY DEF Fields, BudgetField, Double

\* Growing an entity keeps its counters natural numbers and its budget.
LEMMA GrownIsEntity ==
  ASSUME NEW e \in Entity, NEW g \in Grown(e)
  PROVE  g \in Entity
BY DEF Grown, Entity

LEMMA EntitiesAlwaysOK == Spec => []EntitiesOK
<1>1. Init => EntitiesOK
  BY FieldsAreBudgets DEF Init, Fresh, Entity, EntitiesOK
<1>2. EntitiesOK /\ [Next]_vars => EntitiesOK'
  BY GrownIsEntity DEF Next, GrowLeft, GrowRight, EntitiesOK, vars
<1>3. QED  BY <1>1, <1>2, PTL DEF Spec

\* What parseBudget and calculatePopularity return is a double.
LEMMA ScoreIsDouble ==
  ASSUME NEW e \in Entity
  PROVE  Budget(e) \in Double /\ Score(e) \in Double
<1>1. Budget(e) \in Double
  BY DEF Entity, BudgetField, Budget, parseBudget, Double
<1>2. Score(e) \in Double
  BY <1>1, SpecialValues
  DEF Score, calculatePopularity, normalizeBudget, Affine, Entity, Double,
      Unit, HalfUnit, MinBudget
<1>3. QED  BY <1>1, <1>2

\* Every rank is in the documented range, whatever the budget text spells.
THEOREM RankAlwaysInRange == Spec => []RankInRange
<1>1. EntitiesOK => RankInRange
  BY ScoreIsDouble, RankIsInRange DEF EntitiesOK, RankInRange, Rank
<1>2. QED  BY <1>1, EntitiesAlwaysOK, PTL

(* Clamping never inverts an order: an entity with a lower stored          *)
(* popularity is never recommended ahead because of normalizePopularity.   *)
RankKeepsOrder ==
  Less(Score(left), Score(right)) => ~Less(Rank(right), Rank(left))

\* Sorting by rank never puts the less popular of two entities first.
THEOREM RankAlwaysKeepsOrder == Spec => []RankKeepsOrder
<1>1. EntitiesOK => RankKeepsOrder
  <2> SUFFICES ASSUME EntitiesOK, Less(Score(left), Score(right))
               PROVE  ~Less(Rank(right), Rank(left))
    BY DEF RankKeepsOrder
  <2>1. Rank(left) \in 0..One /\ Rank(right) \in 0..One
    BY ScoreIsDouble, RankIsInRange DEF EntitiesOK, Rank
  <2>2. Rank(left) <= Rank(right)
    BY ScoreIsDouble, RankIsMonotone DEF EntitiesOK, Rank
  <2>3. QED  BY <2>1, <2>2, IntegersAreNotSpecial, ScaleType
             DEF Less
<1>2. QED  BY <1>1, EntitiesAlwaysOK, PTL

\* The score splits into half units of activity and the budget's share.
LEMMA ScoreOfActivity ==
  ASSUME NEW e \in Entity, Budget(e) \in Int
  PROVE  Score(e) = 995 * Activity(e) + 2 * (Budget(e) - 1)
BY DEF Entity, Score, calculatePopularity, normalizeBudget, Affine, Activity,
       Unit, HalfUnit, MinBudget

\* A difference of budgets that stays below MaxSpread, out of the documented
\* range or within it, never outweighs half a swipe.
THEOREM BudgetAlwaysBreaksTies == Spec => []BudgetOnlyBreaksTies
<1>1. EntitiesOK => BudgetOnlyBreaksTies
  <2> SUFFICES ASSUME EntitiesOK,
                      Budget(left) \in Int, Budget(right) \in Int,
                      Budget(left) - Budget(right) <= MaxSpread,
                      Activity(left) < Activity(right)
               PROVE  Less(Score(left), Score(right))
    BY DEF BudgetOnlyBreaksTies
  <2>1. Budget(left) - Budget(right) <= 497
    BY DEF MaxSpread
  <2>2. Activity(left) \in Int /\ Activity(right) \in Int
    BY DEF EntitiesOK, Entity, Activity
  <2>3. /\ Score(left)  = 995 * Activity(left)  + 2 * (Budget(left) - 1)
        /\ Score(right) = 995 * Activity(right) + 2 * (Budget(right) - 1)
    BY ScoreOfActivity DEF EntitiesOK
  <2>4. /\ Score(left) \in Int /\ Score(right) \in Int
        /\ Score(left) < Score(right)
    BY <2>1, <2>2, <2>3
  <2>5. QED  BY <2>4, IntegersAreNotSpecial DEF Less
<1>2. QED  BY <1>1, EntitiesAlwaysOK, PTL

=============================================================================
