---------------------------- MODULE MCPopularity ----------------------------
(***************************************************************************)
(* Two entities whose counters grow from zero in every order, each with a  *)
(* budget of every kind, so that TLC compares the scores of every pair.    *)
(***************************************************************************)
EXTENDS Popularity

CONSTANT MaxCount    \* bound on each counter

VARIABLES left, right

vars == <<left, right>>

\* Budgets around both ends of the documented range and as far above it as
\* MaxSpread reaches, and what stod makes of "nan", "inf", "-inf" and of a text
\* it rejects.
Fields ==
  [bson : {"string"},
   spells : {0, 1, 3, 200, 201, 698, NaN, PosInf, NegInf, Garbage}]
    \cup [bson : {"absent", "other"}, spells : {Garbage}]

Fresh(field) == [received |-> 0, made |-> 0, matches |-> 0, field |-> field]

Init ==
  /\ left  \in {Fresh(f) : f \in Fields}
  /\ right \in {Fresh(f) : f \in Fields}

\* One more swipe received, swipe made or match.
Grown(entity) ==
  {[entity EXCEPT !.received = @ + 1],
   [entity EXCEPT !.made = @ + 1],
   [entity EXCEPT !.matches = @ + 1]}

Bounded(entity) ==
  entity.received <= MaxCount /\ entity.made <= MaxCount
    /\ entity.matches <= MaxCount

GrowLeft  == left'  \in {e \in Grown(left)  : Bounded(e)} /\ UNCHANGED right
GrowRight == right' \in {e \in Grown(right) : Bounded(e)} /\ UNCHANGED left

Next == GrowLeft \/ GrowRight

Spec == Init /\ [][Next]_vars

-----------------------------------------------------------------------------
Budget(entity) == parseBudget(entity.field)

Score(entity) ==
  calculatePopularity(entity.received, entity.made, entity.matches,
                      Budget(entity))

Rank(entity) == normalizePopularity(Score(entity))

(* normalizePopularity returns a number between 0.0 and 1.0 whatever the   *)
(* budget text spells.  A NaN here would make the comparator of the        *)
(* std::sort in getRecommendations no strict weak order.                   *)
RankInRange == Rank(left) \in 0..One

Activity(entity) == 2 * entity.received - entity.made + 4 * entity.matches

(* Nothing clamps the budget, so an entity without one is below the        *)
(* documented range and a text of more than 100000 above it.  Even so the  *)
(* budget term only separates entities whose swipes and matches weigh the  *)
(* same, as long as both budgets are finite and no more than MaxSpread     *)
(* apart, which any two in the documented range, or 0, are.                *)
MaxSpread == 497    \* in steps of 500

BudgetOnlyBreaksTies ==
  (/\ {Budget(left), Budget(right)} \subseteq Int
   /\ Budget(left) - Budget(right) <= MaxSpread
   /\ Activity(left) < Activity(right))
    => Less(Score(left), Score(right))

=============================================================================
