----------------------------- MODULE Popularity -----------------------------
(***************************************************************************)
(* The popularity arithmetic of backend/src/Matcher.cpp: the score that a  *)
(* like stores on its target, and the normalised score that               *)
(* recommendations are sorted by.                                          *)
(*                                                                         *)
(* The code computes in double.  The weights are multiples of 0.1 and the  *)
(* budget range spans 199 steps of 500, so with budgets counted in steps   *)
(* of 500 every finite value is an exact integer in units of 1/Unit.       *)
(* Rounding is abstracted away.  The special values of double stay: stod   *)
(* accepts "nan" and "inf", and the order of the arguments of std::min and *)
(* std::max decides what becomes of them.                                  *)
(***************************************************************************)
EXTENDS Integers

CONSTANTS
  NaN, PosInf, NegInf,   \* the special values of double
  Garbage                \* a text that stod rejects

ASSUME SpecialValues ==
  /\ {NaN, PosInf, NegInf, Garbage} \cap Int = {}
  /\ NaN # PosInf /\ NaN # NegInf /\ PosInf # NegInf
  /\ Garbage \notin {NaN, PosInf, NegInf}

Double == Int \cup {NaN, PosInf, NegInf}

-----------------------------------------------------------------------------
(* IEEE comparison and std::min / std::max as the C++ library defines them: *)
(* each compares once and returns its first argument when the comparison   *)
(* is false, which every comparison with NaN is.                           *)

Less(x, y) ==
  /\ NaN \notin {x, y}
  /\ x # y
  /\ \/ x = NegInf
     \/ y = PosInf
     \/ x \in Int /\ y \in Int /\ x < y

StdMin(x, y) == IF Less(y, x) THEN y ELSE x
StdMax(x, y) == IF Less(x, y) THEN y ELSE x

\* scale * x + offset for a positive scale: the special values absorb it.
Affine(scale, x, offset) == IF x \in Int THEN scale * x + offset ELSE x

-----------------------------------------------------------------------------
MinBudget == 1       \*    500.0, in steps of 500
MaxBudget == 200     \* 100000.0
HalfUnit  == 995
Unit      == 2 * HalfUnit           \* the integer that stands for 1.0

(* The "budget" field of an entity document: its BSON type and the number  *)
(* its text spells after a leading '$' is dropped.                         *)
BudgetField == [bson : {"absent", "string", "other"},
                spells : Double \cup {Garbage}]

\* Mutant: std::stod without the try block.
UncaughtBudget(field) == IF field.bson = "string" THEN field.spells ELSE 0

(* What updateEntityPopularity makes of the field: 0.0 unless it is a text *)
(* that std::stod accepts.                                                  *)
parseBudget(field) ==
  IF field.bson = "string" /\ field.spells # Garbage THEN field.spells ELSE 0

BudgetSpan == MaxBudget - MinBudget

\* In units of 1 / BudgetSpan.  Nothing clamps it.
normalizeBudget(budget) == Affine(1, budget, -MinBudget)

\* Mutant: the weight of the budget is 2.0 instead of 0.2.
HeavyBudget(received, made, matches, budget) ==
  Affine(20, normalizeBudget(budget),
         Unit * received - HalfUnit * made + 2 * Unit * matches)

\* 1.0 * received - 0.5 * made + 2.0 * matches + 0.2 * normalizedBudget
calculatePopularity(received, made, matches, budget) ==
  Affine(2, normalizeBudget(budget),
         Unit * received - HalfUnit * made + 2 * Unit * matches)

MinPopularity == -50 * Unit
MaxPopularity == 3200 * Unit
One == MaxPopularity - MinPopularity

\* Mutant: std::min and std::max with their arguments the other way round.
SwappedClamp(popularity) ==
  StdMax(StdMin(Affine(1, popularity, -MinPopularity), One), 0)

(* (popularity - minPopularity) / (maxPopularity - minPopularity), clamped *)
(* to [0, 1], in units of 1 / One.                                          *)
normalizePopularity(popularity) ==
  StdMax(0, StdMin(One, Affine(1, popularity, -MinPopularity)))

=============================================================================
