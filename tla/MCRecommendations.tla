-------------------------- MODULE MCRecommendations --------------------------
(***************************************************************************)
(* An instance of Recommendations with more rooms than an answer holds,    *)
(* one of them the asker's own, and users who move in and out.             *)
(***************************************************************************)
EXTENDS Recommendations

CONSTANTS u1, u2, u3,   \* users: u3 has no place to begin with
          r1, r2, r3,   \* rooms: r1 is of u1, the others of nobody
          here, away    \* places

Start == [e \in Entities |-> IF e = u3 THEN NoPlace ELSE here]

\* The script moves u2 away and u3 here.
Rows == [u \in Users |-> IF u = u2 THEN away ELSE here]

Owners == [r \in Rooms |-> IF r = r1 THEN u1 ELSE NoOwner]

\* Below the range, inside it, and what a budget "nan" makes.
SomeScores == {-60 * Unit, 2 * Unit, NaN}

=============================================================================
