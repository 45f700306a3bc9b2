------------------------------- MODULE MCLikes -------------------------------
(***************************************************************************)
(* Instances of Likes: who liked u2, or the room, while the two users and  *)
(* an entity that is no user swipe on them.                                *)
(***************************************************************************)
EXTENDS Likes, TLC

CONSTANTS u1, u2,    \* users
          r1,        \* a room
          gone,      \* an id of no document
          bad        \* a text that is no id

Swipe(type, source, target, isLike) ==
  [type |-> type, source |-> source, target |-> target, isLike |-> isLike]

\* The likes that make u1 and u2 a match, a dislike from an id of no
\* document, and a like in the other collection.
SwipesOnU2 ==
  {Swipe("roommate", u1, u2, TRUE), Swipe("roommate", u2, u1, TRUE),
   Swipe("roommate", gone, u2, FALSE), Swipe("room", u1, r1, TRUE)}

\* u1 dislikes u2.
Dislikings == {Swipe("roommate", u1, u2, FALSE)}

Asked ==
  {[type |-> "roommate", entity |-> u2], [type |-> "room", entity |-> r1],
   [type |-> "roommate", entity |-> bad], [type |-> "other", entity |-> u2]}

Budgets == [e \in Entities |-> [bson |-> "absent", spells |-> Garbage]]

Symmetry == Permutations(Workers)

=============================================================================
