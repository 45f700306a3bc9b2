----------------------------- MODULE MCMatcher -----------------------------
(***************************************************************************)
(* Instances of Matcher: two users, with or without a room, an id of no    *)
(* document and an id that does not parse.                                 *)
(***************************************************************************)
EXTENDS Matcher, TLC

CONSTANTS u1, u2,    \* users
          r1,        \* a room
          gone,      \* an id of no document
          bad        \* a text that is no id

Swipe(type, source, target, isLike) ==
  [type |-> type, source |-> source, target |-> target, isLike |-> isLike]

Like(source, target) == Swipe("roommate", source, target, TRUE)

\* The two users like each other.
Likings == {Like(u1, u2), Like(u2, u1)}

\* Likes and dislikes of the two users, for roommates, a room and an id of no
\* document; a room sent as a source, users sent as rooms and a like of oneself
\* (the code checks none of these); and what processSwipe refuses.
Mixed ==
  {Like(u1, u2), Like(u2, u1), Like(u1, u1), Swipe("roommate", u2, u1, FALSE),
   Swipe("room", u1, r1, TRUE), Swipe("room", u2, r1, TRUE),
   Swipe("room", r1, u1, TRUE), Swipe("room", u2, u1, TRUE),
   Swipe("room", u1, u2, TRUE), Like(u1, gone),
   Swipe("other", u1, u2, TRUE), Like(bad, u1)}

\* The same without what the code would have to refuse or compare.
Distinct ==
  {Like(u1, u2), Like(u2, u1), Swipe("roommate", u2, u1, FALSE),
   Swipe("room", u1, r1, TRUE), Swipe("room", u2, r1, TRUE),
   Swipe("room", r1, u1, TRUE), Like(u1, gone)}

\* A budget of each kind.
Budgets ==
  [e \in Entities |->
     CASE e = u1 -> [bson |-> "string", spells |-> 3]
       [] e = u2 -> [bson |-> "string", spells |-> Garbage]
       [] OTHER  -> [bson |-> "string", spells |-> NaN]]

Symmetry == Permutations(Workers)

=============================================================================
