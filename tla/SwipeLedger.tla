----------------------------- MODULE SwipeLedger -----------------------------
(***************************************************************************)
(* What swiping promises, without workers, driver calls or counters: a     *)
(* swipe is recorded for good, one side of a pair is credited with a match *)
(* only when each of the two has recorded a swipe on the other, and once   *)
(* both users of a pair have been told that their like was processed, both *)
(* have been credited.                                                     *)
(***************************************************************************)
CONSTANTS
  Users,    \* the ids of the documents of "users"
  Swipes    \* the requests that processSwipe may process

VARIABLES
  recorded,   \* <<type, source, target>> of every recorded swipe
  credited,   \* <<e, p>>: the matches of e count the partner p
  answered    \* the swipes whose sender has been answered

vars == <<recorded, credited, answered>>

Key(r) == <<r.type, r.source, r.target>>

\* Each of the two has swiped on the other, in one and the same collection.
Mutual(e, p) == \E type \in {"roommate", "room"} :
                  <<type, e, p>> \in recorded /\ <<type, p, e>> \in recorded

\* a likes b as a roommate.
Likes(r, a, b) == r.type = "roommate" /\ r.source = a /\ r.target = b /\ r.isLike

LikeAnswered(a, b) == \E r \in answered : Likes(r, a, b)

Init == recorded = {} /\ credited = {} /\ answered = {}

Record(r) ==
  /\ recorded' = recorded \cup {Key(r)}
  /\ UNCHANGED <<credited, answered>>

Credit(e, p) ==
  /\ Mutual(e, p)
  /\ credited' = credited \cup {<<e, p>>}
  /\ UNCHANGED <<recorded, answered>>

\* The last of two likes to be answered finds both sides credited.
Answer(r) ==
  /\ Key(r) \in recorded
  /\ \A a, b \in Users :
       Likes(r, a, b) /\ (LikeAnswered(b, a) \/ a = b)
         => {<<a, b>>, <<b, a>>} \subseteq credited
  /\ answered' = answered \cup {r}
  /\ UNCHANGED <<recorded, credited>>

Next == \E r \in Swipes :
          \/ Record(r)
          \/ Credit(r.source, r.target) \/ Credit(r.target, r.source)
          \/ Answer(r)

Spec == Init /\ [][Next]_vars

=============================================================================
