--------------------------- MODULE Recommendations ---------------------------
(***************************************************************************)
(* GET /api/recommend: getRecommendations in backend/src/Matcher.cpp, one  *)
(* request of it, while likes store new scores (updateEntityPopularity)    *)
(* and the import script of backend/test moves users to other places.      *)
(*                                                                         *)
(* The request reads the asker's document, then scans the documents of the *)
(* same place through a cursor that is no snapshot: a document that        *)
(* matches from the query to the end is delivered, one that starts or      *)
(* stops matching in between may or may not be.  A place is a country and  *)
(* a city.  Requests only read, so one of them is enough.                  *)
(***************************************************************************)
EXTENDS Popularity, Sequences, FiniteSets, Functions

CONSTANTS
  Users, Rooms,     \* the ids of the documents of "users" and of "rooms"
  Unknown,          \* ids of no document, and texts that are no id
  Places, NoPlace,  \* NoPlace: "country" or "city" is absent or no string
  PlaceOf,          \* where each entity is to begin with
  MovesTo,          \* where the script puts each user: a row of its file
  OwnerOf,          \* the "ownerId" of each room
  NoOwner,          \* ... that is absent or no oid
  Unreadable,       \* entities with a field, other than these and the score,
                    \* whose type getRecommendations does not expect
  Scores,           \* the scores that likes store
  Limit,            \* the longest answer: 10 in the code
  MaxLikes          \* bound on the scores stored in a behaviour

Entities == Users \cup Rooms
Types    == {"roommate", "room"}

ASSUME RecommendationsAssumption ==
  /\ Users \cap Rooms = {} /\ Unknown \cap Entities = {}
  /\ NoPlace \notin Places
  /\ PlaceOf \in [Entities -> Places \cup {NoPlace}]
  /\ MovesTo \in [Users -> Places]
  /\ OwnerOf \in [Rooms -> Users \cup {NoOwner}] /\ NoOwner \notin Users
  /\ Unreadable \subseteq Entities
  /\ Scores \subseteq Double
  /\ Limit \in Nat \ {0} /\ MaxLikes \in Nat

VARIABLES
  place, popularity,    \* the fields that are read and may change meanwhile
  toMove, likes,        \* the users the script has yet to visit; scores stored
  pc, type, asker,      \* the request
  canonical,            \* is the asker's id spelled as oid::to_string does?
  home,                 \* the place that it read from the asker's document
  scanned, scored,      \* the documents read, and the pairs made of them
  failed, answer,       \* the answer: is there an "error", and its "entity"
  held,                 \* history: the scores of each entity since the query
  there                 \* history: those that match the query since then

dbVars  == <<place, popularity, toMove, likes>>
request == <<type, asker, canonical>>
askVars == <<pc, request, home, scanned, scored, failed, answer>>
vars    == <<dbVars, askVars, held, there>>

Pair == [id : Entities, norm : 0..One]

TypeOK ==
  /\ place \in [Entities -> Places \cup {NoPlace}]
  /\ popularity \in [Entities -> Double]
  /\ toMove \subseteq Users /\ likes \in 0..MaxLikes
  /\ pc \in {"idle", "find", "scan", "answered", "error"}
  /\ type \in Types \cup {"other"} /\ asker \in Users \cup Unknown
  /\ canonical \in BOOLEAN
  /\ home \in Places \cup {NoPlace}
  /\ scanned \subseteq Entities
  /\ scored \in Seq(Pair) /\ answer \in Seq(Pair)
  /\ failed \in BOOLEAN
  /\ held \in [Entities -> SUBSET Double]
  /\ there \subseteq Entities

Init ==
  /\ place = PlaceOf
  /\ popularity = [e \in Entities |-> 0]
  /\ toMove = Users /\ likes = 0
  /\ pc = "idle"
  /\ type \in Types \cup {"other"} /\ asker \in Users \cup Unknown
  /\ canonical \in BOOLEAN
  /\ home = NoPlace
  /\ scanned = {} /\ scored = <<>> /\ answer = <<>>
  /\ failed = FALSE
  /\ held = [e \in Entities |-> {0}]
  /\ there = {}

-----------------------------------------------------------------------------
(* What goes on meanwhile.                                                 *)

\* Somebody's like stores a score on e: SetTarget of Matcher.
StoreScore(e) ==
  /\ likes < MaxLikes /\ likes' = likes + 1
  /\ \E s \in Scores :
       /\ popularity' = [popularity EXCEPT ![e] = s]
       /\ held' = [held EXCEPT ![e] = @ \cup {s}]
  /\ UNCHANGED <<place, toMove, askVars, there>>

\* The script overwrites the address of a user with a row of its file.
ImportRow(u) ==
  /\ u \in toMove
  /\ toMove' = toMove \ {u}
  /\ place' = [place EXCEPT ![u] = MovesTo[u]]
  /\ there' = IF MovesTo[u] = home THEN there ELSE there \ {u}
  /\ UNCHANGED <<popularity, likes, askVars, held>>

-----------------------------------------------------------------------------
(* The request.                                                            *)

Collection == IF type = "roommate" THEN Users ELSE Rooms

\* The place in the asker's document, if there is one.
Home == IF asker \in Users THEN place[asker] ELSE NoPlace

\* Another type is refused, a text that is no oid and a place that is no
\* string throw, the asker may not exist: no answer with entities.
FindNobody ==
  /\ pc = "idle"
  /\ type \notin Types \/ Home = NoPlace
  /\ pc' = "error" /\ failed' = TRUE
  /\ UNCHANGED <<dbVars, request, home, scanned, scored, answer, held, there>>

FindAsker ==
  /\ pc = "idle"
  /\ type \in Types /\ Home # NoPlace
  /\ home' = Home
  /\ pc' = "find"
  /\ UNCHANGED <<dbVars, request, scanned, scored, failed, answer, held, there>>

\* The query is sent: what matches it from now on has to be delivered.
Query ==
  /\ pc = "find"
  /\ pc' = "scan"
  /\ there' = {e \in Collection : place[e] = home}
  /\ held' = [e \in Entities |-> {popularity[e]}]
  /\ UNCHANGED <<dbVars, request, home, scanned, scored, failed, answer>>

(* The asker itself, or a room whose ownerId is the asker's oid.  Both are *)
(* compared as texts: to an oid that the request spells with capitals      *)
(* nothing is equal, although the database finds the asker by it.          *)
IsOwn(e) ==
  canonical /\ IF type = "room" THEN OwnerOf[e] = asker ELSE e = asker

\* The cursor delivers e.
Deliver(e) ==
  /\ pc = "scan"
  /\ e \in Collection \ scanned /\ place[e] = home
  /\ scanned' = scanned \cup {e}
  /\ UNCHANGED <<dbVars, request, home, held, there>>

SkipOwn(e) ==
  /\ Deliver(e) /\ IsOwn(e)
  /\ UNCHANGED <<pc, scored, failed, answer>>

\* A field throws: the exception is caught inside the loop, before the pair
\* is made.
SkipUnreadable(e) ==
  /\ Deliver(e) /\ ~IsOwn(e) /\ e \in Unreadable
  /\ failed' = TRUE
  /\ UNCHANGED <<pc, scored, answer>>

ScoreEntity(e) ==
  /\ Deliver(e) /\ ~IsOwn(e) /\ e \notin Unreadable
  /\ scored' = Append(scored, [id   |-> e,
                               norm |-> normalizePopularity(popularity[e])])
  /\ UNCHANGED <<pc, failed, answer>>

Reorder(pairs, p) == [i \in 1..Len(pairs) |-> pairs[p[i]]]
Orders(pairs) == Bijection(1..Len(pairs), 1..Len(pairs))

Descending(s) == \A i, j \in DOMAIN s : i < j => s[i].norm >= s[j].norm
Ascending(s)  == \A i, j \in DOMAIN s : i < j => s[i].norm <= s[j].norm

\* Mutant: a.first < b.first in the comparator.
SortedUp(pairs) ==
  {s \in {Reorder(pairs, p) : p \in Orders(pairs)} : Ascending(s)}

\* What std::sort may make of the pairs: it is not stable, so pairs of one
\* score come in any order.
Sorted(pairs) ==
  {s \in {Reorder(pairs, p) : p \in Orders(pairs)} : Descending(s)}

AtMost(n, s) == SubSeq(s, 1, IF Len(s) < n THEN Len(s) ELSE n)

\* Mutant: the first ten are taken, then sorted.
CutFirst == \E s \in Sorted(AtMost(Limit, scored)) : answer' = s

\* Sort, then take the first ten.
Cut == \E s \in Sorted(scored) : answer' = AtMost(Limit, s)

Answer ==
  /\ pc = "scan"
  /\ there \subseteq scanned
  /\ Cut
  /\ pc' = "answered"
  /\ UNCHANGED <<dbVars, request, home, scanned, scored, failed, held, there>>

\* A query or the cursor throws, outside the try block of the loop: Crow
\* answers 500, and what was collected is lost.
Fault ==
  /\ pc \in {"idle", "find", "scan"}
  /\ pc' = "error" /\ failed' = TRUE
  /\ UNCHANGED <<dbVars, request, home, scanned, scored, answer, held, there>>

Next ==
  \/ \E e \in Entities : StoreScore(e)
  \/ \E u \in Users : ImportRow(u)
  \/ FindNobody \/ FindAsker \/ Query \/ Answer \/ Fault
  \/ \E e \in Entities : SkipOwn(e) \/ SkipUnreadable(e) \/ ScoreEntity(e)

Spec == Init /\ [][Next]_vars

-----------------------------------------------------------------------------
(* Properties.                                                             *)

Ids(s) == {s[i].id : i \in DOMAIN s}

\* The entities that any answer to the request has to consider.
Candidates == {e \in there : ~IsOwn(e) /\ e \notin Unreadable}

\* The normalised scores of e since the query.
Norms(e) == {normalizePopularity(s) : s \in held[e]}

(* Although every document is read at a moment of its own: an entity of    *)
(* the asker's place, readable and not its own, is left out only if the    *)
(* answer is full, and never for one that scored less all the time.        *)
BestNotLeftOut ==
  pc = "answered" =>
    \A e \in Candidates \ Ids(answer) :
      /\ Len(answer) = Limit
      /\ \A i \in DOMAIN answer :
           \E m \in Norms(e), n \in Norms(answer[i].id) : m <= n

(* The answer, were it of a single entity, holds nothing that the code     *)
(* takes for the asker or its room, and each entity with a score that its  *)
(* document had after the query; it lists nobody twice, in descending      *)
(* order.                                                                  *)
AnswerIsRanking ==
  /\ \A i \in DOMAIN answer :
       ~IsOwn(answer[i].id) /\ answer[i].norm \in Norms(answer[i].id)
  /\ \A i, j \in DOMAIN answer : i < j =>
       answer[i].id # answer[j].id /\ answer[i].norm >= answer[j].norm

=============================================================================
