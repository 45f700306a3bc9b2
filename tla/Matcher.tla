------------------------------- MODULE Matcher -------------------------------
(***************************************************************************)
(* POST /api/swipe: the handler in backend/src/main.cpp and processSwipe   *)
(* with its helpers in backend/src/Matcher.cpp, run by the worker threads  *)
(* of a multithreaded Crow server against one MongoDB.                     *)
(*                                                                         *)
(* A worker serves one request at a time, from reading it to answering it. *)
(* The handler takes no lock and opens no transaction: each driver call is *)
(* one atomic step on one document, and the calls of different workers     *)
(* interleave freely.  Any call may throw, which ends the request and      *)
(* leaves in the database what its earlier calls did.                      *)
(***************************************************************************)
EXTENDS Popularity, Sequences, FiniteSets

CONSTANTS
  Users, Rooms,     \* the ids of the documents of "users" and of "rooms"
  Missing,          \* well-formed ids of no document
  Malformed,        \* texts that bsoncxx::oid rejects
  Workers,          \* Crow's worker threads
  Requests,         \* the swipes that clients send
  NoRequest,        \* what an idle worker holds
  BudgetOf,         \* the "budget" field of every user and room
  IntMax,           \* the largest BSON int32
  MaxRequests,      \* bound on the requests of a behaviour
  MaxFaults,        \* bound on the driver calls that throw
  Repeats           \* may a client send a swipe again?

Entities == Users \cup Rooms
Ids      == Entities \cup Missing
Types    == {"roommate", "room"}

Request == [type : Types \cup {"other"}, source : Ids \cup Malformed,
            target : Ids \cup Malformed, isLike : BOOLEAN]

ASSUME MatcherAssumption ==
  /\ Users \cap Rooms = {} /\ Missing \cap Entities = {}
  /\ Malformed \cap Ids = {}
  /\ IsFiniteSet(Workers)
  /\ Requests \subseteq Request
  /\ NoRequest \notin Request
  /\ BudgetOf \in [Entities -> BudgetField]
  /\ IntMax \in Nat \ {0} /\ MaxRequests \in Nat /\ MaxFaults \in Nat
  /\ Repeats \in BOOLEAN

VARIABLES
  stat,       \* the counters and the score of every user and room document
  swipes,     \* swipes[type][id]: the swipe documents of that source, each
              \* the set of its targets, in insertion order
  pc, req,    \* what each worker does next, and for which request
  snap,       \* the entity document a worker read and has yet to use
  sent, faults,   \* the requests and the faults so far
  seen,       \* history: the requests that a worker has accepted
  answered,   \* history: the requests that have been answered
  credit,     \* history: credit[e][p] counts the increments of e's matches
              \* made for a pair of e and p
  writes      \* history: the popularity updates of every entity

vars == <<stat, swipes, pc, req, snap, sent, faults,
          seen, answered, credit, writes>>

(* One label per driver call, in the order of the code: the two halves of  *)
(* the upsert and the $inc of swipesMade (handleEntitySwipe), the find_one *)
(* and the $set of the target (updateEntityPopularity), the find_one of    *)
(* the opposite swipe (handleEntityLike), the two $inc of matches          *)
(* (updateEntityMatches).                                                  *)
Labels == {"idle", "upsert", "insert", "incMade", "readTarget", "setTarget",
           "findMutual", "incSource", "incTarget", "reply"}

Stat  == [made : Nat, received : Int, matches : Nat, popularity : Double]
Fresh == [made |-> 0, received |-> 0, matches |-> 0, popularity |-> 0]

TypeOK ==
  /\ stat \in [Entities -> Stat]
  /\ swipes \in [Types -> [Ids -> Seq(SUBSET Ids)]]
  /\ pc \in [Workers -> Labels]
  /\ req \in [Workers -> Requests \cup {NoRequest}]
  /\ snap \in [Workers -> Stat]
  /\ sent \in 0..MaxRequests /\ faults \in 0..MaxFaults
  /\ seen \subseteq Requests /\ answered \subseteq Requests
  /\ credit \in [Entities -> [Ids -> Nat]]
  /\ writes \in [Entities -> Nat]

Init ==
  /\ stat = [e \in Entities |-> Fresh]
  /\ swipes = [ty \in Types |-> [s \in Ids |-> <<>>]]
  /\ pc = [w \in Workers |-> "idle"]
  /\ req = [w \in Workers |-> NoRequest]
  /\ snap = [w \in Workers |-> Fresh]
  /\ sent = 0 /\ faults = 0
  /\ seen = {} /\ answered = {}
  /\ credit = [e \in Entities |-> [p \in Ids |-> 0]]
  /\ writes = [e \in Entities |-> 0]

-----------------------------------------------------------------------------
(* What the steps read.                                                    *)

\* processSwipe constructs both oids, then compares the type.
Valid(r) == r.type \in Types /\ r.source \in Ids /\ r.target \in Ids

\* The collection that a swipe of this type targets; its source is a user.
TargetColl(type) == IF type = "roommate" THEN Users ELSE Rooms

\* The swipe documents with this sourceEntityId, and all they record.
Docs(type, id) == swipes[type][id]
Recorded(type, id) ==
  UNION {Docs(type, id)[i] : i \in DOMAIN Docs(type, id)}

\* Worker w moves on to its next driver call, of the same request.
Goto(w, label) ==
  /\ pc' = [pc EXCEPT ![w] = label]
  /\ UNCHANGED <<req, sent, faults, seen, answered>>

\* The request is over: the handler's local variables are gone.
Finish(w) ==
  /\ pc' = [pc EXCEPT ![w] = "idle"]
  /\ req' = [req EXCEPT ![w] = NoRequest]
  /\ snap' = [snap EXCEPT ![w] = Fresh]

\* get_int32 throws on a counter that $inc has promoted to int64.
Int32(entity) == entity.made <= IntMax /\ entity.matches <= IntMax

\* currentReceived + 1 in an int of the program, which wraps.
NextReceived(n) == IF n = IntMax THEN -IntMax - 1 ELSE n + 1

-----------------------------------------------------------------------------
(* The worker reads a request.                                             *)

\* A client sends a swipe; without Repeats, each swipe of a pair only once.
Send(r) ==
  /\ sent < MaxRequests
  /\ Repeats \/ \A q \in seen : <<q.type, q.source, q.target>>
                                  # <<r.type, r.source, r.target>>
  /\ sent' = sent + 1
  /\ seen' = seen \cup {r}

Accept(w) ==
  /\ pc[w] = "idle"
  /\ \E r \in Requests :
       /\ Valid(r)
       /\ Send(r)
       /\ req' = [req EXCEPT ![w] = r]
  /\ pc' = [pc EXCEPT ![w] = "upsert"]
  /\ UNCHANGED <<stat, swipes, snap, faults, answered, credit, writes>>

\* An oid that does not parse throws, another type returns an error: either
\* way before the first driver call.
Refuse(w) ==
  /\ pc[w] = "idle"
  /\ \E r \in Requests : ~Valid(r) /\ Send(r)
  /\ UNCHANGED <<stat, swipes, pc, req, snap, faults, answered, credit, writes>>

-----------------------------------------------------------------------------
(* handleEntitySwipe.  No index makes sourceEntityId unique, so MongoDB    *)
(* runs an upsert that matches nothing as a search and an insert, and      *)
(* another worker's upsert may come in between.                            *)

\* Mutant: $set in place of $addToSet.
UpsertOverwrites(w) ==
  LET r == req[w] IN
  /\ pc[w] = "upsert"
  /\ \E i \in DOMAIN Docs(r.type, r.source) :
       swipes' = [swipes EXCEPT ![r.type][r.source][i] = {r.target}]
  /\ Goto(w, "incMade")
  /\ UNCHANGED <<stat, snap, credit, writes>>

UpsertMatched(w) ==
  LET r == req[w] IN
  /\ pc[w] = "upsert"
  /\ \E i \in DOMAIN Docs(r.type, r.source) :
       swipes' = [swipes EXCEPT ![r.type][r.source][i] = @ \cup {r.target}]
  /\ Goto(w, "incMade")
  /\ UNCHANGED <<stat, snap, credit, writes>>

\* Mutant: update_one without opts.upsert(true).
UpdateOnly(w) ==
  /\ pc[w] = "upsert"
  /\ Docs(req[w].type, req[w].source) = <<>>
  /\ Goto(w, "incMade")
  /\ UNCHANGED <<stat, swipes, snap, credit, writes>>

\* Mutant: an insert_one for every swipe.
AlwaysInsert(w) ==
  /\ pc[w] = "upsert"
  /\ Goto(w, "insert")
  /\ UNCHANGED <<stat, swipes, snap, credit, writes>>

UpsertMissed(w) ==
  /\ pc[w] = "upsert"
  /\ Docs(req[w].type, req[w].source) = <<>>
  /\ Goto(w, "insert")
  /\ UNCHANGED <<stat, swipes, snap, credit, writes>>

UpsertInsert(w) ==
  LET r == req[w] IN
  /\ pc[w] = "insert"
  /\ swipes' = [swipes EXCEPT ![r.type][r.source] = Append(@, {r.target})]
  /\ Goto(w, "incMade")
  /\ UNCHANGED <<stat, snap, credit, writes>>

\* Mutant: only likes count as swipes made.
CountLikesMade(w) ==
  LET r == req[w] IN
  /\ pc[w] = "incMade"
  /\ stat' = IF r.source \in Users /\ r.isLike
             THEN [stat EXCEPT ![r.source].made = @ + 1]
             ELSE stat
  /\ Goto(w, IF r.isLike THEN "readTarget" ELSE "reply")
  /\ UNCHANGED <<swipes, snap, credit, writes>>

\* The $inc of a source that is no user matches no document.  A dislike ends
\* here.
IncSwipesMade(w) ==
  LET r == req[w] IN
  /\ pc[w] = "incMade"
  /\ stat' = IF r.source \in Users
             THEN [stat EXCEPT ![r.source].made = @ + 1]
             ELSE stat
  /\ Goto(w, IF r.isLike THEN "readTarget" ELSE "reply")
  /\ UNCHANGED <<swipes, snap, credit, writes>>

-----------------------------------------------------------------------------
(* handleEntityLike: updateEntityPopularity reads the target, computes,    *)
(* and writes what it computed.                                            *)

\* "Entity not found": updateEntityPopularity returns, the like goes on.
TargetNotFound(w) ==
  /\ pc[w] = "readTarget"
  /\ req[w].target \notin TargetColl(req[w].type)
  /\ Goto(w, "findMutual")
  /\ UNCHANGED <<stat, swipes, snap, credit, writes>>

\* Mutant: the counters are read as int64.
ReadsInt64(w) ==
  LET r == req[w] IN
  /\ pc[w] = "readTarget"
  /\ r.target \in TargetColl(r.type)
  /\ snap' = [snap EXCEPT ![w] = stat[r.target]]
  /\ Goto(w, "setTarget")
  /\ UNCHANGED <<stat, swipes, credit, writes>>

ReadTarget(w) ==
  LET r == req[w] IN
  /\ pc[w] = "readTarget"
  /\ r.target \in TargetColl(r.type)
  /\ Int32(stat[r.target])
  /\ snap' = [snap EXCEPT ![w] = stat[r.target]]
  /\ Goto(w, "setTarget")
  /\ UNCHANGED <<stat, swipes, credit, writes>>

\* get_int32 throws, and Crow answers 500.
TargetOutgrown(w) ==
  LET r == req[w] IN
  /\ pc[w] = "readTarget"
  /\ r.target \in TargetColl(r.type)
  /\ ~Int32(stat[r.target])
  /\ Finish(w)
  /\ UNCHANGED <<stat, swipes, sent, faults, seen, answered, credit, writes>>

NewReceived(w) == NextReceived(snap[w].received)
NewPopularity(w) ==
  calculatePopularity(NewReceived(w), snap[w].made, snap[w].matches,
                      parseBudget(BudgetOf[req[w].target]))

\* The update of the target with this counter and the computed score.
WriteTarget(w, received) ==
  LET t == req[w].target IN
  /\ pc[w] = "setTarget"
  /\ stat' = [stat EXCEPT ![t].received = received,
                          ![t].popularity = NewPopularity(w)]
  /\ writes' = [writes EXCEPT ![t] = @ + 1]
  /\ snap' = [snap EXCEPT ![w] = Fresh]
  /\ Goto(w, "findMutual")
  /\ UNCHANGED <<swipes, credit>>

\* Mutant: the counter moves to an $inc by 1, the score stays a $set.
IncReceived(w) ==
  WriteTarget(w, stat[req[w].target].received + 1)

\* Mutant: an $inc by the new value in place of the $set.
IncByNewReceived(w) ==
  WriteTarget(w, stat[req[w].target].received + NewReceived(w))

SetTarget(w) == WriteTarget(w, NewReceived(w))

\* Mutant: the two ids of the filter swapped.
MutualSwapped(r) == r.target \in Recorded(r.type, r.source)

\* Mutant: only the first swipe document of the target is looked at.
MutualInFirst(r) ==
  /\ Docs(r.type, r.target) # <<>>
  /\ r.source \in Docs(r.type, r.target)[1]

\* Is there a swipe document of the target that holds the source?
IsMutual(r) == r.source \in Recorded(r.type, r.target)

FindMutual(w) ==
  /\ pc[w] = "findMutual"
  /\ Goto(w, IF IsMutual(req[w]) THEN "incSource" ELSE "reply")
  /\ UNCHANGED <<stat, swipes, snap, credit, writes>>

-----------------------------------------------------------------------------
(* updateEntityMatches: one $inc for each side.                            *)

\* Mutant: updateEntityMatches is called once more the other way round.
IncMatchesTwice(e, p) ==
  /\ stat' = [stat EXCEPT ![e].matches = @ + 2]
  /\ credit' = [credit EXCEPT ![e][p] = @ + 2]

IncMatches(e, p) ==
  /\ stat' = [stat EXCEPT ![e].matches = @ + 1]
  /\ credit' = [credit EXCEPT ![e][p] = @ + 1]

IncSourceMatches(w) ==
  LET r == req[w] IN
  /\ pc[w] = "incSource"
  /\ IF r.source \in Users THEN IncMatches(r.source, r.target)
                           ELSE UNCHANGED <<stat, credit>>
  /\ Goto(w, "incTarget")
  /\ UNCHANGED <<swipes, snap, writes>>

\* Mutant: the second $inc uses the id of the source again.
IncSourceAgain(w) ==
  LET r == req[w] IN
  /\ pc[w] = "incTarget"
  /\ IF r.source \in Users THEN IncMatches(r.source, r.target)
                           ELSE UNCHANGED <<stat, credit>>
  /\ Goto(w, "reply")
  /\ UNCHANGED <<swipes, snap, writes>>

IncTargetMatches(w) ==
  LET r == req[w] IN
  /\ pc[w] = "incTarget"
  /\ IF r.target \in TargetColl(r.type) THEN IncMatches(r.target, r.source)
                                        ELSE UNCHANGED <<stat, credit>>
  /\ Goto(w, "reply")
  /\ UNCHANGED <<swipes, snap, writes>>

-----------------------------------------------------------------------------
Reply(w) ==
  /\ pc[w] = "reply"
  /\ answered' = answered \cup {req[w]}
  /\ Finish(w)
  /\ UNCHANGED <<stat, swipes, sent, faults, seen, credit, writes>>

(* The next driver call throws, or the answer to the last one is lost, or  *)
(* the process dies (which is this step for every worker): the request     *)
(* ends without an answer and what it wrote stays.                         *)
Fault(w) ==
  /\ pc[w] # "idle"
  /\ faults < MaxFaults
  /\ faults' = faults + 1
  /\ Finish(w)
  /\ UNCHANGED <<stat, swipes, sent, seen, answered, credit, writes>>

Step(w) ==
  \/ UpsertMatched(w) \/ UpsertMissed(w) \/ UpsertInsert(w)
  \/ IncSwipesMade(w)
  \/ TargetNotFound(w) \/ ReadTarget(w) \/ TargetOutgrown(w) \/ SetTarget(w)
  \/ FindMutual(w) \/ IncSourceMatches(w) \/ IncTargetMatches(w)
  \/ Reply(w)

Next == \E w \in Workers : Accept(w) \/ Refuse(w) \/ Step(w) \/ Fault(w)

Spec == Init /\ [][Next]_vars

\* A worker thread that has accepted a request keeps running it.
FairSpec == Spec /\ \A w \in Workers : WF_vars(Step(w))

-----------------------------------------------------------------------------
(* Properties.                                                             *)

\* A roommate like of a on b.
Likes(r, a, b) == r.type = "roommate" /\ r.source = a /\ r.target = b /\ r.isLike
LikeIn(set, a, b) == \E r \in set : Likes(r, a, b)

(* However the two requests interleave, and whatever other requests crash, *)
(* once two users have both been told that their likes were processed,     *)
(* each of them has the other counted in "matches".  The code gets this    *)
(* from recording its swipe before it looks for the opposite one.          *)
MutualLikeMatched ==
  \A a, b \in Users :
    LikeIn(answered, a, b) /\ LikeIn(answered, b, a)
      => /\ 0 < credit[a][b] /\ credit[a][b] <= stat[a].matches
         /\ 0 < credit[b][a] /\ credit[b][a] <= stat[b].matches

(* A match is counted for e with p only if each of them has a recorded     *)
(* swipe on the other in the same collection: the filter of                *)
(* handleEntityLike.                                                       *)
MatchNeedsMutualSwipe ==
  \A e \in Entities, p \in Ids :
    credit[e][p] > 0 =>
      \E ty \in Types : p \in Recorded(ty, e) /\ e \in Recorded(ty, p)

(* A like of a room searches for a swipe of the room among those of users  *)
(* on rooms.  So unless a client sends a room as the source of a swipe, no *)
(* number of likes by anybody makes a room a match, or gives one to those  *)
(* who like it.                                                            *)
RoomsNeverMatch ==
  (\A q \in seen : q.source \notin Rooms) =>
    \A r \in Rooms : /\ stat[r].matches = 0
                     /\ \A e \in Entities : credit[e][r] = 0

\* The workers that have credited a with b and have yet to credit b with a.
HalfWay(a, b) ==
  {w \in Workers : /\ pc[w] = "incTarget" /\ req[w].type = "roommate"
                   /\ req[w].source = a /\ req[w].target = b}

\* The code does not check that a "room" swipe names a room: such a swipe of
\* one user on another credits its source alone.
RoomSwipeOfUsers(a, b) ==
  \E r \in seen : r.type = "room" /\ {r.source, r.target} = {a, b}

(* The two $inc of updateEntityMatches are no transaction: between two     *)
(* users the credits differ by the workers that are between the two calls, *)
(* and for good by at most one for every request that died there.          *)
CreditsBalance ==
  \A a, b \in Users : ~RoomSwipeOfUsers(a, b) =>
    LET debt == (credit[a][b] - Cardinality(HalfWay(a, b)))
                  - (credit[b][a] - Cardinality(HalfWay(b, a)))
    IN  debt \in (-faults)..faults

(* Racing likes and repeated ones count the same match again, but however  *)
(* requests race, repeat or die, a user has another counted in "matches"   *)
(* no more often than the two of them have swiped: a like credits each     *)
(* side at most once, after its own $inc of swipesMade.                    *)
CreditsBounded ==
  \A a, b \in Users : credit[a][b] <= stat[a].made + stat[b].made

(* The stored score is never a mixture: it is the score of the stored      *)
(* swipesReceived with a swipesMade and a matches that the entity has, or  *)
(* had before the update that is now stored.                               *)
PopularityExplained ==
  \A e \in Entities :
    writes[e] > 0 =>
      \E m \in 0..stat[e].made, k \in 0..stat[e].matches :
        stat[e].popularity =
          calculatePopularity(stat[e].received, m, k, parseBudget(BudgetOf[e]))

\* A counter of e outgrew int32, and no worker holds what it read of e
\* before that.
Frozen(e) ==
  /\ ~Int32(stat[e])
  /\ \A w \in Workers : ~(pc[w] = "setTarget" /\ req[w].target = e)

(* An entity is lost to likes for good once $inc has promoted one of its   *)
(* counters to int64: get_int32 throws on it, so its swipesReceived and    *)
(* its score never change again, and a like of it that has yet to read it  *)
(* never gets to look for the opposite one.  Only what was read before     *)
(* may still be written.                                                   *)
OutgrownStaysFrozen ==
  [][\A e \in Entities : Frozen(e) =>
       /\ Frozen(e)'
       /\ stat'[e].received = stat[e].received
       /\ stat'[e].popularity = stat[e].popularity
       /\ \A w \in Workers :
            /\ pc[w] = "readTarget" /\ req[w].target = e
            /\ e \in TargetColl(req[w].type)
          => pc'[w] \in {"readTarget", "idle"}]_vars

(* A lost update costs swipes but never invents or erases them all: while  *)
(* the counter cannot wrap, an entity whose popularity was updated has     *)
(* between one swipe received and one for every update.                    *)
ReceivedBounds ==
  \A e \in Entities :
    writes[e] \in 1..IntMax => stat[e].received \in 1..writes[e]

(* swipesMade is incremented after the swipe is recorded, so it falls      *)
(* short of the recorded targets only by the workers that have yet to      *)
(* increment it and by the requests that died before doing so.             *)
RecordedSwipesCounted ==
  \A u \in Users :
    Cardinality({k \in Types \X Ids : k[2] \in Recorded(k[1], u)})
      <= stat[u].made + faults
           + Cardinality({w \in Workers : /\ pc[w] = "incMade"
                                          /\ req[w].source = u})

(* A source gets a second swipe document only from workers that raced      *)
(* through the upsert of its first one, so it has at most one per worker.  *)
DuplicateDocsBounded ==
  \A ty \in Types, s \in Ids :
    Len(swipes[ty][s])
      + Cardinality({w \in Workers : /\ pc[w] = "insert" /\ req[w].type = ty
                                     /\ req[w].source = s})
      <= Cardinality(Workers)

(* The handler implements the ledger: recorded swipes are the members of   *)
(* the swipe documents, credits are the increments of matches.             *)
Ledger == INSTANCE SwipeLedger WITH
  Swipes   <- {r \in Requests : Valid(r)},
  recorded <- {k \in Types \X Ids \X Ids : k[3] \in Recorded(k[1], k[2])},
  credited <- {k \in Entities \X Ids : credit[k[1]][k[2]] > 0}

LedgerSpec == Ledger!Spec

(* When no call throws, two users who like each other become a match,       *)
(* whichever likes first and however the two requests interleave.          *)
LikesLeadToMatch ==
  \A a, b \in Users :
    LikeIn(seen, a, b) /\ LikeIn(seen, b, a)
      ~> (credit[a][b] > 0 /\ credit[b][a] > 0) \/ faults > 0

-----------------------------------------------------------------------------
(* What the counters would mean, and what they mean with one worker.       *)

Quiet == \A w \in Workers : pc[w] = "idle"

(* swipesReceived is the "number of swipes received" (Matcher.cpp:45): at  *)
(* rest it counts the likes on the entity that were answered.  Two workers *)
(* that read the same value lose one of them.                              *)
ReceivedCountsLikes ==
  Quiet /\ faults = 0 => \A e \in Entities :
    stat[e].received =
      Cardinality({r \in answered : r.isLike /\ r.target = e
                                      /\ e \in TargetColl(r.type)})

(* handleEntityLike "checks for mutual like" (Matcher.cpp:165): a match of *)
(* two users needs a like of each.  But a dislike is recorded as a like    *)
(* is, so the like that follows it finds it.                               *)
MatchNeedsMutualLike ==
  \A a, b \in Users :
    credit[a][b] > 0 => LikeIn(seen, a, b) /\ LikeIn(seen, b, a)

=============================================================================
