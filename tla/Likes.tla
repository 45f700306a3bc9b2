-------------------------------- MODULE Likes --------------------------------
(***************************************************************************)
(* GET /api/likes: getUserWhoLikedEntity in backend/src/Matcher.cpp, run   *)
(* beside the workers of Matcher that write what it reads.                 *)
(*                                                                         *)
(* A lister opens a cursor over the swipe documents that hold the entity   *)
(* and looks up each source with a query of its own.  The cursor is no     *)
(* snapshot: a document that matches when it is opened is delivered, one   *)
(* that comes to match later may or may not be, none is delivered twice.   *)
(***************************************************************************)
EXTENDS Matcher

CONSTANTS
  Listers,    \* worker threads that serve the route, once each
  Lists,      \* the requests: a type and the text of an id
  NoList, NoUser

ListRequest == [type : Types \cup {"other"}, entity : Ids \cup Malformed]

ASSUME LikesAssumption ==
  /\ Lists \subseteq ListRequest /\ NoList \notin Lists
  /\ NoUser \notin Ids

VARIABLES
  lpc, list,      \* what each lister does next, and for which request
  due, visited,   \* the documents that its cursor has to deliver, and those
                  \* it has delivered
  fetching,       \* the source it looks up next
  users,          \* the answer's "users", so far
  failed,         \* is there an "error" in the answer?
  owed            \* history: the swipes answered before the request

listVars == <<lpc, list, due, visited, fetching, users, failed, owed>>

\* A swipe document, by its source and its place among those of the source.
DocIds == Ids \X (Nat \ {0})

LikesTypeOK ==
  /\ lpc \in [Listers -> {"idle", "next", "fetch", "answered"}]
  /\ list \in [Listers -> Lists \cup {NoList}]
  /\ due \in [Listers -> SUBSET DocIds] /\ visited \in [Listers -> SUBSET DocIds]
  /\ fetching \in [Listers -> Ids \cup {NoUser}]
  /\ users \in [Listers -> Seq(Users)]
  /\ failed \in [Listers -> BOOLEAN]
  /\ owed \in [Listers -> SUBSET Requests]

ListInit ==
  /\ lpc = [l \in Listers |-> "idle"]
  /\ list = [l \in Listers |-> NoList]
  /\ due = [l \in Listers |-> {}]
  /\ visited = [l \in Listers |-> {}]
  /\ fetching = [l \in Listers |-> NoUser]
  /\ users = [l \in Listers |-> <<>>]
  /\ failed = [l \in Listers |-> FALSE]
  /\ owed = [l \in Listers |-> {}]

-----------------------------------------------------------------------------
\* The swipe documents of a collection, by source and place.
AllDocs(type) == UNION {{s} \X DOMAIN Docs(type, s) : s \in Ids}

\* Mutant: the filter on targetEntityId is dropped.
MatchingAll(q) == AllDocs(q.type)

\* Those that hold the entity among their targets.
Matching(q) == {k \in AllDocs(q.type) : q.entity \in Docs(q.type, k[1])[k[2]]}

\* The entity is compared as a text, so any text may be asked for; an id
\* that is not spelled as oid::to_string spells it matches nothing.
Open(l) ==
  /\ lpc[l] = "idle"
  /\ \E q \in Lists :
       /\ q.type \in Types
       /\ list' = [list EXCEPT ![l] = q]
       /\ due' = [due EXCEPT ![l] = Matching(q)]
  /\ lpc' = [lpc EXCEPT ![l] = "next"]
  /\ owed' = [owed EXCEPT ![l] = answered]
  /\ UNCHANGED <<visited, fetching, users, failed>>

\* "Invalid type parameter", before the first query.
RefuseList(l) ==
  /\ lpc[l] = "idle"
  /\ \E q \in Lists : q.type \notin Types /\ list' = [list EXCEPT ![l] = q]
  /\ lpc' = [lpc EXCEPT ![l] = "answered"]
  /\ failed' = [failed EXCEPT ![l] = TRUE]
  /\ UNCHANGED <<due, visited, fetching, users, owed>>

NextDoc(l) ==
  /\ lpc[l] = "next"
  /\ \E k \in Matching(list[l]) \ visited[l] :
       /\ visited' = [visited EXCEPT ![l] = @ \cup {k}]
       /\ fetching' = [fetching EXCEPT ![l] = k[1]]
  /\ lpc' = [lpc EXCEPT ![l] = "fetch"]
  /\ UNCHANGED <<list, due, users, failed, owed>>

Exhausted(l) ==
  /\ lpc[l] = "next"
  /\ due[l] \subseteq visited[l]
  /\ lpc' = [lpc EXCEPT ![l] = "answered"]
  /\ UNCHANGED <<list, due, visited, fetching, users, failed, owed>>

\* The lookup is over: on to the next document.
Fetched(l) ==
  /\ lpc' = [lpc EXCEPT ![l] = "next"]
  /\ fetching' = [fetching EXCEPT ![l] = NoUser]
  /\ UNCHANGED <<list, due, visited, failed, owed>>

\* Mutant: a source that is no user ends the loop.
StopAtUnknown(l) ==
  /\ lpc[l] = "fetch" /\ fetching[l] \notin Users
  /\ lpc' = [lpc EXCEPT ![l] = "answered"]
  /\ UNCHANGED <<list, due, visited, fetching, users, failed, owed>>

\* Mutant: the result of the lookup is not tested.
ListUnknown(l) ==
  /\ lpc[l] = "fetch" /\ fetching[l] \notin Users
  /\ users' = [users EXCEPT ![l] = Append(@, fetching[l])]
  /\ Fetched(l)

\* A source that is no user is left out.
SkipUnknown(l) ==
  /\ lpc[l] = "fetch" /\ fetching[l] \notin Users
  /\ Fetched(l)
  /\ UNCHANGED users

\* get_int32 reads "matches".
ListUser(l) ==
  LET u == fetching[l] IN
  /\ lpc[l] = "fetch" /\ u \in Users
  /\ stat[u].matches <= IntMax
  /\ users' = [users EXCEPT ![l] = Append(@, u)]
  /\ Fetched(l)

\* The try block is around the loop: what throws ends the list.
Abort(l) ==
  /\ lpc' = [lpc EXCEPT ![l] = "answered"]
  /\ failed' = [failed EXCEPT ![l] = TRUE]
  /\ UNCHANGED <<list, due, visited, fetching, users, owed>>

\* get_int32 throws on a user whose matches outgrew int32.
UserOutgrown(l) ==
  /\ lpc[l] = "fetch" /\ fetching[l] \in Users
  /\ stat[fetching[l]].matches > IntMax
  /\ Abort(l)

\* A query of the lister throws.
ListFault(l) ==
  /\ lpc[l] \in {"next", "fetch"}
  /\ faults < MaxFaults
  /\ faults' = faults + 1
  /\ Abort(l)
  /\ UNCHANGED <<stat, swipes, pc, req, snap, sent, seen, answered, credit,
                 writes>>

ListStep(l) ==
  \/ Open(l) \/ RefuseList(l) \/ NextDoc(l) \/ Exhausted(l)
  \/ SkipUnknown(l) \/ ListUser(l) \/ UserOutgrown(l)

LikesInit == Init /\ ListInit

LikesNext ==
  \/ Next /\ UNCHANGED listVars
  \/ \E l \in Listers : ListStep(l) /\ UNCHANGED vars
  \/ \E l \in Listers : ListFault(l)

LikesSpec == LikesInit /\ [][LikesNext]_<<vars, listVars>>

-----------------------------------------------------------------------------
(* Properties.                                                             *)

(* Swiping and listing agree across requests: a user who was told that its *)
(* like was processed is in every list without error that is asked for     *)
(* after that.  One swipe document that cannot be resolved costs nobody    *)
(* else a place.                                                           *)
AnsweredLikesListed ==
  \A l \in Listers : lpc[l] = "answered" /\ ~failed[l] =>
    \A r \in owed[l] :
      r.isLike /\ r.source \in Users /\ r.type = list[l].type
        /\ r.target = list[l].entity => \E i \in DOMAIN users[l] : users[l][i] = r.source

(* A list never invents a user, and repeats one only as often as it has    *)
(* swipe documents that record the entity: workers that raced through the  *)
(* upsert left them, and a swipe sent again may enter both.                *)
ListedAsRecorded ==
  \A l \in Listers, u \in Users :
    LET entries == {i \in DOMAIN users[l] : users[l][i] = u}
    IN  entries # {} =>
          Cardinality(entries)
            <= Cardinality({i \in DOMAIN Docs(list[l].type, u) :
                              list[l].entity \in Docs(list[l].type, u)[i]})

(* The list has the "users who liked a specific entity" (Matcher.cpp:303): *)
(* whoever is in it has sent a like.  But a swipe document does not tell a *)
(* like from a dislike, so whoever disliked the entity is listed too.      *)
OnlyLikersListed ==
  \A l \in Listers : \A i \in DOMAIN users[l] :
    \E r \in seen : /\ r.isLike /\ r.source = users[l][i]
                     /\ r.type = list[l].type /\ r.target = list[l].entity

=============================================================================
