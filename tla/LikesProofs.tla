----------------------------- MODULE LikesProofs -----------------------------
(***************************************************************************)
(* Who is in an answer of GET /api/likes, for any number of listers beside *)
(* any number of workers that swipe, and any number of faults.             *)
(***************************************************************************)
EXTENDS Likes, MatcherProofs, FunctionTheorems

-----------------------------------------------------------------------------
(* The invariant, of each lister: what the answer owes follows the cursor  *)
(* from the documents it has to deliver, over those it has delivered, to   *)
(* the users.                                                              *)

IdleEmpty(l) == lpc[l] = "idle" => visited[l] = {} /\ users[l] = <<>>

RequestTaken(l) ==
  lpc[l] \in {"next", "fetch"} \/ visited[l] # {}
    => list[l] \in Lists /\ list[l].type \in Types

\* The cursor has a document of every swipe that was answered before.
OwedDue(l) ==
  lpc[l] # "idle" /\ ~failed[l] =>
    \A r \in owed[l] : r.type = list[l].type /\ r.target = list[l].entity
      => \E i : <<r.source, i>> \in due[l]

AllDelivered(l) == lpc[l] = "answered" /\ ~failed[l] => due[l] \subseteq visited[l]

\* The source of a delivered document is listed, or about to be.
VisitedListed(l) ==
  ~failed[l] => \A k \in visited[l] : k[1] \in Users
    => \/ \E i \in DOMAIN users[l] : users[l][i] = k[1]
       \/ lpc[l] = "fetch" /\ fetching[l] = k[1]

\* A document that was delivered still holds the entity.
VisitedMatch(l) == visited[l] \subseteq Matching(list[l])

Entries(l, u) == {i \in DOMAIN users[l] : users[l][i] = u}
Visits(l, u)  == {k \in visited[l] : k[1] = u}

\* Every entry of a user is of a delivered document of its own.
VisitsCover(l) ==
  /\ IsFiniteSet(visited[l])
  /\ \A u \in Users :
       /\ Cardinality(Entries(l, u)) <= Cardinality(Visits(l, u))
       /\ lpc[l] = "fetch" /\ fetching[l] = u =>
            Cardinality(Entries(l, u)) < Cardinality(Visits(l, u))

ListerInv(l) ==
  /\ IdleEmpty(l) /\ RequestTaken(l) /\ OwedDue(l) /\ AllDelivered(l)
  /\ VisitedListed(l) /\ VisitedMatch(l) /\ VisitsCover(l)

LInv == IInv /\ LikesTypeOK /\ \A l \in Listers : ListerInv(l)

-----------------------------------------------------------------------------
(* The swipe documents, as the cursor sees them.                           *)

LEMMA MatchingMembers ==
  ASSUME NEW q, NEW k
  PROVE  k \in Matching(q) <=>
           /\ \E s \in Ids : \E i \in DOMAIN Docs(q.type, s) : k = <<s, i>>
           /\ q.entity \in Docs(q.type, k[1])[k[2]]
BY DEF Matching, AllDocs

LEMMA MatchingTyped ==
  ASSUME TypeOK, NEW q, q.type \in Types
  PROVE  Matching(q) \subseteq DocIds
<1> SUFFICES ASSUME NEW k \in Matching(q) PROVE k \in DocIds
  OBVIOUS
<1>1. PICK s \in Ids : \E i \in DOMAIN Docs(q.type, s) : k = <<s, i>>
  BY MatchingMembers
<1>2. PICK i \in DOMAIN Docs(q.type, s) : k = <<s, i>>
  BY <1>1
<1>3. swipes[q.type][s] \in Seq(SUBSET Ids)
  BY DEF TypeOK
<1>4. i \in Nat \ {0}
  BY <1>3, LenProperties DEF Docs
<1>5. QED  BY <1>2, <1>4 DEF DocIds

\* A document is never removed, and nothing is removed from it.
LEMMA DocsGrow ==
  ASSUME TypeInv, [Next]_vars, NEW ty \in Types, NEW s \in Ids,
         NEW i \in DOMAIN Docs(ty, s)
  PROVE  i \in DOMAIN Docs(ty, s)' /\ Docs(ty, s)[i] \subseteq Docs(ty, s)'[i]
<1>1. swipes \in [Types -> [Ids -> Seq(SUBSET Ids)]]
        /\ swipes[ty] \in [Ids -> Seq(SUBSET Ids)]
        /\ swipes[ty][s] \in Seq(SUBSET Ids)
  BY DEF TypeInv, TypeOK
<1>2. CASE swipes' = swipes
  BY <1>2 DEF Docs
<1>3. ASSUME NEW w \in Workers, UpsertMatched(w) \/ UpsertInsert(w)
      PROVE  i \in DOMAIN Docs(ty, s)' /\ Docs(ty, s)[i] \subseteq Docs(ty, s)'[i]
  <2> DEFINE r == req[w]
             old == swipes[r.type][r.source]
  <2>1. r.type \in Types /\ r.source \in Ids /\ r.target \in Ids
    BY <1>3, UpsertRecords, ValidFields
  <2>2. old \in Seq(SUBSET Ids)
    BY <2>1 DEF TypeInv, TypeOK
  <2>3. ASSUME NEW docs, swipes' = [swipes EXCEPT ![r.type][r.source] = docs]
        PROVE  swipes'[ty][s] = IF r.type = ty /\ r.source = s THEN docs
                                                               ELSE swipes[ty][s]
    <3> DEFINE row == [swipes[r.type] EXCEPT ![r.source] = docs]
    <3>1. swipes' = [swipes EXCEPT ![r.type] = row]
      BY <2>3
    <3>2. row[s] = IF r.source = s THEN docs ELSE swipes[r.type][s]
      BY <1>1, <2>1
    <3> HIDE DEF row
    <3>3. swipes'[ty] = IF r.type = ty THEN row ELSE swipes[ty]
      BY <1>1, <2>1, <3>1
    <3>4. QED  BY <3>2, <3>3
  <2>4. CASE UpsertMatched(w)
    <3>1. PICK j \in DOMAIN old :
            swipes' = [swipes EXCEPT ![r.type][r.source][j] = @ \cup {r.target}]
      BY <2>4 DEF UpsertMatched, Docs
    <3> DEFINE docs == [old EXCEPT ![j] = @ \cup {r.target}]
    <3>2. swipes' = [swipes EXCEPT ![r.type][r.source] = docs]
      BY <3>1
    <3>3. DOMAIN docs = DOMAIN old /\ \A m \in DOMAIN old : old[m] \subseteq docs[m]
      BY <2>2, <3>1
    <3> HIDE DEF docs
    <3>4. QED  BY <2>3, <3>2, <3>3 DEF Docs
  <2>5. CASE UpsertInsert(w)
    <3> DEFINE new  == {r.target}
               docs == Append(old, new)
    <3>1. swipes' = [swipes EXCEPT ![r.type][r.source] = docs]
      BY <2>5 DEF UpsertInsert
    <3>2. new \in SUBSET Ids
      BY <2>1
    <3> HIDE DEF new
    <3>3. /\ \A m \in DOMAIN old : m \in DOMAIN docs /\ docs[m] = old[m]
      <4> HIDE DEF old
      <4>1. docs \in Seq(SUBSET Ids) /\ Len(docs) = Len(old) + 1
              /\ \A m \in 1..Len(old) : docs[m] = old[m]
        BY <2>2, <3>2, AppendProperties
      <4> HIDE DEF docs
      <4>2. DOMAIN old = 1..Len(old) /\ DOMAIN docs = 1..Len(docs) /\ Len(old) \in Nat
        BY <2>2, <4>1, LenProperties
      <4>3. QED  BY <4>1, <4>2
    <3> HIDE DEF docs
    <3>4. QED  BY <2>3, <3>1, <3>3 DEF Docs
  <2>6. QED  BY <1>3, <2>4, <2>5
<1>4. CASE UNCHANGED vars
  BY <1>2, <1>4 DEF vars
<1>5. ASSUME NEW w \in Workers, Moves(w)
      PROVE  i \in DOMAIN Docs(ty, s)' /\ Docs(ty, s)[i] \subseteq Docs(ty, s)'[i]
  BY <1>2, <1>3, <1>5, OnlyUpsertsSwipe
<1>6. QED  BY <1>4, <1>5, NextMoves

LEMMA MatchingGrows ==
  ASSUME TypeInv, [Next]_vars, NEW q, q.type \in Types
  PROVE  Matching(q) \subseteq Matching(q)'
<1> SUFFICES ASSUME NEW k \in Matching(q) PROVE k \in Matching(q)'
  OBVIOUS
<1>1. PICK s \in Ids : \E i \in DOMAIN Docs(q.type, s) :
        k = <<s, i>> /\ q.entity \in Docs(q.type, s)[i]
  BY MatchingMembers
<1>2. PICK i \in DOMAIN Docs(q.type, s) :
        k = <<s, i>> /\ q.entity \in Docs(q.type, s)[i]
  BY <1>1
<1>3. i \in DOMAIN Docs(q.type, s)' /\ q.entity \in Docs(q.type, s)'[i]
  BY <1>2, DocsGrow
<1>4. QED  BY <1>2, <1>3 DEF Matching, AllDocs

-----------------------------------------------------------------------------
(* The steps.                                                              *)

\* A lister that does not step keeps its part of the invariant, whatever the
\* workers and the other listers do.
LEMMA ListerStays ==
  ASSUME LInv, [Next]_vars \/ UNCHANGED swipes, NEW m \in Listers,
         lpc'[m] = lpc[m], list'[m] = list[m], due'[m] = due[m],
         visited'[m] = visited[m], fetching'[m] = fetching[m],
         users'[m] = users[m], failed'[m] = failed[m], owed'[m] = owed[m]
  PROVE  ListerInv(m)'
<1>1. ListerInv(m)
  BY DEF LInv
<1>2. IdleEmpty(m)' /\ RequestTaken(m)'
  BY <1>1 DEF ListerInv, IdleEmpty, RequestTaken
<1>3. OwedDue(m)' /\ AllDelivered(m)'
  BY <1>1 DEF ListerInv, OwedDue, AllDelivered
<1>4. VisitedListed(m)'
  BY <1>1 DEF ListerInv, VisitedListed
<1>5. VisitedMatch(m)'
  <2>1. ASSUME NEW q, q = list[m] PROVE VisitedMatch(m)'
    <3>1. visited[m] \subseteq Matching(q)
      BY <1>1, <2>1 DEF ListerInv, VisitedMatch
    <3>2. visited[m] # {} => q.type \in Types
      BY <1>1, <2>1 DEF ListerInv, RequestTaken
    <3>3. visited[m] \subseteq Matching(q)'
      <4>1. CASE UNCHANGED swipes
        BY <3>1, <4>1 DEF Matching, AllDocs, Docs
      <4>2. CASE [Next]_vars
        BY <3>1, <3>2, <4>2, MatchingGrows DEF LInv, IInv
      <4>3. QED  BY <4>1, <4>2
    <3>4. list'[m] = q /\ visited'[m] = visited[m]
      BY <2>1
    <3>5. Matching(list[m])' = Matching(q)'
      BY <3>4 DEF Matching, AllDocs
    <3>6. QED  BY <3>3, <3>4, <3>5 DEF VisitedMatch
  <2>2. QED  BY <2>1
<1>6. VisitsCover(m)'
  BY <1>1 DEF ListerInv, VisitsCover, Entries, Visits
<1>7. QED  BY <1>2, <1>3, <1>4, <1>5, <1>6 DEF ListerInv

\* What the clauses of LikesTypeOK say of one lister that steps.
LEMMA ListerTyped ==
  ASSUME LikesTypeOK, NEW l \in Listers
  PROVE  /\ lpc[l] \in {"idle", "next", "fetch", "answered"}
         /\ list[l] \in Lists \cup {NoList}
         /\ due[l] \in SUBSET DocIds /\ visited[l] \in SUBSET DocIds
         /\ fetching[l] \in Ids \cup {NoUser}
         /\ users[l] \in Seq(Users) /\ failed[l] \in BOOLEAN
         /\ owed[l] \in SUBSET Requests
BY DEF LikesTypeOK

\* A lister leaves the others as they are.
LEMMA OtherListersStay ==
  ASSUME LikesTypeOK, NEW l \in Listers, ListStep(l) \/ ListFault(l),
         NEW m \in Listers, m # l
  PROVE  /\ lpc'[m] = lpc[m] /\ list'[m] = list[m] /\ due'[m] = due[m]
         /\ visited'[m] = visited[m] /\ fetching'[m] = fetching[m]
         /\ users'[m] = users[m] /\ failed'[m] = failed[m] /\ owed'[m] = owed[m]
BY DEF LikesTypeOK, ListStep, ListFault, Open, RefuseList, NextDoc, Exhausted,
       SkipUnknown, ListUser, UserOutgrown, Fetched, Abort

\* The cursor has a document of every swipe that was answered.
LEMMA AnsweredMatch ==
  ASSUME IInv, NEW q, NEW r \in answered, r.type = q.type, r.target = q.entity
  PROVE  \E i : <<r.source, i>> \in Matching(q)
<1>1. /\ r.source \in Ids
      /\ r.target \in Recorded(r.type, r.source)
  BY DEF IInv, AnsweredRecorded, Valid
<1>2. PICK i \in DOMAIN Docs(r.type, r.source) : r.target \in Docs(r.type, r.source)[i]
  BY <1>1 DEF Recorded
<1>3. <<r.source, i>> \in Matching(q)
  BY <1>1, <1>2, MatchingMembers
<1>4. QED  BY <1>3

LEMMA OpenTyped ==
  ASSUME LInv, NEW l \in Listers, Open(l), UNCHANGED vars
  PROVE  LikesTypeOK'
<1>1. PICK q \in Lists : /\ q.type \in Types
                         /\ list' = [list EXCEPT ![l] = q]
                         /\ due' = [due EXCEPT ![l] = Matching(q)]
  BY DEF Open
<1>2. Matching(q) \in SUBSET DocIds
  BY <1>1, MatchingTyped DEF LInv, IInv, TypeInv
<1>3. answered \subseteq Requests
  BY DEF LInv, IInv, TypeInv, TypeOK
<1> DEFINE docs == Matching(q)
<1> HIDE DEF docs
<1>4. due' \in [Listers -> SUBSET DocIds] /\ list' \in [Listers -> Lists \cup {NoList}]
  BY <1>1, <1>2 DEF LInv, LikesTypeOK, docs
<1>5. QED  BY <1>3, <1>4 DEF LInv, LikesTypeOK, Open

LEMMA OpenKeeps ==
  ASSUME LInv, NEW l \in Listers, Open(l), UNCHANGED vars
  PROVE  ListerInv(l)'
<1>1. PICK q \in Lists : /\ q.type \in Types
                         /\ list' = [list EXCEPT ![l] = q]
                         /\ due' = [due EXCEPT ![l] = Matching(q)]
  BY DEF Open
<1>2. LikesTypeOK /\ ListerInv(l)
  BY DEF LInv
<1>3. list'[l] = q /\ due'[l] = Matching(q)
  BY <1>1, <1>2 DEF LikesTypeOK
<1>4. /\ lpc[l] = "idle" /\ lpc'[l] = "next" /\ owed'[l] = answered
      /\ visited' = visited /\ users' = users /\ failed' = failed
      /\ fetching' = fetching
  BY <1>2 DEF Open, LikesTypeOK
<1>5. visited[l] = {} /\ users[l] = <<>>
  BY <1>2, <1>4 DEF ListerInv, IdleEmpty
<1>6. IdleEmpty(l)' /\ RequestTaken(l)' /\ AllDelivered(l)'
  BY <1>1, <1>3, <1>4 DEF IdleEmpty, RequestTaken, AllDelivered
<1>7. OwedDue(l)'
  <2> SUFFICES ASSUME NEW r \in owed'[l], r.type = list'[l].type,
                      r.target = list'[l].entity
               PROVE  \E i : <<r.source, i>> \in due'[l]
    BY DEF OwedDue
  <2>1. QED  BY <1>3, <1>4, AnsweredMatch DEF LInv
<1>8. VisitedListed(l)' /\ VisitedMatch(l)'
  BY <1>4, <1>5 DEF VisitedListed, VisitedMatch
<1>9. VisitsCover(l)'
  <2>1. IsFiniteSet(visited'[l])
    BY <1>4, <1>5, FS_EmptySet
  <2>2. \A u : Entries(l, u)' = {} /\ Visits(l, u)' = {}
    BY <1>4, <1>5 DEF Entries, Visits
  <2>3. QED  BY <1>4, <2>1, <2>2, FS_EmptySet DEF VisitsCover
<1>10. QED  BY <1>6, <1>7, <1>8, <1>9 DEF ListerInv

\* VisitedMatch of a lister whose request and whose documents stay.
LEMMA MatchKept ==
  ASSUME UNCHANGED swipes, NEW l, list'[l] = list[l],
         visited'[l] \subseteq Matching(list[l])
  PROVE  VisitedMatch(l)'
BY DEF VisitedMatch, Matching, AllDocs, Docs

LEMMA EntriesFinite ==
  ASSUME LikesTypeOK, NEW l \in Listers, NEW u
  PROVE  IsFiniteSet(Entries(l, u)) /\ Cardinality(Entries(l, u)) \in Nat
<1> DEFINE n == Len(users[l])
<1>1. Entries(l, u) \subseteq 1..n /\ n \in Nat
  BY ListerTyped, LenProperties DEF Entries
<1> HIDE DEF n
<1>2. IsFiniteSet(1..n)
  BY <1>1, FS_Interval
<1>3. QED  BY <1>1, <1>2, FS_Subset, FS_CardinalityType

LEMMA NextDocKeeps ==
  ASSUME LInv, NEW l \in Listers, NextDoc(l), UNCHANGED vars
  PROVE  LikesTypeOK' /\ ListerInv(l)'
<1>1. LikesTypeOK /\ ListerInv(l)
  BY DEF LInv
<1>2. PICK k \in Matching(list[l]) \ visited[l] :
        /\ visited' = [visited EXCEPT ![l] = @ \cup {k}]
        /\ fetching' = [fetching EXCEPT ![l] = k[1]]
  BY DEF NextDoc
<1>3. list[l] \in Lists /\ list[l].type \in Types /\ lpc[l] = "next"
  BY <1>1 DEF NextDoc, ListerInv, RequestTaken
<1>4. k \in DocIds /\ k[1] \in Ids
  <2>1. \A q : q = list[l] => k \in DocIds
    BY <1>2, <1>3, MatchingTyped DEF LInv, IInv, TypeInv
  <2>2. QED  BY <2>1 DEF DocIds
<1>5. /\ visited'[l] = visited[l] \cup {k} /\ fetching'[l] = k[1]
      /\ lpc'[l] = "fetch" /\ list' = list /\ due' = due /\ users' = users
      /\ failed' = failed /\ owed' = owed
  BY <1>1, <1>2 DEF NextDoc, LikesTypeOK
<1>6. LikesTypeOK'
  <2>1. visited' \in [Listers -> SUBSET DocIds] /\ fetching' \in [Listers -> Ids \cup {NoUser}]
    BY <1>1, <1>2, <1>4 DEF LikesTypeOK
  <2>2. lpc' \in [Listers -> {"idle", "next", "fetch", "answered"}]
    BY <1>1 DEF NextDoc, LikesTypeOK
  <2>3. QED  BY <1>1, <1>5, <2>1, <2>2 DEF LikesTypeOK
<1>7. IdleEmpty(l)' /\ RequestTaken(l)' /\ AllDelivered(l)'
  BY <1>3, <1>5 DEF IdleEmpty, RequestTaken, AllDelivered
<1>8. OwedDue(l)'
  BY <1>1, <1>3, <1>5 DEF ListerInv, OwedDue
<1>9. VisitedListed(l)'
  BY <1>1, <1>3, <1>5 DEF ListerInv, VisitedListed
<1>10. VisitedMatch(l)'
  BY <1>1, <1>2, <1>5, MatchKept DEF ListerInv, VisitedMatch, vars
<1>11. VisitsCover(l)'
  <2>1. IsFiniteSet(visited[l]) /\ IsFiniteSet(visited'[l])
    BY <1>1, <1>5, FS_AddElement DEF ListerInv, VisitsCover
  <2> SUFFICES ASSUME NEW u \in Users
               PROVE  /\ Cardinality(Entries(l, u)') <= Cardinality(Visits(l, u)')
                      /\ fetching'[l] = u =>
                           Cardinality(Entries(l, u)') < Cardinality(Visits(l, u)')
    BY <2>1 DEF VisitsCover
  <2> DEFINE E == Entries(l, u)
             A == Visits(l, u)
             B == Visits(l, u)'
  <2>2. Entries(l, u)' = E /\ Cardinality(E) <= Cardinality(A)
    BY <1>1, <1>5 DEF Entries, ListerInv, VisitsCover
  <2>3. Cardinality(E) \in Nat
    BY <1>1, EntriesFinite
  <2>4. IsFiniteSet(A)
    BY <2>1, FS_Subset DEF Visits
  <2>5. \A v : v # k => (v \in A <=> v \in B)
    BY <1>5 DEF Visits
  <2>6. k \notin A /\ (k \in B <=> k[1] = u)
    BY <1>2, <1>5 DEF Visits
  <2> HIDE DEF A, B, E
  <2>7. /\ Cardinality(A) \in Nat /\ Cardinality(B) \in Nat
        /\ k \notin B => Cardinality(B) = Cardinality(A)
        /\ k \in B => Cardinality(B) = Cardinality(A) + 1
    BY <2>4, <2>5, <2>6, OneMoves
  <2>8. Cardinality(E) <= Cardinality(B) /\ (k[1] = u => Cardinality(E) < Cardinality(B))
    BY <2>2, <2>3, <2>6, <2>7
  <2>9. QED  BY <1>5, <2>2, <2>8 DEF B
<1>12. QED  BY <1>6, <1>7, <1>8, <1>9, <1>10, <1>11 DEF ListerInv

\* A cursor that has delivered all that it has to deliver.
LEMMA ExhaustedKeeps ==
  ASSUME LInv, NEW l \in Listers, Exhausted(l), UNCHANGED vars
  PROVE  LikesTypeOK' /\ ListerInv(l)'
<1>1. LikesTypeOK /\ ListerInv(l)
  BY DEF LInv
<1>2. /\ lpc[l] = "next" /\ due[l] \subseteq visited[l]
      /\ lpc' = [lpc EXCEPT ![l] = "answered"] /\ lpc'[l] = "answered"
      /\ UNCHANGED <<list, due, visited, fetching, users, failed, owed>>
  BY <1>1 DEF Exhausted, LikesTypeOK
<1>3. LikesTypeOK'
  BY <1>1, <1>2 DEF LikesTypeOK
<1>4. IdleEmpty(l)' /\ RequestTaken(l)' /\ AllDelivered(l)' /\ OwedDue(l)'
  BY <1>1, <1>2
  DEF ListerInv, IdleEmpty, RequestTaken, AllDelivered, OwedDue
<1>5. VisitedListed(l)' /\ VisitsCover(l)'
  BY <1>1, <1>2 DEF ListerInv, VisitedListed, VisitsCover, Entries, Visits
<1>6. VisitedMatch(l)'
  BY <1>1, <1>2, MatchKept DEF ListerInv, VisitedMatch, vars
<1>7. QED  BY <1>3, <1>4, <1>5, <1>6 DEF ListerInv

\* An answer with an "error": of a type that is refused, of a user whose
\* matches outgrew int32, of a query that throws.
LEMMA FailureKeeps ==
  ASSUME LInv, NEW l \in Listers, UNCHANGED swipes,
         RefuseList(l) \/ (Abort(l) /\ lpc[l] # "idle")
  PROVE  ListerInv(l)'
<1>1. LikesTypeOK /\ ListerInv(l)
  BY DEF LInv
<1>2. /\ lpc'[l] = "answered" /\ failed'[l] = TRUE
      /\ UNCHANGED <<due, visited, fetching, users, owed>>
  BY <1>1 DEF RefuseList, Abort, LikesTypeOK
<1>3. list'[l] = list[l] \/ visited[l] = {}
  BY <1>1 DEF RefuseList, Abort, ListerInv, IdleEmpty
<1>4. IdleEmpty(l)' /\ RequestTaken(l)' /\ AllDelivered(l)' /\ OwedDue(l)'
  BY <1>1, <1>2, <1>3
  DEF ListerInv, IdleEmpty, RequestTaken, AllDelivered, OwedDue
<1>5. VisitedListed(l)' /\ VisitsCover(l)'
  BY <1>1, <1>2 DEF ListerInv, VisitedListed, VisitsCover, Entries, Visits
<1>6. VisitedMatch(l)'
  <2>1. CASE visited[l] = {}
    BY <1>2, <2>1 DEF VisitedMatch
  <2>2. CASE list'[l] = list[l]
    BY <1>1, <1>2, <2>2, MatchKept DEF ListerInv, VisitedMatch
  <2>3. QED  BY <1>3, <2>1, <2>2
<1>7. QED  BY <1>4, <1>5, <1>6 DEF ListerInv

LEMMA SkipKeeps ==
  ASSUME LInv, NEW l \in Listers, SkipUnknown(l), UNCHANGED vars
  PROVE  LikesTypeOK' /\ ListerInv(l)'
<1>1. LikesTypeOK /\ ListerInv(l)
  BY DEF LInv
<1>2. /\ lpc[l] = "fetch" /\ fetching[l] \notin Users
      /\ lpc' = [lpc EXCEPT ![l] = "next"] /\ lpc'[l] = "next"
      /\ fetching' = [fetching EXCEPT ![l] = NoUser]
      /\ UNCHANGED <<list, due, visited, users, failed, owed>>
  BY <1>1 DEF SkipUnknown, Fetched, LikesTypeOK
<1>3. LikesTypeOK'
  BY <1>1, <1>2 DEF LikesTypeOK
<1>4. IdleEmpty(l)' /\ RequestTaken(l)' /\ AllDelivered(l)' /\ OwedDue(l)'
  BY <1>1, <1>2
  DEF ListerInv, IdleEmpty, RequestTaken, AllDelivered, OwedDue
<1>5. VisitedListed(l)' /\ VisitsCover(l)'
  BY <1>1, <1>2 DEF ListerInv, VisitedListed, VisitsCover, Entries, Visits
<1>6. VisitedMatch(l)'
  BY <1>1, <1>2, MatchKept DEF ListerInv, VisitedMatch, vars
<1>7. QED  BY <1>3, <1>4, <1>5, <1>6 DEF ListerInv

LEMMA ListUserKeeps ==
  ASSUME LInv, NEW l \in Listers, ListUser(l), UNCHANGED vars
  PROVE  LikesTypeOK' /\ ListerInv(l)'
<1> DEFINE u == fetching[l]
           n == Len(users[l]) + 1
<1>1. LikesTypeOK /\ ListerInv(l)
  BY DEF LInv
<1>2. /\ lpc[l] = "fetch" /\ u \in Users
      /\ lpc' = [lpc EXCEPT ![l] = "next"] /\ lpc'[l] = "next"
      /\ fetching' = [fetching EXCEPT ![l] = NoUser]
      /\ users' = [users EXCEPT ![l] = Append(@, u)]
      /\ UNCHANGED <<list, due, visited, failed, owed>>
  BY <1>1 DEF ListUser, Fetched, LikesTypeOK
<1>3. /\ users[l] \in Seq(Users) /\ users'[l] = Append(users[l], u)
      /\ users'[l] \in Seq(Users)
  BY <1>1, <1>2, AppendProperties DEF LikesTypeOK
<1>4. LikesTypeOK'
  <2>1. users' \in [Listers -> Seq(Users)]
    <3> DEFINE new == Append(users[l], u)
    <3>1. new \in Seq(Users) /\ users' = [users EXCEPT ![l] = new]
      BY <1>2, <1>3
    <3> HIDE DEF new
    <3>2. QED  BY <1>1, <3>1 DEF LikesTypeOK
  <2>2. QED  BY <1>1, <1>2, <2>1 DEF LikesTypeOK
<1>5. /\ Len(users[l]) \in Nat /\ DOMAIN users[l] = 1..Len(users[l])
      /\ DOMAIN users'[l] = 1..n /\ users'[l][n] = u
      /\ \A i \in 1..Len(users[l]) : users'[l][i] = users[l][i]
  BY <1>2, <1>3, AppendProperties, LenProperties
<1> HIDE DEF n
<1>6. /\ n \in DOMAIN users'[l] /\ n \notin DOMAIN users[l]
      /\ DOMAIN users'[l] = DOMAIN users[l] \cup {n}
      /\ \A i \in DOMAIN users[l] : users'[l][i] = users[l][i]
  BY <1>5 DEF n
<1>7. IdleEmpty(l)' /\ RequestTaken(l)' /\ AllDelivered(l)' /\ OwedDue(l)'
  BY <1>1, <1>2
  DEF ListerInv, IdleEmpty, RequestTaken, AllDelivered, OwedDue
<1>8. VisitedListed(l)'
  <2> SUFFICES ASSUME ~failed[l], NEW k \in visited[l], k[1] \in Users
               PROVE  \E i \in DOMAIN users'[l] : users'[l][i] = k[1]
    BY <1>2 DEF VisitedListed
  <2>1. (\E i \in DOMAIN users[l] : users[l][i] = k[1]) \/ k[1] = u
    BY <1>1 DEF ListerInv, VisitedListed
  <2>2. QED  BY <1>5, <1>6, <2>1
<1>9. VisitsCover(l)'
  <2> SUFFICES ASSUME NEW v \in Users
               PROVE  Cardinality(Entries(l, v)') <= Cardinality(Visits(l, v)')
    BY <1>1, <1>2 DEF ListerInv, VisitsCover
  <2> DEFINE A == Entries(l, v)
             B == Entries(l, v)'
             K == Visits(l, v)
  <2>1. Visits(l, v)' = K
    BY <1>2 DEF Visits
  <2>2. Cardinality(A) <= Cardinality(K) /\ (u = v => Cardinality(A) < Cardinality(K))
    BY <1>1, <1>2 DEF ListerInv, VisitsCover
  <2>3. IsFiniteSet(A) /\ IsFiniteSet(K) /\ Cardinality(K) \in Nat
    BY <1>1, EntriesFinite, FS_Subset, FS_CardinalityType
    DEF ListerInv, VisitsCover, Visits
  <2>4. \A i : i # n => (i \in A <=> i \in B)
    BY <1>6 DEF Entries
  <2>5. n \notin A /\ (n \in B <=> u = v)
    BY <1>5, <1>6 DEF Entries
  <2> HIDE DEF A, B, K
  <2>6. /\ Cardinality(A) \in Nat /\ Cardinality(B) \in Nat
        /\ n \notin B => Cardinality(B) = Cardinality(A)
        /\ n \in B => Cardinality(B) = Cardinality(A) + 1
    BY <2>3, <2>4, <2>5, OneMoves
  <2>7. Cardinality(B) <= Cardinality(K)
    BY <2>2, <2>3, <2>5, <2>6
  <2>8. QED  BY <2>1, <2>7 DEF B
<1>10. VisitedMatch(l)'
  BY <1>1, <1>2, MatchKept DEF ListerInv, VisitedMatch, vars
<1>11. QED  BY <1>4, <1>7, <1>8, <1>9, <1>10 DEF ListerInv

-----------------------------------------------------------------------------
LEMMA LInit == LikesInit => LInv
<1> SUFFICES ASSUME LikesInit PROVE LInv
  OBVIOUS
<1>1. IInv
  BY IInit DEF LikesInit
<1>2. LikesTypeOK
  BY DEF LikesInit, ListInit, LikesTypeOK
<1>3. ASSUME NEW l \in Listers PROVE ListerInv(l)
  <2>1. /\ lpc[l] = "idle" /\ visited[l] = {} /\ users[l] = <<>>
        /\ ~failed[l]
    BY DEF LikesInit, ListInit
  <2>2. \A u : Entries(l, u) = {} /\ Visits(l, u) = {}
    BY <2>1 DEF Entries, Visits
  <2>3. VisitsCover(l)
    <3>1. IsFiniteSet({}) /\ Cardinality({}) = 0
      BY FS_EmptySet
    <3>2. lpc[l] # "fetch" /\ IsFiniteSet(visited[l])
      BY <2>1, <3>1
    <3>3. \A u \in Users : Cardinality(Entries(l, u)) <= Cardinality(Visits(l, u))
      BY <2>2, <3>1
    <3>4. QED  BY <3>2, <3>3 DEF VisitsCover
  <2>4. QED
    BY <2>1, <2>3
    DEF ListerInv, IdleEmpty, RequestTaken, OwedDue, AllDelivered,
        VisitedListed, VisitedMatch
<1>4. QED  BY <1>1, <1>2, <1>3 DEF LInv

\* A fault of a lister leaves what the workers' invariant speaks of.
LEMMA FaultKeepsIInv ==
  ASSUME IInv, NEW l \in Listers, ListFault(l)
  PROVE  IInv'
<1>1. /\ UNCHANGED <<stat, swipes, pc, req, snap, sent, seen, answered, credit, writes>>
      /\ faults < MaxFaults /\ faults' = faults + 1
  BY DEF ListFault
<1>2. TypeInv'
  BY <1>1, MatcherAssumption
  DEF IInv, TypeInv, TypeOK, BusyValid, WritesFound, Valid
<1>3. /\ SwipeRecorded' /\ AnsweredRecorded' /\ CreditorsFoundMutual'
      /\ MatchNeedsMutualSwipe'
  BY <1>1
  DEF IInv, SwipeRecorded, AnsweredRecorded, CreditorsFoundMutual, IsMutual,
      MatchNeedsMutualSwipe, Recorded, Docs, Valid
<1>4. SourceCredited' /\ CreditsWithinMatches' /\ ProcessedMatched'
  BY <1>1
  DEF IInv, SourceCredited, CreditsWithinMatches, ProcessedMatched, Processed, Likes
<1>5. QED  BY <1>2, <1>3, <1>4 DEF IInv

LEMMA FailureTyped ==
  ASSUME LikesTypeOK, NEW l \in Listers,
         RefuseList(l) \/ Abort(l)
  PROVE  LikesTypeOK'
<1>1. /\ lpc' = [lpc EXCEPT ![l] = "answered"]
      /\ failed' = [failed EXCEPT ![l] = TRUE]
  BY DEF RefuseList, Abort
<1>2. list' = list \/ \E q \in Lists : list' = [list EXCEPT ![l] = q]
  BY DEF RefuseList, Abort
<1>3. lpc' \in [Listers -> {"idle", "next", "fetch", "answered"}]
  BY <1>1 DEF LikesTypeOK
<1>4. failed' \in [Listers -> BOOLEAN]
  BY <1>1 DEF LikesTypeOK
<1>5. list' \in [Listers -> Lists \cup {NoList}]
  BY <1>2 DEF LikesTypeOK
<1>6. UNCHANGED <<due, visited, fetching, users, owed>>
  BY DEF RefuseList, Abort
<1>7. QED  BY <1>3, <1>4, <1>5, <1>6 DEF LikesTypeOK

LEMMA LStep == LInv /\ [LikesNext]_<<vars, listVars>> => LInv'
<1> SUFFICES ASSUME LInv, [LikesNext]_<<vars, listVars>> PROVE LInv'
  OBVIOUS
<1>1. CASE [Next]_vars /\ UNCHANGED listVars
  <2>1. IInv' /\ LikesTypeOK'
    BY <1>1, IStep DEF LInv, LikesTypeOK, listVars
  <2>2. \A l \in Listers : ListerInv(l)'
    BY <1>1, ListerStays DEF listVars
  <2>3. QED  BY <2>1, <2>2 DEF LInv
<1>2. ASSUME NEW l \in Listers, ListStep(l), UNCHANGED vars PROVE LInv'
  <2>1. IInv'
    BY <1>2, IStep DEF LInv
  <2>2. LikesTypeOK' /\ ListerInv(l)'
    <3>1. CASE Open(l)
      BY <1>2, <3>1, OpenTyped, OpenKeeps
    <3>2. CASE RefuseList(l)
      BY <1>2, <3>2, FailureKeeps, FailureTyped DEF LInv, vars
    <3>3. CASE NextDoc(l)
      BY <1>2, <3>3, NextDocKeeps
    <3>4. CASE Exhausted(l)
      BY <1>2, <3>4, ExhaustedKeeps
    <3>5. CASE SkipUnknown(l)
      BY <1>2, <3>5, SkipKeeps
    <3>6. CASE ListUser(l)
      BY <1>2, <3>6, ListUserKeeps
    <3>7. CASE UserOutgrown(l)
      BY <1>2, <3>7, FailureKeeps, FailureTyped DEF LInv, UserOutgrown, Abort, vars
    <3>8. QED  BY <1>2, <3>1, <3>2, <3>3, <3>4, <3>5, <3>6, <3>7 DEF ListStep
  <2>3. ASSUME NEW m \in Listers, m # l PROVE ListerInv(m)'
    BY <1>2, <2>3, OtherListersStay, ListerStays DEF LInv
  <2>4. QED  BY <2>1, <2>2, <2>3 DEF LInv
<1>3. ASSUME NEW l \in Listers, ListFault(l) PROVE LInv'
  <2>1. /\ Abort(l) /\ lpc[l] # "idle" /\ UNCHANGED swipes
    BY <1>3 DEF ListFault, Abort
  <2>2. IInv'
    BY <1>3, FaultKeepsIInv DEF LInv
  <2>3. LikesTypeOK' /\ ListerInv(l)'
    BY <2>1, FailureKeeps, FailureTyped DEF LInv
  <2>4. ASSUME NEW m \in Listers, m # l PROVE ListerInv(m)'
    BY <1>3, <2>1, <2>4, OtherListersStay, ListerStays DEF LInv
  <2>5. QED  BY <2>2, <2>3, <2>4 DEF LInv
<1>4. QED  BY <1>1, <1>2, <1>3 DEF LikesNext

LEMMA LInvHolds == LikesSpec => []LInv
BY LInit, LStep, PTL DEF LikesSpec

\* The listers' variables keep their types, beside workers that write.
THEOREM LikesTypeCorrect == LikesSpec => []LikesTypeOK
BY LInvHolds, PTL DEF LInv

\* Every user whose like of the entity was answered before the request is in
\* an answer without error, whatever the workers and the faults do meanwhile.
THEOREM AnsweredAreListed == LikesSpec => []AnsweredLikesListed
<1>1. LInv => AnsweredLikesListed
  <2> SUFFICES ASSUME LInv, NEW l \in Listers, lpc[l] = "answered", ~failed[l],
                      NEW r \in owed[l], r.isLike, r.source \in Users,
                      r.type = list[l].type, r.target = list[l].entity
               PROVE  \E i \in DOMAIN users[l] : users[l][i] = r.source
    BY DEF AnsweredLikesListed
  <2>1. ListerInv(l)
    BY DEF LInv
  <2>2. PICK i : <<r.source, i>> \in due[l]
    BY <2>1 DEF ListerInv, OwedDue
  <2>3. <<r.source, i>> \in visited[l]
    BY <2>1, <2>2 DEF ListerInv, AllDelivered
  <2>4. QED  BY <2>1, <2>3 DEF ListerInv, VisitedListed
<1>2. QED  BY <1>1, LInvHolds, PTL

\* No answer lists a user more often than the user has swipe documents that
\* hold the entity: the entries of a user inject into those documents.
THEOREM ListsMatchRecords == LikesSpec => []ListedAsRecorded
<1>1. LInv => ListedAsRecorded
  <2> SUFFICES ASSUME LInv, NEW l \in Listers, NEW u \in Users, Entries(l, u) # {}
               PROVE  Cardinality(Entries(l, u))
                        <= Cardinality({i \in DOMAIN Docs(list[l].type, u) :
                                          list[l].entity \in Docs(list[l].type, u)[i]})
    BY DEF ListedAsRecorded, Entries
  <2> DEFINE E == Entries(l, u)
             V == Visits(l, u)
             M == {i \in DOMAIN Docs(list[l].type, u) :
                     list[l].entity \in Docs(list[l].type, u)[i]}
             f == [k \in V |-> k[2]]
  <2>1. ListerInv(l) /\ LikesTypeOK /\ TypeOK
    BY DEF LInv, IInv, TypeInv
  <2>2. IsFiniteSet(V) /\ Cardinality(E) <= Cardinality(V)
    BY <2>1, FS_Subset DEF ListerInv, VisitsCover, Visits
  <2>3. IsFiniteSet(E) /\ Cardinality(E) \in Nat /\ Cardinality(E) # 0
    BY <2>1, EntriesFinite, FS_EmptySet
  <2>4. V # {}
    BY <2>2, <2>3, FS_EmptySet
  <2>5. list[l].type \in Types /\ u \in Ids
    BY <2>1, <2>4 DEF ListerInv, RequestTaken, Visits, Ids, Entities
  <2>6. \A k \in V : k = <<u, k[2]>> /\ k[2] \in M
    <3> SUFFICES ASSUME NEW k \in V PROVE k = <<u, k[2]>> /\ k[2] \in M
      OBVIOUS
    <3>1. k \in Matching(list[l]) /\ k[1] = u
      BY <2>1 DEF ListerInv, VisitedMatch, Visits
    <3>2. \E s \in Ids : \E i \in DOMAIN Docs(list[l].type, s) : k = <<s, i>>
      BY <3>1 DEF Matching, AllDocs
    <3>3. list[l].entity \in Docs(list[l].type, k[1])[k[2]]
      BY <3>1 DEF Matching
    <3>4. QED  BY <3>1, <3>2, <3>3
  <2>7. IsFiniteSet(M)
    <3> DEFINE n == Len(swipes[list[l].type][u])
    <3>1. M \subseteq 1..n /\ n \in Nat
      <4>1. swipes[list[l].type][u] \in Seq(SUBSET Ids)
        BY <2>1, <2>5 DEF TypeOK
      <4>2. QED  BY <4>1, LenProperties DEF Docs
    <3> HIDE DEF n, M
    <3>2. IsFiniteSet(1..n)
      BY <3>1, FS_Interval
    <3>3. QED  BY <3>1, <3>2, FS_Subset
  <2> HIDE DEF V, M, E
  <2>8. f \in Injection(V, M)
    <3>1. f \in [V -> M] /\ \A a, b \in V : f[a] = f[b] => a = b
      BY <2>6
    <3> HIDE DEF f
    <3>2. QED  BY <3>1, Fun_IsInj
  <2>9. Cardinality(V) <= Cardinality(M)
    BY <2>7, <2>8, FS_Injection
  <2>10. Cardinality(V) \in Nat /\ Cardinality(M) \in Nat
    BY <2>2, <2>7, FS_CardinalityType
  <2>11. QED  BY <2>2, <2>3, <2>9, <2>10 DEF E, M
<1>2. QED  BY <1>1, LInvHolds, PTL

=============================================================================
