------------------------ MODULE RecommendationsProofs ------------------------
(***************************************************************************)
(* The answer of getRecommendations is a ranking and leaves out nobody     *)
(* better, for any collections, scores, length of the answer and any       *)
(* number of likes and moves during the request.                           *)
(*                                                                         *)
(* The argument follows the pairs: while the cursor runs, "scored" holds   *)
(* one pair for each readable document delivered (Complete, Distinct),     *)
(* with a score its document had (Found).  Sorting permutes the pairs and  *)
(* the cut keeps a prefix, so whoever is cut off comes after ten others.   *)
(***************************************************************************)
EXTENDS Recommendations, PopularityProofs

\* Before the cursor is open nothing was read, before the end nothing is
\* answered.
Early ==
  /\ pc \in {"idle", "find"} => scored = <<>> /\ scanned = {}
  /\ pc # "answered" => answer = <<>>

GoodPair(p) == p.id \in scanned /\ ~IsOwn(p.id) /\ p.norm \in Norms(p.id)

Found    == \A i \in DOMAIN scored : GoodPair(scored[i])
Distinct == \A i, j \in DOMAIN scored : i # j => scored[i].id # scored[j].id
Complete == \A e \in scanned : ~IsOwn(e) /\ e \notin Unreadable => e \in Ids(scored)

IInv == /\ TypeOK /\ Early /\ Found /\ Distinct /\ Complete
        /\ BestNotLeftOut /\ AnswerIsRanking

-----------------------------------------------------------------------------
(* Sorting and cutting.                                                    *)

LEMMA PairAt ==
  ASSUME NEW s \in Seq(Pair), NEW i \in DOMAIN s
  PROVE  s[i].id \in Entities /\ s[i].norm \in Int
<1>1. s[i] \in Pair
  OBVIOUS
<1>2. QED  BY <1>1, ScaleType DEF Pair

LEMMA AppendAt ==
  ASSUME NEW s \in Seq(Pair), NEW p, NEW i \in DOMAIN Append(s, p)
  PROVE  \/ i \in DOMAIN s /\ Append(s, p)[i] = s[i]
         \/ Append(s, p)[i] = p
OBVIOUS

LEMMA SortedPermutes ==
  ASSUME NEW s \in Seq(Pair), NEW t \in Sorted(s)
  PROVE  /\ t \in Seq(Pair) /\ Len(t) = Len(s) /\ Descending(t)
         /\ \E p \in [1..Len(s) -> 1..Len(s)] :
              /\ \A i, j \in 1..Len(s) : p[i] = p[j] => i = j
              /\ \A j \in 1..Len(s) : \E i \in 1..Len(s) : p[i] = j
              /\ \A i \in 1..Len(s) : t[i] = s[p[i]]
<1>1. PICK p \in Orders(s) : t = Reorder(s, p) /\ Descending(t)
  BY DEF Sorted
<1>2. /\ p \in [1..Len(s) -> 1..Len(s)]
      /\ \A i, j \in 1..Len(s) : p[i] = p[j] => i = j
      /\ \A j \in 1..Len(s) : \E i \in 1..Len(s) : p[i] = j
  BY <1>1 DEF Orders, Bijection, Injection, Surjection, IsInjective
<1>3. t = [i \in 1..Len(s) |-> s[p[i]]]
  BY <1>1 DEF Reorder
<1>4. \A i \in 1..Len(s) : s[p[i]] \in Pair
  BY <1>2
<1>5. t \in Seq(Pair) /\ Len(t) = Len(s)
  BY <1>3, <1>4
<1>6. QED  BY <1>1, <1>2, <1>3, <1>5

LEMMA AtMostIsPrefix ==
  ASSUME NEW n \in Nat, NEW s \in Seq(Pair)
  PROVE  /\ AtMost(n, s) \in Seq(Pair)
         /\ Len(AtMost(n, s)) <= n /\ Len(AtMost(n, s)) <= Len(s)
         /\ Len(AtMost(n, s)) = n \/ Len(AtMost(n, s)) = Len(s)
         /\ \A i \in 1..Len(AtMost(n, s)) : AtMost(n, s)[i] = s[i]
<1> DEFINE m == IF Len(s) < n THEN Len(s) ELSE n
<1>1. m \in 0..Len(s) /\ m <= n /\ (m = n \/ m = Len(s))
  OBVIOUS
<1>2. AtMost(n, s) = SubSeq(s, 1, m)
  BY DEF AtMost
<1>3. /\ SubSeq(s, 1, m) \in Seq(Pair) /\ Len(SubSeq(s, 1, m)) = m
      /\ \A i \in 1..m : SubSeq(s, 1, m)[i] = s[i]
  <2> HIDE DEF m
  <2>1. QED  BY <1>1
<1>4. QED  BY <1>1, <1>2, <1>3

-----------------------------------------------------------------------------
(* What no step takes away.                                                *)

\* The request stays the same; after the query, documents only add scores
\* to those they had and only drop out of the place.
LEMMA Steady ==
  ASSUME TypeOK, [Next]_vars
  PROVE  /\ UNCHANGED <<type, asker, canonical>>
         /\ \A e : IsOwn(e)' <=> IsOwn(e)
         /\ pc # "find" =>
              there' \subseteq there /\ \A e \in Entities : held[e] \subseteq held'[e]
<1>1. UNCHANGED <<type, asker, canonical>>
  BY DEF Next, vars, askVars, request, StoreScore, ImportRow, FindNobody, FindAsker,
         Query, Answer, Fault, Deliver, SkipOwn, SkipUnreadable, ScoreEntity
<1>2. \A e : IsOwn(e)' <=> IsOwn(e)
  BY <1>1 DEF IsOwn
<1>3. ASSUME pc # "find"
      PROVE  there' \subseteq there /\ \A e \in Entities : held[e] \subseteq held'[e]
  BY <1>3 DEF TypeOK, Next, vars, StoreScore, ImportRow, FindNobody, FindAsker,
         Query, Answer, Fault, Deliver, SkipOwn, SkipUnreadable, ScoreEntity
<1>4. QED  BY <1>1, <1>2, <1>3

LEMMA NormsGrow ==
  ASSUME NEW e, held[e] \subseteq held'[e]
  PROVE  Norms(e) \subseteq Norms(e)'
BY DEF Norms

-----------------------------------------------------------------------------
(* One conjunct of IInv at a time.                                         *)

LEMMA TypeStep == TypeOK /\ [Next]_vars => TypeOK'
<1> SUFFICES ASSUME TypeOK, [Next]_vars PROVE TypeOK'
  OBVIOUS
<1> USE RecommendationsAssumption
<1>1. ASSUME NEW e \in Entities, StoreScore(e) PROVE TypeOK'
  BY <1>1 DEF TypeOK, StoreScore, askVars, request
<1>2. ASSUME NEW u \in Users, ImportRow(u) PROVE TypeOK'
  BY <1>2 DEF TypeOK, ImportRow, askVars, request
<1>3. CASE FindNobody
  BY <1>3 DEF TypeOK, FindNobody, dbVars, request
<1>4. CASE FindAsker
  BY <1>4 DEF TypeOK, FindAsker, Home, Entities, dbVars, request
<1>5. CASE Query
  BY <1>5 DEF TypeOK, Query, Collection, Entities, dbVars, request
<1>6. ASSUME NEW e \in Entities, SkipOwn(e) \/ SkipUnreadable(e) PROVE TypeOK'
  BY <1>6 DEF TypeOK, SkipOwn, SkipUnreadable, Deliver, dbVars, request
<1>7. ASSUME NEW e \in Entities, ScoreEntity(e) PROVE TypeOK'
  <2>1. normalizePopularity(popularity[e]) \in 0..One
    BY RankIsInRange DEF TypeOK
  <2>2. scored' \in Seq(Pair)
    BY <1>7, <2>1 DEF TypeOK, ScoreEntity, Pair
  <2>3. QED  BY <1>7, <2>2 DEF TypeOK, ScoreEntity, Deliver, dbVars, request
<1>8. CASE Answer
  <2>1. PICK t \in Sorted(scored) : answer' = AtMost(Limit, t)
    BY <1>8 DEF Answer, Cut
  <2>2. answer' \in Seq(Pair)
    BY <2>1, SortedPermutes, AtMostIsPrefix DEF TypeOK
  <2>3. QED  BY <1>8, <2>2 DEF TypeOK, Answer, dbVars, request
<1>9. CASE Fault
  BY <1>9 DEF TypeOK, Fault, dbVars, request
<1>10. CASE UNCHANGED vars
  BY <1>10 DEF TypeOK, vars, dbVars, request, askVars, request
<1>11. QED
  BY <1>1, <1>2, <1>3, <1>4, <1>5, <1>6, <1>7, <1>8, <1>9, <1>10 DEF Next

\* What may happen to the pairs: nothing, or one of a document not yet read.
LEMMA PairSteps ==
  ASSUME TypeOK, [Next]_vars
  PROVE  \/ UNCHANGED <<scanned, scored>>
         \/ \E e \in Entities :
              /\ pc = "scan" /\ pc' = "scan" /\ e \notin scanned
              /\ scanned' = scanned \cup {e}
              /\ held' = held
              /\ \/ IsOwn(e) /\ scored' = scored
                 \/ e \in Unreadable /\ scored' = scored
                 \/ /\ ~IsOwn(e)
                    /\ scored' = Append(scored,
                         [id |-> e, norm |-> normalizePopularity(popularity[e])])
BY DEF Next, vars, askVars, request, StoreScore, ImportRow, FindNobody, FindAsker,
       Query, Answer, Fault, Deliver, SkipOwn, SkipUnreadable, ScoreEntity

LEMMA EarlyStep == IInv /\ [Next]_vars => Early'
BY DEF IInv, Early, Next, vars, askVars, request, StoreScore, ImportRow, FindNobody,
       FindAsker, Query, Answer, Fault, Deliver, SkipOwn, SkipUnreadable, ScoreEntity

\* While documents are read and later, the score that is read is one of
\* those held since the query.
CurrentHeld == \A e \in Entities : popularity[e] \in held[e]

LEMMA CurrentHeldStep == TypeOK /\ CurrentHeld /\ [Next]_vars => CurrentHeld'
<1> SUFFICES ASSUME TypeOK, CurrentHeld, [Next]_vars PROVE CurrentHeld'
  OBVIOUS
<1>1. ASSUME NEW e \in Entities, StoreScore(e) PROVE CurrentHeld'
  BY <1>1 DEF TypeOK, CurrentHeld, StoreScore
<1>2. CASE Query
  BY <1>2 DEF CurrentHeld, Query, dbVars, request
<1>3. CASE UNCHANGED <<popularity, held>>
  BY <1>3 DEF CurrentHeld
<1>4. QED
  BY <1>1, <1>2, <1>3 DEF Next, vars, dbVars, request, ImportRow, FindNobody,
     FindAsker, Answer, Fault, Deliver, SkipOwn, SkipUnreadable, ScoreEntity

LEMMA FoundStep == IInv /\ CurrentHeld /\ [Next]_vars => Found'
<1> SUFFICES ASSUME IInv, CurrentHeld, [Next]_vars,
                    NEW i \in DOMAIN scored'
             PROVE  GoodPair(scored[i])'
  BY DEF Found
<1>1. /\ TypeOK /\ TypeOK' /\ Found /\ Early
      /\ \A e : IsOwn(e)' <=> IsOwn(e)
  BY TypeStep, Steady DEF IInv
<1>2. ASSUME UNCHANGED <<scanned, scored>> PROVE GoodPair(scored[i])'
  <2>1. i \in DOMAIN scored /\ scored'[i] = scored[i]
    BY <1>2
  <2>2. scored[i].id \in Entities
    BY <1>1, <2>1, PairAt DEF TypeOK
  <2>3. pc # "find"
    BY <1>1, <2>1 DEF Early
  <2>4. Norms(scored[i].id) \subseteq Norms(scored[i].id)'
    BY <1>1, <1>2, <2>2, <2>3, Steady DEF Norms
  <2>5. QED  BY <1>1, <1>2, <2>1, <2>4 DEF Found, GoodPair
<1>3. ASSUME NEW e \in Entities, scanned' = scanned \cup {e}, held' = held,
             i \in DOMAIN scored, scored'[i] = scored[i]
      PROVE  GoodPair(scored[i])'
  BY <1>1, <1>3 DEF Found, GoodPair, Norms
<1>4. ASSUME NEW e \in Entities, scanned' = scanned \cup {e}, held' = held,
             ~IsOwn(e), scored'[i] =
               [id |-> e, norm |-> normalizePopularity(popularity[e])]
      PROVE  GoodPair(scored[i])'
  BY <1>1, <1>4 DEF CurrentHeld, GoodPair, Norms
<1>5. CASE UNCHANGED <<scanned, scored>>
  BY <1>2, <1>5
<1>6. ASSUME NEW e \in Entities, scanned' = scanned \cup {e}, held' = held,
             scored' = scored
      PROVE  GoodPair(scored[i])'
  BY <1>3, <1>6
<1>7. ASSUME NEW e \in Entities, scanned' = scanned \cup {e}, held' = held,
             ~IsOwn(e), scored' = Append(scored,
               [id |-> e, norm |-> normalizePopularity(popularity[e])])
      PROVE  GoodPair(scored[i])'
  <2>1. scored \in Seq(Pair)
    BY <1>1 DEF TypeOK
  <2>2. \/ i \in DOMAIN scored /\ scored'[i] = scored[i]
        \/ scored'[i] = [id |-> e, norm |-> normalizePopularity(popularity[e])]
    BY <1>7, <2>1, AppendAt
  <2>3. QED  BY <1>3, <1>4, <1>7, <2>2
<1>8. QED
  BY <1>1, <1>5, <1>6, <1>7, PairSteps

LEMMA DistinctStep == IInv /\ [Next]_vars => Distinct'
<1> SUFFICES ASSUME IInv, [Next]_vars PROVE Distinct'
  OBVIOUS
<1>1. TypeOK /\ Found /\ Distinct
  BY DEF IInv
<1>2. ASSUME scored' = scored PROVE Distinct'
  BY <1>1, <1>2 DEF Distinct
<1>3. ASSUME NEW e \in Entities, e \notin scanned, NEW n,
             scored' = Append(scored, [id |-> e, norm |-> n])
      PROVE  Distinct'
  <2>1. \A i \in DOMAIN scored : scored[i].id # e
    BY <1>1, <1>3 DEF Found, GoodPair
  <2>2. /\ Len(scored) \in Nat /\ DOMAIN scored = 1..Len(scored)
        /\ DOMAIN scored' = 1..(Len(scored) + 1)
        /\ scored'[Len(scored) + 1].id = e
        /\ \A i \in 1..Len(scored) : scored'[i] = scored[i]
    BY <1>1, <1>3 DEF TypeOK
  <2>3. QED  BY <1>1, <2>1, <2>2 DEF Distinct
<1>4. QED
  BY <1>1, <1>2, <1>3, PairSteps

LEMMA CompleteStep == IInv /\ [Next]_vars => Complete'
<1> SUFFICES ASSUME IInv, [Next]_vars,
                    NEW d \in scanned', ~IsOwn(d)', d \notin Unreadable
             PROVE  \E i \in DOMAIN scored' : scored'[i].id = d
  BY DEF Complete, Ids
<1>1. TypeOK /\ Complete /\ ~IsOwn(d)
  BY Steady DEF IInv
<1>2. ASSUME d \in scanned
      PROVE  \E i \in DOMAIN scored : scored[i].id = d
  BY <1>1, <1>2 DEF Complete, Ids
<1>3. ASSUME NEW e \in Entities, scanned' = scanned \cup {e}, NEW n,
             scored' = Append(scored, [id |-> e, norm |-> n])
      PROVE  \E i \in DOMAIN scored' : scored'[i].id = d
  <2>1. /\ Len(scored) \in Nat /\ DOMAIN scored = 1..Len(scored)
        /\ DOMAIN scored' = 1..(Len(scored) + 1)
        /\ scored'[Len(scored) + 1].id = e
        /\ \A i \in 1..Len(scored) : scored'[i] = scored[i]
    BY <1>1, <1>3 DEF TypeOK
  <2>2. QED  BY <1>2, <1>3, <2>1
<1>4. QED
  BY <1>1, <1>2, <1>3, PairSteps

-----------------------------------------------------------------------------
(* The answer.                                                             *)

\* The answer is cut from a permutation of the pairs: each of its pairs is
\* one of them, different ones at different places.
LEMMA AnswerFrom ==
  ASSUME IInv, Answer
  PROVE  \E t \in Seq(Pair) :
           /\ Descending(t) /\ Len(answer') <= Len(t)
           /\ answer' \in Seq(Pair)
           /\ Len(answer') = Limit \/ Len(answer') = Len(t)
           /\ \A i \in 1..Len(answer') : answer'[i] = t[i]
           /\ \A i \in 1..Len(t) : GoodPair(t[i])
           /\ \A i, j \in 1..Len(t) : i # j => t[i].id # t[j].id
           /\ \A e \in Ids(scored) : \E k \in 1..Len(t) : t[k].id = e
<1>1. scored \in Seq(Pair) /\ Found /\ Distinct /\ Limit \in Nat
  BY RecommendationsAssumption DEF IInv, TypeOK
<1>2. PICK t \in Sorted(scored) : answer' = AtMost(Limit, t)
  BY DEF Answer, Cut
<1>3. t \in Seq(Pair) /\ Len(t) = Len(scored) /\ Descending(t)
  BY <1>1, <1>2, SortedPermutes
<1>4. PICK p \in [1..Len(scored) -> 1..Len(scored)] :
        /\ \A i, j \in 1..Len(scored) : p[i] = p[j] => i = j
        /\ \A j \in 1..Len(scored) : \E i \in 1..Len(scored) : p[i] = j
        /\ \A i \in 1..Len(scored) : t[i] = scored[p[i]]
  BY <1>1, <1>2, SortedPermutes
<1>5. DOMAIN scored = 1..Len(scored)
  BY <1>1
<1>6. \A i \in 1..Len(t) : GoodPair(t[i])
  <2>1. TAKE i \in 1..Len(t)
  <2>2. p[i] \in DOMAIN scored /\ t[i] = scored[p[i]]
    BY <1>3, <1>4, <1>5
  <2>3. QED  BY <1>1, <2>2 DEF Found
<1>7. \A i, j \in 1..Len(t) : i # j => t[i].id # t[j].id
  <2>1. TAKE i, j \in 1..Len(t)
  <2>2. HAVE i # j
  <2>3. /\ p[i] \in DOMAIN scored /\ t[i] = scored[p[i]]
        /\ p[j] \in DOMAIN scored /\ t[j] = scored[p[j]]
        /\ p[i] # p[j]
    BY <1>3, <1>4, <1>5, <2>2
  <2>4. QED  BY <1>1, <2>3 DEF Distinct
<1>8. \A e \in Ids(scored) : \E k \in 1..Len(t) : t[k].id = e
  <2>1. TAKE e \in Ids(scored)
  <2>2. PICK j \in 1..Len(scored) : scored[j].id = e
    BY <1>5 DEF Ids
  <2>3. PICK k \in 1..Len(scored) : p[k] = j
    BY <1>4
  <2>4. k \in 1..Len(t) /\ t[k].id = e
    BY <1>3, <1>4, <2>2, <2>3
  <2>5. QED  BY <2>4
<1>9. /\ answer' \in Seq(Pair) /\ Len(answer') <= Len(t)
      /\ Len(answer') = Limit \/ Len(answer') = Len(t)
      /\ \A i \in 1..Len(answer') : answer'[i] = t[i]
  BY <1>1, <1>2, <1>3, AtMostIsPrefix
<1>10. QED  BY <1>3, <1>6, <1>7, <1>8, <1>9

\* Any other step leaves the answer alone, empty or given.
LEMMA AnswerStays ==
  ASSUME IInv, [Next]_vars, ~Answer
  PROVE  /\ answer' = answer
         /\ pc' = "answered" => pc = "answered"
         /\ pc = "answered" => UNCHANGED <<pc, scanned, scored>>
         /\ answer # <<>> => pc = "answered"
<1>1. pc # "answered" => answer = <<>>
  BY DEF IInv, Early
<1>2. QED
  BY <1>1 DEF Next, vars, askVars, request, StoreScore, ImportRow, FindNobody,
     FindAsker, Query, Fault, Deliver, SkipOwn, SkipUnreadable, ScoreEntity

LEMMA RankingStep == IInv /\ [Next]_vars => AnswerIsRanking'
<1> SUFFICES ASSUME IInv, [Next]_vars PROVE AnswerIsRanking'
  OBVIOUS
<1>1. TypeOK /\ AnswerIsRanking /\ UNCHANGED <<type, asker, canonical>>
  BY Steady DEF IInv
<1>2. CASE Answer
  <2>1. held' = held
    BY <1>2 DEF Answer
  <2>2. PICK t \in Seq(Pair) :
          /\ Descending(t) /\ Len(answer') <= Len(t)
          /\ answer' \in Seq(Pair)
          /\ \A k \in 1..Len(answer') : answer'[k] = t[k]
          /\ \A k \in 1..Len(t) : GoodPair(t[k])
          /\ \A k, m \in 1..Len(t) : k # m => t[k].id # t[m].id
    BY <1>2, AnswerFrom
  <2>3. /\ \A i \in DOMAIN answer' : i \in 1..Len(t) /\ answer'[i] = t[i]
        /\ DOMAIN t = 1..Len(t) /\ DOMAIN answer' \subseteq Int
    BY <2>2
  <2>4. ASSUME NEW i \in DOMAIN answer'
        PROVE  ~IsOwn(answer[i].id)' /\ answer'[i].norm \in Norms(answer[i].id)'
    <3>1. GoodPair(t[i]) /\ answer'[i] = t[i]
      BY <2>2, <2>3
    <3>2. QED  BY <1>1, <2>1, <3>1 DEF GoodPair, Norms, IsOwn
  <2>5. ASSUME NEW i \in DOMAIN answer', NEW j \in DOMAIN answer', i < j
        PROVE  answer'[i].id # answer'[j].id /\ answer'[i].norm >= answer'[j].norm
    <3>1. /\ i \in 1..Len(t) /\ answer'[i] = t[i]
          /\ j \in 1..Len(t) /\ answer'[j] = t[j] /\ i # j
      BY <2>3, <2>5
    <3>2. t[i].id # t[j].id
      BY <2>2, <3>1
    <3>3. t[i].norm >= t[j].norm
      BY <2>2, <2>3, <2>5, <3>1 DEF Descending
    <3>4. QED  BY <3>1, <3>2, <3>3
  <2>6. QED  BY <2>4, <2>5 DEF AnswerIsRanking
<1>3. CASE ~Answer
  <2>1. answer' = answer /\ (answer # <<>> => pc = "answered")
    BY <1>3, AnswerStays
  <2>2. ASSUME NEW i \in DOMAIN answer
        PROVE  ~IsOwn(answer[i].id)' /\ answer[i].norm \in Norms(answer[i].id)'
    <3>1. answer[i].id \in Entities /\ pc = "answered"
      BY <1>1, <2>1, PairAt DEF TypeOK
    <3>2. Norms(answer[i].id) \subseteq Norms(answer[i].id)'
      BY <2>1, <3>1, <1>1, Steady DEF Norms
    <3>3. ~IsOwn(answer[i].id) /\ answer[i].norm \in Norms(answer[i].id)
      BY <1>1 DEF AnswerIsRanking
    <3>4. QED  BY <1>1, <2>1, <3>2, <3>3 DEF IsOwn
  <2>3. QED  BY <1>1, <2>1, <2>2 DEF AnswerIsRanking
<1>4. QED  BY <1>2, <1>3

LEMMA BestStep == IInv /\ [Next]_vars => BestNotLeftOut'
<1> SUFFICES ASSUME IInv, [Next]_vars, pc' = "answered",
                    NEW e \in there', ~IsOwn(e)', e \notin Unreadable,
                    \A i \in DOMAIN answer' : answer'[i].id # e
             PROVE  /\ Len(answer') = Limit
                    /\ \A i \in DOMAIN answer' :
                         \E m \in Norms(e)', n \in Norms(answer[i].id)' : m <= n
  BY DEF BestNotLeftOut, Candidates, Ids
<1>1. TypeOK /\ Complete /\ ~IsOwn(e)
  BY Steady DEF IInv
<1>2. CASE Answer
  <2>1. held' = held /\ there' \subseteq scanned
    BY <1>2 DEF Answer
  <2>2. e \in Ids(scored)
    BY <1>1, <2>1 DEF Complete
  <2>3. PICK t \in Seq(Pair) :
          /\ Descending(t) /\ Len(answer') <= Len(t)
          /\ answer' \in Seq(Pair)
          /\ Len(answer') = Limit \/ Len(answer') = Len(t)
          /\ \A i \in 1..Len(answer') : answer'[i] = t[i]
          /\ \A i \in 1..Len(t) : GoodPair(t[i])
          /\ \A d \in Ids(scored) : \E k \in 1..Len(t) : t[k].id = d
    BY <1>2, AnswerFrom
  <2>4. PICK k \in 1..Len(t) : t[k].id = e
    BY <2>2, <2>3
  <2>5. DOMAIN answer' = 1..Len(answer') /\ Len(answer') \in Nat
        /\ DOMAIN t = 1..Len(t) /\ Len(t) \in Nat
    BY <2>3
  <2>6. k > Len(answer')
    <3>1. SUFFICES ASSUME k \in 1..Len(answer') PROVE FALSE
      BY <2>5
    <3>2. answer'[k].id = e /\ k \in DOMAIN answer'
      BY <2>3, <2>4, <2>5, <3>1
    <3>3. QED  BY <3>2
  <2>7. Len(answer') = Limit
    BY <2>3, <2>4, <2>5, <2>6
  <2>8. ASSUME NEW i \in DOMAIN answer'
        PROVE  \E m \in Norms(e)', n \in Norms(answer[i].id)' : m <= n
    <3>1. i \in 1..Len(t) /\ i < k /\ answer'[i] = t[i]
      <4>1. i \in 1..Len(answer') /\ Len(answer') <= Len(t)
        BY <2>3, <2>5, <2>8
      <4>2. i \in 1..Len(t) /\ i < k
        BY <2>5, <2>6, <4>1
      <4>3. QED  BY <2>3, <4>1, <4>2
    <3>2. t[i].norm >= t[k].norm
      BY <2>3, <2>5, <3>1 DEF Descending
    <3>3. t[i].norm \in Int /\ t[k].norm \in Int
      BY <2>5, <3>1, PairAt
    <3>4. t[k].norm \in Norms(e) /\ t[i].norm \in Norms(t[i].id)
      BY <2>3, <2>4, <3>1 DEF GoodPair
    <3>5. Norms(e)' = Norms(e) /\ Norms(answer[i].id)' = Norms(t[i].id)
      BY <2>1, <3>1 DEF Norms
    <3>6. t[k].norm <= t[i].norm
      BY <3>2, <3>3
    <3>7. QED  BY <3>4, <3>5, <3>6
  <2>9. QED  BY <2>7, <2>8
<1>3. CASE ~Answer
  <2>1. answer' = answer /\ pc = "answered"
    BY <1>3, AnswerStays
  <2>2. e \in there /\ e \in Entities /\ held[e] \subseteq held'[e]
    BY <1>1, <2>1, Steady DEF TypeOK
  <2>3. e \in Candidates \ Ids(answer)
    BY <1>1, <2>1, <2>2 DEF Candidates, Ids
  <2>4. /\ Len(answer) = Limit
        /\ \A i \in DOMAIN answer :
             \E m \in Norms(e), n \in Norms(answer[i].id) : m <= n
    BY <2>1, <2>3 DEF IInv, BestNotLeftOut
  <2>5. ASSUME NEW i \in DOMAIN answer'
        PROVE  \E m \in Norms(e)', n \in Norms(answer[i].id)' : m <= n
    <3>1. answer[i].id \in Entities /\ i \in DOMAIN answer
      BY <1>1, <2>1, PairAt DEF TypeOK
    <3>2. /\ Norms(e) \subseteq Norms(e)'
          /\ Norms(answer[i].id) \subseteq Norms(answer[i].id)'
      BY <1>1, <2>1, <2>2, <3>1, Steady DEF Norms
    <3>3. QED  BY <2>4, <3>1, <3>2
  <2>6. QED  BY <2>1, <2>4, <2>5
<1>4. QED  BY <1>2, <1>3

-----------------------------------------------------------------------------
(* The theorems.                                                           *)

LEMMA IInit == Init => IInv /\ CurrentHeld
<1> SUFFICES ASSUME Init PROVE IInv /\ CurrentHeld
  OBVIOUS
<1>1. TypeOK
  <2>1. 0 \in Double /\ <<>> \in Seq(Pair)
    BY DEF Double
  <2>2. popularity \in [Entities -> Double] /\ held \in [Entities -> SUBSET Double]
    BY <2>1 DEF Init
  <2>3. scored \in Seq(Pair) /\ answer \in Seq(Pair)
    BY <2>1 DEF Init
  <2>4. /\ place \in [Entities -> Places \cup {NoPlace}]
        /\ toMove \subseteq Users /\ likes \in 0..MaxLikes
    BY RecommendationsAssumption DEF Init
  <2>5. /\ pc \in {"idle", "find", "scan", "answered", "error"}
        /\ type \in Types \cup {"other"} /\ asker \in Users \cup Unknown
        /\ canonical \in BOOLEAN /\ home \in Places \cup {NoPlace}
        /\ scanned \subseteq Entities /\ there \subseteq Entities
        /\ failed \in BOOLEAN
    BY DEF Init
  <2>6. QED  BY <2>2, <2>3, <2>4, <2>5 DEF TypeOK
<1>2. Early /\ Found /\ Distinct /\ Complete
  BY DEF Init, Early, Found, Distinct, Complete
<1>3. BestNotLeftOut /\ AnswerIsRanking
  BY DEF Init, BestNotLeftOut, AnswerIsRanking
<1>4. CurrentHeld
  BY DEF Init, CurrentHeld
<1>5. QED  BY <1>1, <1>2, <1>3, <1>4 DEF IInv

LEMMA IInvHolds == Spec => [](IInv /\ CurrentHeld)
<1>1. IInv /\ CurrentHeld /\ [Next]_vars => (IInv /\ CurrentHeld)'
  <2> SUFFICES ASSUME IInv, CurrentHeld, [Next]_vars
               PROVE  IInv' /\ CurrentHeld'
    OBVIOUS
  <2>1. TypeOK' /\ CurrentHeld'
    BY TypeStep, CurrentHeldStep DEF IInv
  <2>2. QED
    BY <2>1, EarlyStep, FoundStep, DistinctStep, CompleteStep, RankingStep,
       BestStep DEF IInv
<1>2. QED  BY <1>1, IInit, PTL DEF Spec

\* Every variable keeps its type; the score that is sorted by is a number
\* between 0.0 and 1.0, so the comparator orders the pairs.
THEOREM RecommendationsTyped == Spec => []TypeOK
BY IInvHolds, PTL DEF IInv

\* The answer, of one entity or more, is a ranking of others, by scores held
\* since the query.
THEOREM AnswersAreRankings == Spec => []AnswerIsRanking
BY IInvHolds, PTL DEF IInv

\* Nobody is left out for one that scored less all the time.
THEOREM BestAreListed == Spec => []BestNotLeftOut
BY IInvHolds, PTL DEF IInv

=============================================================================
