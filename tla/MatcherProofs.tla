---------------------------- MODULE MatcherProofs ----------------------------
(***************************************************************************)
(* Theorems about Matcher, for any users, rooms, workers and requests, any *)
(* number of requests and any number of faults: the types, how the steps   *)
(* change the state, the counters and scores, and who becomes a match: two *)
(* users who like each other do, and only pairs that have swiped on each   *)
(* other do, and so the handler implements SwipeLedger.                    *)
(***************************************************************************)
EXTENDS Matcher, TLAPS, SequenceTheorems, FiniteSetTheorems

-----------------------------------------------------------------------------
(* Type correctness.  It is not inductive alone: that an update stays      *)
(* within the documents of the database needs that a busy worker holds a   *)
(* request that processSwipe did not refuse, and that it writes a target   *)
(* only after having found it.                                             *)

BusyValid ==
  \A w \in Workers : pc[w] # "idle" => req[w] \in Requests /\ Valid(req[w])

WritesFound ==
  \A w \in Workers : pc[w] = "setTarget" => req[w].target \in TargetColl(req[w].type)

TypeInv == TypeOK /\ BusyValid /\ WritesFound

\* What a request that was not refused holds.
LEMMA ValidFields ==
  ASSUME NEW r \in Requests, Valid(r)
  PROVE  /\ r.type \in Types /\ r.source \in Ids /\ r.target \in Ids
         /\ r.isLike \in BOOLEAN
         /\ TargetColl(r.type) \subseteq Entities
BY MatcherAssumption DEF Valid, Request, TargetColl, Entities

LEMMA FreshIsStat == Fresh \in Stat
BY DEF Fresh, Stat, Double

\* A worker that moves on to another call of its request keeps BusyValid,
\* and WritesFound if the call is not the write or the target was found.
LEMMA GotoKeeps ==
  ASSUME TypeInv, NEW w \in Workers, NEW label \in Labels, pc[w] # "idle",
         Goto(w, label),
         label = "setTarget" => req[w].target \in TargetColl(req[w].type)
  PROVE  /\ pc' \in [Workers -> Labels]
         /\ req' = req /\ UNCHANGED <<sent, faults, seen, answered>>
         /\ BusyValid' /\ WritesFound'
BY DEF TypeInv, TypeOK, Goto, BusyValid, WritesFound

LEMMA FinishKeeps ==
  ASSUME TypeInv, NEW w \in Workers, Finish(w)
  PROVE  /\ pc' \in [Workers -> Labels]
         /\ req' \in [Workers -> Requests \cup {NoRequest}]
         /\ snap' \in [Workers -> Stat]
         /\ BusyValid' /\ WritesFound'
BY FreshIsStat DEF TypeInv, TypeOK, Finish, BusyValid, WritesFound, Labels

\* The score that a like stores is a double.
LEMMA NewValuesTyped ==
  ASSUME TypeInv, NEW w \in Workers, pc[w] = "setTarget"
  PROVE  NewReceived(w) \in Int /\ NewPopularity(w) \in Double
<1> DEFINE t == req[w].target
<1>1. t \in Entities
  BY ValidFields DEF TypeInv, BusyValid, WritesFound
<1>2. parseBudget(BudgetOf[t]) \in Double
  BY <1>1, MatcherAssumption DEF parseBudget, BudgetField, Double
<1>3. snap[w].received \in Int /\ snap[w].made \in Int /\ snap[w].matches \in Int
  BY DEF TypeInv, TypeOK, Stat
<1>4. NewReceived(w) \in Int
  BY <1>3, MatcherAssumption DEF NewReceived, NextReceived
<1>5. NewPopularity(w) \in Double
  BY <1>2, <1>3, <1>4, SpecialValues
  DEF NewPopularity, calculatePopularity, normalizeBudget, Affine, Double,
      Unit, HalfUnit, MinBudget
<1>6. QED  BY <1>4, <1>5

\* One $inc of a counter of an entity keeps its document typed.
LEMMA CounterTyped ==
  ASSUME TypeOK, NEW e \in Entities
  PROVE  /\ [stat EXCEPT ![e].made = @ + 1] \in [Entities -> Stat]
         /\ [stat EXCEPT ![e].matches = @ + 1] \in [Entities -> Stat]
<1>1. stat \in [Entities -> Stat] /\ stat[e] \in Stat
  BY DEF TypeOK
<1>2. /\ [stat[e] EXCEPT !.made = @ + 1] \in Stat
      /\ [stat[e] EXCEPT !.matches = @ + 1] \in Stat
  BY <1>1 DEF Stat
<1>3. QED  BY <1>1, <1>2

\* The swipe documents of one source replaced by others.
LEMMA DocsTyped ==
  ASSUME TypeOK, NEW ty \in Types, NEW s \in Ids, NEW docs \in Seq(SUBSET Ids)
  PROVE  [swipes EXCEPT ![ty][s] = docs] \in [Types -> [Ids -> Seq(SUBSET Ids)]]
<1>1. swipes[ty] \in [Ids -> Seq(SUBSET Ids)]
  BY DEF TypeOK
<1>2. [swipes[ty] EXCEPT ![s] = docs] \in [Ids -> Seq(SUBSET Ids)]
  BY <1>1
<1>3. QED  BY <1>2 DEF TypeOK

\* One more credit of an entity with a partner.
LEMMA CreditTyped ==
  ASSUME TypeOK, NEW e \in Entities, NEW p \in Ids
  PROVE  [credit EXCEPT ![e][p] = @ + 1] \in [Entities -> [Ids -> Nat]]
<1>1. credit[e] \in [Ids -> Nat] /\ credit[e][p] \in Nat
  BY DEF TypeOK
<1>2. [credit[e] EXCEPT ![p] = @ + 1] \in [Ids -> Nat]
  BY <1>1
<1>3. QED  BY <1>2 DEF TypeOK

LEMMA IncMatchesTyped ==
  ASSUME TypeOK, NEW e \in Entities, NEW p \in Ids, IncMatches(e, p)
  PROVE  stat' \in [Entities -> Stat] /\ credit' \in [Entities -> [Ids -> Nat]]
BY CounterTyped, CreditTyped DEF IncMatches

LEMMA TypeInit == Init => TypeInv
<1> SUFFICES ASSUME Init PROVE TypeInv
  OBVIOUS
<1>1. TypeOK
  BY FreshIsStat, MatcherAssumption DEF Init, TypeOK, Labels
<1>2. QED  BY <1>1 DEF Init, TypeInv, BusyValid, WritesFound

LEMMA TypeStep == TypeInv /\ [Next]_vars => TypeInv'
<1> SUFFICES ASSUME TypeInv, [Next]_vars PROVE TypeInv'
  OBVIOUS
<1> USE DEF TypeInv
<1>1. ASSUME NEW w \in Workers, Accept(w) PROVE TypeInv'
  BY <1>1, MatcherAssumption
  DEF TypeOK, BusyValid, WritesFound, Accept, Send, Labels
<1>2. ASSUME NEW w \in Workers, Refuse(w) PROVE TypeInv'
  BY <1>2, MatcherAssumption DEF TypeOK, BusyValid, WritesFound, Refuse, Send
<1>3. ASSUME NEW w \in Workers, UpsertMatched(w) PROVE TypeInv'
  <2>1. pc[w] = "upsert" /\ req[w] \in Requests /\ Valid(req[w])
    BY <1>3 DEF UpsertMatched, BusyValid
  <2>2. swipes' \in [Types -> [Ids -> Seq(SUBSET Ids)]]
    <3> DEFINE ty == req[w].type
               s  == req[w].source
    <3>1. ty \in Types /\ s \in Ids /\ req[w].target \in Ids
      BY <2>1, ValidFields
    <3>2. swipes[ty][s] \in Seq(SUBSET Ids)
      BY <3>1 DEF TypeOK
    <3>3. PICK i \in DOMAIN swipes[ty][s] :
            swipes' = [swipes EXCEPT ![ty][s][i] = @ \cup {req[w].target}]
      BY <1>3 DEF UpsertMatched, Docs
    <3>4. swipes[ty][s][i] \cup {req[w].target} \in SUBSET Ids
      BY <3>1, <3>2, <3>3
    <3> DEFINE docs == [swipes[ty][s] EXCEPT ![i] = @ \cup {req[w].target}]
    <3>5. docs \in Seq(SUBSET Ids)
      BY <3>2, <3>3, <3>4, ExceptSeq
    <3>6. swipes' = [swipes EXCEPT ![ty][s] = docs]
      BY <3>3
    <3> HIDE DEF docs
    <3>7. QED  BY <3>1, <3>5, <3>6, DocsTyped
  <2>3. Goto(w, "incMade") /\ UNCHANGED <<stat, snap, credit, writes>>
    BY <1>3 DEF UpsertMatched
  <2>4. "incMade" \in Labels
    BY DEF Labels
  <2>5. QED  BY <2>1, <2>2, <2>3, <2>4, GotoKeeps DEF TypeOK
<1>4. ASSUME NEW w \in Workers, UpsertMissed(w) PROVE TypeInv'
  <2>1. pc[w] = "upsert" /\ Goto(w, "insert") /\ "insert" \in Labels
          /\ UNCHANGED <<stat, swipes, snap, credit, writes>>
    BY <1>4 DEF UpsertMissed, Labels
  <2>2. QED  BY <2>1, GotoKeeps DEF TypeOK
<1>5. ASSUME NEW w \in Workers, UpsertInsert(w) PROVE TypeInv'
  <2>1. pc[w] = "insert" /\ req[w] \in Requests /\ Valid(req[w])
    BY <1>5 DEF UpsertInsert, BusyValid
  <2>2. swipes' \in [Types -> [Ids -> Seq(SUBSET Ids)]]
    <3> DEFINE ty   == req[w].type
               s    == req[w].source
               docs == Append(swipes[ty][s], {req[w].target})
    <3>1. ty \in Types /\ s \in Ids /\ req[w].target \in Ids
      BY <2>1, ValidFields
    <3>2. docs \in Seq(SUBSET Ids)
      BY <3>1 DEF TypeOK
    <3>3. swipes' = [swipes EXCEPT ![ty][s] = docs]
      BY <1>5 DEF UpsertInsert
    <3> HIDE DEF docs
    <3>4. QED  BY <3>1, <3>2, <3>3, DocsTyped
  <2>3. Goto(w, "incMade") /\ "incMade" \in Labels
          /\ UNCHANGED <<stat, snap, credit, writes>>
    BY <1>5 DEF UpsertInsert, Labels
  <2>4. QED  BY <2>1, <2>2, <2>3, GotoKeeps DEF TypeOK
<1>6. ASSUME NEW w \in Workers, IncSwipesMade(w) PROVE TypeInv'
  <2>1. stat' \in [Entities -> Stat]
    BY <1>6, CounterTyped DEF IncSwipesMade, Entities, TypeOK
  <2>2. PICK label \in {"readTarget", "reply"} : Goto(w, label)
    BY <1>6 DEF IncSwipesMade
  <2>3. pc[w] = "incMade" /\ label \in Labels /\ label # "setTarget"
          /\ UNCHANGED <<swipes, snap, credit, writes>>
    BY <1>6 DEF IncSwipesMade, Labels
  <2>4. QED  BY <2>1, <2>2, <2>3, GotoKeeps DEF TypeOK
<1>7. ASSUME NEW w \in Workers, TargetNotFound(w) PROVE TypeInv'
  <2>1. pc[w] = "readTarget" /\ Goto(w, "findMutual") /\ "findMutual" \in Labels
          /\ UNCHANGED <<stat, swipes, snap, credit, writes>>
    BY <1>7 DEF TargetNotFound, Labels
  <2>2. QED  BY <2>1, GotoKeeps DEF TypeOK
<1>8. ASSUME NEW w \in Workers, ReadTarget(w) PROVE TypeInv'
  <2>1. /\ pc[w] = "readTarget" /\ Goto(w, "setTarget") /\ "setTarget" \in Labels
        /\ req[w].target \in TargetColl(req[w].type)
        /\ UNCHANGED <<stat, swipes, credit, writes>>
    BY <1>8 DEF ReadTarget, Labels
  <2>2. req[w].target \in Entities
    BY <2>1, ValidFields DEF BusyValid
  <2>3. snap' \in [Workers -> Stat]
    BY <1>8, <2>2 DEF ReadTarget, TypeOK
  <2>4. QED  BY <2>1, <2>3, GotoKeeps DEF TypeOK
<1>9. ASSUME NEW w \in Workers, TargetOutgrown(w) PROVE TypeInv'
  <2>1. Finish(w) /\ UNCHANGED <<stat, swipes, sent, faults, seen, answered,
                                 credit, writes>>
    BY <1>9 DEF TargetOutgrown
  <2>2. QED  BY <2>1, FinishKeeps DEF TypeOK
<1>10. ASSUME NEW w \in Workers, SetTarget(w) PROVE TypeInv'
  <2> DEFINE t == req[w].target
  <2>1. /\ pc[w] = "setTarget" /\ Goto(w, "findMutual") /\ "findMutual" \in Labels
        /\ stat' = [stat EXCEPT ![t].received = NewReceived(w),
                                ![t].popularity = NewPopularity(w)]
        /\ writes' = [writes EXCEPT ![t] = @ + 1]
        /\ snap' = [snap EXCEPT ![w] = Fresh]
        /\ UNCHANGED <<swipes, credit>>
    BY <1>10 DEF SetTarget, WriteTarget, Labels
  <2>2. t \in Entities
    BY <2>1, ValidFields DEF BusyValid, WritesFound
  <2>3. NewReceived(w) \in Int /\ NewPopularity(w) \in Double
    BY <2>1, NewValuesTyped
  <2>4. stat' \in [Entities -> Stat]
    BY <2>1, <2>2, <2>3 DEF TypeOK, Stat
  <2>5. writes' \in [Entities -> Nat] /\ snap' \in [Workers -> Stat]
    BY <2>1, <2>2, FreshIsStat DEF TypeOK
  <2>6. QED  BY <2>1, <2>4, <2>5, GotoKeeps DEF TypeOK
<1>11. ASSUME NEW w \in Workers, FindMutual(w) PROVE TypeInv'
  <2>1. PICK label \in {"incSource", "reply"} : Goto(w, label)
    BY <1>11 DEF FindMutual
  <2>2. pc[w] = "findMutual" /\ label \in Labels /\ label # "setTarget"
          /\ UNCHANGED <<stat, swipes, snap, credit, writes>>
    BY <1>11 DEF FindMutual, Labels
  <2>3. QED  BY <2>1, <2>2, GotoKeeps DEF TypeOK
<1>12. ASSUME NEW w \in Workers, IncSourceMatches(w) PROVE TypeInv'
  <2>1. /\ pc[w] = "incSource" /\ Goto(w, "incTarget") /\ "incTarget" \in Labels
        /\ UNCHANGED <<swipes, snap, writes>>
    BY <1>12 DEF IncSourceMatches, Labels
  <2>2. req[w].target \in Ids
    BY <2>1, ValidFields DEF BusyValid
  <2>3. CASE req[w].source \in Users
    <3>1. IncMatches(req[w].source, req[w].target) /\ req[w].source \in Entities
      BY <1>12, <2>3 DEF IncSourceMatches, Entities
    <3>2. QED  BY <3>1, <2>1, <2>2, IncMatchesTyped, GotoKeeps DEF TypeOK
  <2>4. CASE req[w].source \notin Users
    <3>1. UNCHANGED <<stat, credit>>
      BY <1>12, <2>4 DEF IncSourceMatches
    <3>2. QED  BY <3>1, <2>1, GotoKeeps DEF TypeOK
  <2>5. QED  BY <2>3, <2>4
<1>13. ASSUME NEW w \in Workers, IncTargetMatches(w) PROVE TypeInv'
  <2>1. /\ pc[w] = "incTarget" /\ Goto(w, "reply") /\ "reply" \in Labels
        /\ UNCHANGED <<swipes, snap, writes>>
    BY <1>13 DEF IncTargetMatches, Labels
  <2>2. req[w].source \in Ids /\ TargetColl(req[w].type) \subseteq Entities
    BY <2>1, ValidFields DEF BusyValid
  <2>3. CASE req[w].target \in TargetColl(req[w].type)
    <3>1. IncMatches(req[w].target, req[w].source) /\ req[w].target \in Entities
      BY <1>13, <2>2, <2>3 DEF IncTargetMatches
    <3>2. QED  BY <3>1, <2>1, <2>2, IncMatchesTyped, GotoKeeps DEF TypeOK
  <2>4. CASE req[w].target \notin TargetColl(req[w].type)
    <3>1. UNCHANGED <<stat, credit>>
      BY <1>13, <2>4 DEF IncTargetMatches
    <3>2. QED  BY <3>1, <2>1, GotoKeeps DEF TypeOK
  <2>5. QED  BY <2>3, <2>4
<1>14. ASSUME NEW w \in Workers, Reply(w) PROVE TypeInv'
  <2>1. /\ pc[w] = "reply" /\ Finish(w) /\ answered' = answered \cup {req[w]}
        /\ UNCHANGED <<stat, swipes, sent, faults, seen, credit, writes>>
    BY <1>14 DEF Reply
  <2>2. answered' \subseteq Requests
    BY <2>1 DEF BusyValid, TypeOK
  <2>3. QED  BY <2>1, <2>2, FinishKeeps DEF TypeOK
<1>15. ASSUME NEW w \in Workers, Fault(w) PROVE TypeInv'
  <2>1. /\ Finish(w) /\ faults < MaxFaults /\ faults' = faults + 1
        /\ UNCHANGED <<stat, swipes, sent, seen, answered, credit, writes>>
    BY <1>15 DEF Fault
  <2>2. faults' \in 0..MaxFaults
    BY <2>1, MatcherAssumption DEF TypeOK
  <2>3. QED  BY <2>1, <2>2, FinishKeeps DEF TypeOK
<1>16. CASE UNCHANGED vars
  BY <1>16 DEF vars, TypeOK, BusyValid, WritesFound, Valid
<1>17. QED
  BY <1>1, <1>2, <1>3, <1>4, <1>5, <1>6, <1>7, <1>8, <1>9, <1>10, <1>11,
     <1>12, <1>13, <1>14, <1>15, <1>16 DEF Next, Step

LEMMA TypeInvHolds == Spec => []TypeInv
BY TypeInit, TypeStep, PTL DEF Spec

\* Every variable keeps its type: no step writes outside the documents of
\* the database, and the stored score is always a double.
THEOREM TypeCorrect == Spec => []TypeOK
BY TypeInvHolds, PTL DEF TypeInv

-----------------------------------------------------------------------------
(* How one worker's step changes the state.                                *)

\* The calls that follow the upsert of the swipe.
AfterUpsert == Labels \ {"idle", "upsert", "insert"}

Moves(w) == Accept(w) \/ Refuse(w) \/ Step(w) \/ Fault(w)

LEMMA NextMoves == [Next]_vars <=> (\E w \in Workers : Moves(w)) \/ UNCHANGED vars
BY DEF Next, Moves

\* A worker leaves the others where they are.
LEMMA OthersStay ==
  ASSUME TypeOK, NEW w \in Workers, Moves(w), NEW v \in Workers, v # w
  PROVE  pc'[v] = pc[v] /\ req'[v] = req[v]
BY DEF TypeOK, Moves, Step, Accept, Refuse, UpsertMatched, UpsertMissed,
       UpsertInsert, IncSwipesMade, TargetNotFound, ReadTarget,
       TargetOutgrown, SetTarget, WriteTarget, FindMutual, IncSourceMatches,
       IncTargetMatches, Reply, Fault, Goto, Finish

\* The ways to the calls that the invariants below speak of.
LEMMA Path ==
  ASSUME TypeOK, NEW w \in Workers, Moves(w)
  PROVE  /\ pc'[w] \in AfterUpsert =>
              /\ req'[w] = req[w]
              /\ pc[w] \in AfterUpsert \/ UpsertMatched(w) \/ UpsertInsert(w)
         /\ pc'[w] = "incSource" => FindMutual(w) /\ IsMutual(req[w])
         /\ pc'[w] = "incTarget" => IncSourceMatches(w)
         /\ pc'[w] = "reply" => \/ ~req[w].isLike
                                \/ FindMutual(w) /\ ~IsMutual(req[w])
                                \/ IncTargetMatches(w)
<1>1. CASE Accept(w) \/ Refuse(w)
  BY <1>1 DEF Accept, Refuse, AfterUpsert, TypeOK
<1>2. CASE UpsertMatched(w) \/ UpsertMissed(w) \/ UpsertInsert(w)
  BY <1>2 DEF UpsertMatched, UpsertMissed, UpsertInsert, Goto, AfterUpsert, TypeOK
<1>3. CASE IncSwipesMade(w)
  BY <1>3 DEF IncSwipesMade, Goto, AfterUpsert, TypeOK, Labels
<1>4. CASE TargetNotFound(w) \/ ReadTarget(w)
  BY <1>4 DEF TargetNotFound, ReadTarget, Goto, AfterUpsert, TypeOK, Labels
<1>5. CASE SetTarget(w)
  BY <1>5 DEF SetTarget, WriteTarget, Goto, AfterUpsert, TypeOK, Labels
<1>6. CASE FindMutual(w)
  BY <1>6 DEF FindMutual, Goto, AfterUpsert, TypeOK, Labels
<1>7. CASE IncSourceMatches(w) \/ IncTargetMatches(w)
  BY <1>7 DEF IncSourceMatches, IncTargetMatches, Goto, AfterUpsert, TypeOK, Labels
<1>8. CASE TargetOutgrown(w) \/ Reply(w) \/ Fault(w)
  BY <1>8 DEF TargetOutgrown, Reply, Fault, Finish, AfterUpsert, TypeOK
<1>9. QED  BY <1>1, <1>2, <1>3, <1>4, <1>5, <1>6, <1>7, <1>8 DEF Moves, Step

\* Only Reply answers, and what it answers has been processed.
LEMMA OnlyReplyAnswers ==
  ASSUME NEW w \in Workers, Moves(w)
  PROVE  answered' = answered
           \/ (pc[w] = "reply" /\ answered' = answered \cup {req[w]})
BY DEF Moves, Step, Accept, Refuse, UpsertMatched, UpsertMissed,
       UpsertInsert, IncSwipesMade, TargetNotFound, ReadTarget,
       TargetOutgrown, SetTarget, WriteTarget, FindMutual, IncSourceMatches,
       IncTargetMatches, Reply, Fault, Goto

\* Only the two $inc of updateEntityMatches credit.
LEMMA OnlyIncCredits ==
  ASSUME NEW w \in Workers, Moves(w)
  PROVE  credit' = credit \/ IncSourceMatches(w) \/ IncTargetMatches(w)
BY DEF Moves, Step, Accept, Refuse, UpsertMatched, UpsertMissed,
       UpsertInsert, IncSwipesMade, TargetNotFound, ReadTarget,
       TargetOutgrown, SetTarget, WriteTarget, FindMutual, Reply, Fault

-----------------------------------------------------------------------------
(* The swipe documents.                                                    *)

\* All that the members of a function hold.
Held(f) == UNION {f[i] : i \in DOMAIN f}

\* A function that agrees with f but for one place, where it holds e more.
LEMMA HeldWith ==
  ASSUME NEW f, NEW g, NEW n, NEW e,
         DOMAIN f \subseteq DOMAIN g, DOMAIN g \subseteq DOMAIN f \cup {n},
         n \in DOMAIN g,
         \A i \in DOMAIN f \ {n} : g[i] = f[i],
         g[n] = IF n \in DOMAIN f THEN f[n] \cup e ELSE e
  PROVE  Held(g) = Held(f) \cup e
<1>1. ASSUME NEW x \in Held(g) PROVE x \in Held(f) \cup e
  <2>1. PICK i \in DOMAIN g : x \in g[i]
    BY DEF Held
  <2>2. QED  BY <2>1 DEF Held
<1>2. ASSUME NEW x \in Held(f) PROVE x \in Held(g)
  <2>1. PICK i \in DOMAIN f : x \in f[i]
    BY DEF Held
  <2>2. i \in DOMAIN g /\ x \in g[i]
    BY <2>1
  <2>3. QED  BY <2>2 DEF Held
<1>3. ASSUME NEW x \in e PROVE x \in Held(g)
  <2>1. n \in DOMAIN g /\ x \in g[n]
    OBVIOUS
  <2>2. QED  BY <2>1 DEF Held
<1>4. QED  BY <1>1, <1>2, <1>3

LEMMA HeldAppend ==
  ASSUME NEW T, NEW seq \in Seq(T), NEW e \in T
  PROVE  Held(Append(seq, e)) = Held(seq) \cup e
<1> DEFINE app == Append(seq, e)
           n   == Len(seq) + 1
<1>1. app \in Seq(T) /\ Len(app) = n
  BY AppendProperties
<1>2. app[n] = e
  BY AppendProperties
<1>3. \A i \in 1..Len(seq) : app[i] = seq[i]
  BY AppendProperties
<1> HIDE DEF app
<1>4. /\ Len(seq) \in Nat
      /\ DOMAIN seq = 1..Len(seq)
      /\ DOMAIN app = 1..n
  BY <1>1, LenProperties
<1>5. /\ DOMAIN seq \subseteq DOMAIN app /\ DOMAIN app \subseteq DOMAIN seq \cup {n}
      /\ n \in DOMAIN app /\ n \notin DOMAIN seq
  BY <1>4
<1>6. \A i \in DOMAIN seq \ {n} : app[i] = seq[i]
  BY <1>3, <1>4
<1> HIDE DEF n
<1>7. Held(app) = Held(seq) \cup e
  BY <1>2, <1>5, <1>6, HeldWith
<1>8. QED  BY <1>7 DEF app

\* The two halves of the upsert add the target to what the source recorded,
\* and leave what others recorded.
LEMMA UpsertRecords ==
  ASSUME TypeInv, NEW w \in Workers, UpsertMatched(w) \/ UpsertInsert(w)
  PROVE  /\ req[w] \in Requests /\ Valid(req[w]) /\ req' = req
         /\ Recorded(req[w].type, req[w].source)'
              = Recorded(req[w].type, req[w].source) \cup {req[w].target}
         /\ \A ty \in Types, s \in Ids :
              <<ty, s>> # <<req[w].type, req[w].source>>
                => Recorded(ty, s)' = Recorded(ty, s)
<1> DEFINE r == req[w]
           old == swipes[r.type][r.source]
<1>0. r \in Requests /\ Valid(r)
  BY DEF TypeInv, BusyValid, UpsertMatched, UpsertInsert
<1>1. r.type \in Types /\ r.source \in Ids /\ r.target \in Ids
  BY <1>0, ValidFields
<1>2. old \in Seq(SUBSET Ids) /\ swipes[r.type] \in [Ids -> Seq(SUBSET Ids)]
  BY <1>1 DEF TypeInv, TypeOK
<1>3. ASSUME NEW docs, swipes' = [swipes EXCEPT ![r.type][r.source] = docs],
             Held(docs) = Held(old) \cup {r.target}, req' = req
      PROVE  /\ Recorded(r.type, r.source)'
                  = Recorded(r.type, r.source) \cup {r.target}
             /\ \A ty \in Types, s \in Ids :
                  <<ty, s>> # <<r.type, r.source>>
                    => Recorded(ty, s)' = Recorded(ty, s)
  <2>1. swipes'[r.type][r.source] = docs
    BY <1>1, <1>2, <1>3 DEF TypeInv, TypeOK
  <2>2. Recorded(r.type, r.source)' = Held(docs)
    BY <1>3, <2>1 DEF Recorded, Docs, Held
  <2>3. ASSUME NEW ty \in Types, NEW s \in Ids, <<ty, s>> # <<r.type, r.source>>
        PROVE  Recorded(ty, s)' = Recorded(ty, s)
    <3>1. swipes'[ty][s] = swipes[ty][s]
      BY <1>1, <1>2, <1>3, <2>3 DEF TypeInv, TypeOK
    <3>2. QED  BY <3>1 DEF Recorded, Docs
  <2>4. Recorded(r.type, r.source) = Held(old)
    BY DEF Recorded, Docs, Held
  <2>5. QED  BY <1>3, <2>2, <2>3, <2>4
<1>4. CASE UpsertMatched(w)
  <2>1. PICK i \in DOMAIN old :
          swipes' = [swipes EXCEPT ![r.type][r.source][i] = @ \cup {r.target}]
    BY <1>4 DEF UpsertMatched, Docs
  <2> DEFINE docs == [old EXCEPT ![i] = @ \cup {r.target}]
  <2>2. swipes' = [swipes EXCEPT ![r.type][r.source] = docs]
    BY <2>1
  <2>3. DOMAIN docs = DOMAIN old /\ docs[i] = old[i] \cup {r.target}
          /\ \A j \in DOMAIN old \ {i} : docs[j] = old[j]
    BY <1>2, <2>1
  <2>4. req' = req
    BY <1>4 DEF UpsertMatched, Goto
  <2> HIDE DEF docs
  <2>5. Held(docs) = Held(old) \cup {r.target}
    <3> DEFINE e == {r.target}
    <3>1. docs[i] = IF i \in DOMAIN old THEN old[i] \cup e ELSE e
      BY <2>1, <2>3
    <3>2. i \in DOMAIN docs
      BY <2>1, <2>3
    <3> HIDE DEF e, old
    <3>3. Held(docs) = Held(old) \cup e
      BY <2>3, <3>1, <3>2, HeldWith
    <3>4. QED  BY <3>3 DEF e
  <2>6. QED  BY <1>0, <1>3, <2>2, <2>4, <2>5
<1>5. CASE UpsertInsert(w)
  <2> DEFINE docs == Append(old, {r.target})
  <2>1. swipes' = [swipes EXCEPT ![r.type][r.source] = docs] /\ req' = req
    BY <1>5 DEF UpsertInsert, Goto
  <2>2. {r.target} \in SUBSET Ids
    BY <1>1
  <2>3. Held(docs) = Held(old) \cup {r.target}
    <3> DEFINE e == {r.target}
    <3> HIDE DEF e, old
    <3>1. old \in Seq(SUBSET Ids) /\ e \in SUBSET Ids
      BY <1>2, <2>2 DEF e
    <3>2. Held(Append(old, e)) = Held(old) \cup e
      BY <3>1, HeldAppend
    <3>3. QED  BY <3>2 DEF e
  <2> HIDE DEF docs
  <2>4. QED  BY <1>0, <1>3, <2>1, <2>3
<1>6. QED  BY <1>4, <1>5

\* No step forgets a swipe.
LEMMA RecordedGrows ==
  ASSUME TypeInv, [Next]_vars, NEW ty \in Types, NEW s \in Ids
  PROVE  Recorded(ty, s) \subseteq Recorded(ty, s)'
<1>1. ASSUME NEW w \in Workers, UpsertMatched(w) \/ UpsertInsert(w)
      PROVE  Recorded(ty, s) \subseteq Recorded(ty, s)'
  BY <1>1, UpsertRecords
<1>2. CASE swipes' = swipes
  BY <1>2 DEF Recorded, Docs
<1>3. (\E w \in Workers : UpsertMatched(w) \/ UpsertInsert(w)) \/ swipes' = swipes
  BY DEF Next, vars, Step, Accept, Refuse, UpsertMissed, IncSwipesMade,
         TargetNotFound, ReadTarget, TargetOutgrown, SetTarget, WriteTarget,
         FindMutual, IncSourceMatches, IncTargetMatches, Reply, Fault
<1>4. QED  BY <1>1, <1>2, <1>3


\* What a credit changes: it adds one to matches and to one credit.
LEMMA IncMatchesAdds ==
  ASSUME TypeOK, NEW e \in Entities, NEW p \in Ids, IncMatches(e, p)
  PROVE  /\ credit'[e][p] = credit[e][p] + 1
         /\ stat'[e].matches = stat[e].matches + 1
         /\ \A f \in Entities, q \in Ids : credit[f][q] <= credit'[f][q]
         /\ \A f \in Entities, q \in Ids :
              <<f, q>> # <<e, p>> => credit'[f][q] = credit[f][q]
         /\ \A f \in Entities : f # e => stat'[f] = stat[f]
<1>1. credit[e] \in [Ids -> Nat] /\ credit \in [Entities -> [Ids -> Nat]]
  BY DEF TypeOK
<1>2. \A f \in Entities, q \in Ids : credit[f][q] \in Nat
  BY <1>1
<1>3. credit' = [credit EXCEPT ![e][p] = @ + 1]
  BY DEF IncMatches
<1>4. \A f \in Entities, q \in Ids :
        credit'[f][q] = IF f = e /\ q = p THEN credit[f][q] + 1 ELSE credit[f][q]
  BY <1>1, <1>3
<1>5. stat' = [stat EXCEPT ![e].matches = @ + 1] /\ stat \in [Entities -> Stat]
  BY DEF IncMatches, TypeOK
<1>6. stat[e] \in Stat
  BY <1>5
<1>7. stat'[e].matches = stat[e].matches + 1
  BY <1>5, <1>6 DEF Stat
<1>8. \A f \in Entities : f # e => stat'[f] = stat[f]
  BY <1>5
<1>9. QED  BY <1>2, <1>4, <1>7, <1>8


-----------------------------------------------------------------------------
(* The counters of an entity and its score.  A worker writes values that   *)
(* it computed from what it read, so the invariant bounds what workers     *)
(* hold by what is stored.                                                 *)

SnapWithin ==
  \A w \in Workers : pc[w] = "setTarget" =>
    LET t == req[w].target IN
    /\ snap[w].made <= stat[t].made /\ snap[w].matches <= stat[t].matches
    /\ writes[t] <= IntMax => snap[w].received \in 0..writes[t]

ReceivedWithin ==
  \A e \in Entities : writes[e] <= IntMax =>
    /\ stat[e].received \in 0..writes[e]
    /\ writes[e] > 0 => stat[e].received > 0

ScoreInv == TypeInv /\ SnapWithin /\ ReceivedWithin /\ PopularityExplained

\* Worker w writes what it computed for e.
Writes(w, e) ==
  /\ pc[w] = "setTarget" /\ req[w].target = e
  /\ stat'[e].received = NewReceived(w)
  /\ stat'[e].popularity = NewPopularity(w)
  /\ stat'[e].made = stat[e].made
  /\ stat'[e].matches = stat[e].matches
  /\ writes'[e] = writes[e] + 1

\* Only the popularity update of an entity sets its received and its score;
\* the other counters never shrink.
LEMMA StatSteps ==
  ASSUME TypeInv, [Next]_vars, NEW e \in Entities
  PROVE  /\ stat[e].made <= stat'[e].made /\ stat[e].matches <= stat'[e].matches
         /\ \/ /\ stat'[e].received = stat[e].received
               /\ stat'[e].popularity = stat[e].popularity
               /\ writes'[e] = writes[e]
            \/ \E w \in Workers : Writes(w, e)
<1>1. /\ stat \in [Entities -> Stat] /\ stat[e] \in Stat
      /\ writes \in [Entities -> Nat]
  BY DEF TypeInv, TypeOK
<1>2. stat[e].made \in Nat /\ stat[e].matches \in Nat
  BY <1>1 DEF Stat
<1>3. CASE stat' = stat /\ writes' = writes
  BY <1>2, <1>3
<1>4. ASSUME NEW f, \/ stat' = [stat EXCEPT ![f].made = @ + 1]
                    \/ stat' = [stat EXCEPT ![f].matches = @ + 1],
             writes' = writes
      PROVE  /\ stat[e].made <= stat'[e].made /\ stat[e].matches <= stat'[e].matches
             /\ stat'[e].received = stat[e].received
             /\ stat'[e].popularity = stat[e].popularity
  BY <1>1, <1>2, <1>4 DEF Stat
<1>5. ASSUME NEW w \in Workers, SetTarget(w)
      PROVE  /\ pc[w] = "setTarget" /\ req[w].target \in Entities
             /\ stat' = [stat EXCEPT ![req[w].target].received = NewReceived(w),
                                     ![req[w].target].popularity = NewPopularity(w)]
             /\ writes' = [writes EXCEPT ![req[w].target] = @ + 1]
  BY <1>5, ValidFields
  DEF SetTarget, WriteTarget, TypeInv, BusyValid, WritesFound
<1>6. ASSUME NEW w \in Workers, SetTarget(w), req[w].target = e
      PROVE  /\ stat'[e].received = NewReceived(w)
             /\ stat'[e].popularity = NewPopularity(w)
             /\ stat'[e].made = stat[e].made
             /\ stat'[e].matches = stat[e].matches
             /\ writes'[e] = writes[e] + 1
  <2> DEFINE r == NewReceived(w)
             p == NewPopularity(w)
             d == [stat[e] EXCEPT !.received = r, !.popularity = p]
  <2>1. stat' = [stat EXCEPT ![e] = d] /\ writes' = [writes EXCEPT ![e] = @ + 1]
    BY <1>1, <1>5, <1>6
  <2> HIDE DEF r, p
  <2>2. /\ d.received = r /\ d.popularity = p
        /\ d.made = stat[e].made /\ d.matches = stat[e].matches
    BY <1>1 DEF Stat
  <2> HIDE DEF d
  <2>3. stat'[e] = d /\ writes'[e] = writes[e] + 1
    BY <1>1, <2>1
  <2>4. QED  BY <2>2, <2>3 DEF r, p
<1>7. ASSUME NEW w \in Workers, SetTarget(w), req[w].target # e
      PROVE  stat'[e] = stat[e] /\ writes'[e] = writes[e]
  <2> DEFINE t == req[w].target
             d == [stat[t] EXCEPT !.received = NewReceived(w),
                                  !.popularity = NewPopularity(w)]
  <2>1. stat' = [stat EXCEPT ![t] = d] /\ writes' = [writes EXCEPT ![t] = @ + 1]
    BY <1>1, <1>5, <1>7
  <2> HIDE DEF d
  <2>2. QED  BY <1>1, <1>7, <2>1
<1>8. ASSUME NEW w \in Workers, Moves(w)
      PROVE  \/ stat' = stat /\ writes' = writes
             \/ SetTarget(w)
             \/ /\ writes' = writes
                /\ \E f : \/ stat' = [stat EXCEPT ![f].made = @ + 1]
                          \/ stat' = [stat EXCEPT ![f].matches = @ + 1]
  <2>1. CASE Accept(w) \/ Refuse(w) \/ Fault(w) \/ Reply(w)
    BY <2>1 DEF Accept, Refuse, Fault, Reply
  <2>2. CASE UpsertMatched(w) \/ UpsertMissed(w) \/ UpsertInsert(w)
    BY <2>2 DEF UpsertMatched, UpsertMissed, UpsertInsert
  <2>3. CASE TargetNotFound(w) \/ ReadTarget(w) \/ TargetOutgrown(w) \/ FindMutual(w)
    BY <2>3 DEF TargetNotFound, ReadTarget, TargetOutgrown, FindMutual
  <2>4. CASE IncSwipesMade(w)
    BY <2>4 DEF IncSwipesMade
  <2>5. CASE IncSourceMatches(w) \/ IncTargetMatches(w)
    BY <2>5 DEF IncSourceMatches, IncTargetMatches, IncMatches
  <2>6. QED  BY <1>8, <2>1, <2>2, <2>3, <2>4, <2>5 DEF Moves, Step
<1>9. CASE UNCHANGED vars
  BY <1>3, <1>9 DEF vars
<1>10. ASSUME NEW w \in Workers, Moves(w)
       PROVE  /\ stat[e].made <= stat'[e].made /\ stat[e].matches <= stat'[e].matches
              /\ \/ /\ stat'[e].received = stat[e].received
                    /\ stat'[e].popularity = stat[e].popularity
                    /\ writes'[e] = writes[e]
                 \/ Writes(w, e)
  <2>1. CASE SetTarget(w) /\ req[w].target = e
    <3>1. Writes(w, e)
      BY <1>5, <1>6, <2>1 DEF Writes
    <3>2. QED  BY <1>2, <3>1 DEF Writes
  <2>2. CASE SetTarget(w) /\ req[w].target # e
    <3>1. stat'[e] = stat[e] /\ writes'[e] = writes[e]
      BY <1>7, <2>2
    <3>2. QED  BY <1>2, <3>1
  <2>3. CASE ~SetTarget(w)
    BY <1>3, <1>4, <1>8, <1>10, <2>3
  <2>4. QED  BY <2>1, <2>2, <2>3
<1>11. QED  BY <1>9, <1>10, <1>2, NextMoves DEF vars

LEMMA WorkerReads ==
  ASSUME TypeOK, NEW w \in Workers, Moves(w), pc'[w] = "setTarget"
  PROVE  ReadTarget(w) /\ req'[w] = req[w] /\ snap'[w] = stat[req[w].target]
           /\ stat' = stat /\ writes' = writes
<1>1. CASE ReadTarget(w)
  BY <1>1 DEF ReadTarget, Goto, TypeOK
<1>2. CASE Accept(w) \/ Refuse(w)
  BY <1>2 DEF Accept, Refuse, TypeOK
<1>3. CASE UpsertMatched(w) \/ UpsertMissed(w) \/ UpsertInsert(w) \/ IncSwipesMade(w)
  BY <1>3 DEF UpsertMatched, UpsertMissed, UpsertInsert, IncSwipesMade, Goto, TypeOK
<1>4. CASE TargetNotFound(w) \/ SetTarget(w) \/ FindMutual(w)
  BY <1>4 DEF TargetNotFound, SetTarget, WriteTarget, FindMutual, Goto, TypeOK
<1>5. CASE IncSourceMatches(w) \/ IncTargetMatches(w)
  BY <1>5 DEF IncSourceMatches, IncTargetMatches, Goto, TypeOK
<1>6. CASE TargetOutgrown(w) \/ Reply(w) \/ Fault(w)
  BY <1>6 DEF TargetOutgrown, Reply, Fault, Finish, TypeOK
<1>7. QED  BY <1>1, <1>2, <1>3, <1>4, <1>5, <1>6 DEF Moves, Step

LEMMA OtherSnapsStay ==
  ASSUME TypeOK, NEW w \in Workers, Moves(w), NEW v \in Workers, v # w
  PROVE  snap'[v] = snap[v]
BY DEF TypeOK, Moves, Step, Accept, Refuse, UpsertMatched, UpsertMissed,
       UpsertInsert, IncSwipesMade, TargetNotFound, ReadTarget,
       TargetOutgrown, SetTarget, WriteTarget, FindMutual, IncSourceMatches,
       IncTargetMatches, Reply, Fault, Goto, Finish

\* What a worker writes, while the counter cannot wrap.
LEMMA NewReceivedBounds ==
  ASSUME ScoreInv, NEW w \in Workers, pc[w] = "setTarget",
         writes[req[w].target] + 1 <= IntMax
  PROVE  NewReceived(w) \in 1..(writes[req[w].target] + 1)
<1> DEFINE t == req[w].target
<1>1. writes[t] \in Nat /\ IntMax \in Nat
  BY ValidFields, MatcherAssumption DEF ScoreInv, TypeInv, TypeOK, BusyValid, WritesFound
<1>2. snap[w].received \in 0..writes[t]
  BY <1>1 DEF ScoreInv, SnapWithin
<1>3. QED  BY <1>1, <1>2 DEF NewReceived, NextReceived

LEMMA ScoreStep == ScoreInv /\ [Next]_vars => ScoreInv'
<1> SUFFICES ASSUME ScoreInv, [Next]_vars PROVE ScoreInv'
  OBVIOUS
<1>1. TypeInv /\ TypeInv' /\ TypeOK /\ TypeOK'
  BY TypeStep DEF ScoreInv, TypeInv
<1>2. \A e \in Entities : /\ writes[e] \in Nat /\ writes'[e] \in Nat
                          /\ stat[e] \in Stat /\ stat'[e] \in Stat
  BY <1>1 DEF TypeOK
<1>3. IntMax \in Nat
  BY MatcherAssumption
<1>4. ReceivedWithin'
  <2> SUFFICES ASSUME NEW e \in Entities, writes'[e] <= IntMax
               PROVE  /\ stat'[e].received \in 0..writes'[e]
                      /\ writes'[e] > 0 => stat'[e].received > 0
    BY DEF ReceivedWithin
  <2>1. CASE stat'[e].received = stat[e].received /\ writes'[e] = writes[e]
    BY <2>1 DEF ScoreInv, ReceivedWithin
  <2>2. ASSUME NEW w \in Workers, Writes(w, e)
        PROVE  /\ stat'[e].received \in 0..writes'[e]
               /\ writes'[e] > 0 => stat'[e].received > 0
    <3>1. NewReceived(w) \in 1..(writes[e] + 1)
      BY <2>2, NewReceivedBounds DEF Writes
    <3>2. QED  BY <1>2, <2>2, <3>1 DEF Writes
  <2>3. QED  BY <1>1, <2>1, <2>2, StatSteps
<1>5. SnapWithin'
  <2> SUFFICES ASSUME NEW v \in Workers, pc'[v] = "setTarget"
               PROVE  LET t == req'[v].target IN
                      /\ snap'[v].made <= stat'[t].made
                      /\ snap'[v].matches <= stat'[t].matches
                      /\ writes'[t] <= IntMax => snap'[v].received \in 0..writes'[t]
    BY DEF SnapWithin
  <2> DEFINE t == req'[v].target
  <2>1. t \in Entities
    BY <1>1, ValidFields DEF TypeInv, BusyValid, WritesFound
  <2>2. ASSUME pc[v] = "setTarget", req'[v] = req[v], snap'[v] = snap[v]
        PROVE  /\ snap'[v].made <= stat'[t].made
               /\ snap'[v].matches <= stat'[t].matches
               /\ writes'[t] <= IntMax => snap'[v].received \in 0..writes'[t]
    <3>1. /\ stat[t].made <= stat'[t].made /\ stat[t].matches <= stat'[t].matches
          /\ writes'[t] = writes[t] \/ writes'[t] = writes[t] + 1
      BY <1>1, <2>1, StatSteps DEF Writes
    <3>2. /\ snap[v].made <= stat[t].made /\ snap[v].matches <= stat[t].matches
          /\ writes[t] <= IntMax => snap[v].received \in 0..writes[t]
      BY <2>2 DEF ScoreInv, SnapWithin
    <3>3. snap[v] \in Stat
      BY <1>1 DEF TypeOK
    <3> HIDE DEF t
    <3>4. /\ stat[t].made \in Nat /\ stat'[t].made \in Nat /\ snap[v].made \in Nat
          /\ stat[t].matches \in Nat /\ stat'[t].matches \in Nat /\ snap[v].matches \in Nat
      BY <1>2, <2>1, <3>3 DEF Stat
    <3>5. QED  BY <1>2, <1>3, <2>1, <2>2, <3>1, <3>2, <3>4
  <2>3. CASE UNCHANGED vars
    BY <2>2, <2>3 DEF vars
  <2>4. ASSUME NEW w \in Workers, Moves(w), w # v
        PROVE  pc[v] = "setTarget" /\ req'[v] = req[v] /\ snap'[v] = snap[v]
    BY <1>1, <2>4, OthersStay, OtherSnapsStay
  <2>5. ASSUME Moves(v)
        PROVE  /\ snap'[v].made <= stat'[t].made
               /\ snap'[v].matches <= stat'[t].matches
               /\ writes'[t] <= IntMax => snap'[v].received \in 0..writes'[t]
    <3>1. snap'[v] = stat'[t] /\ writes' = writes /\ stat' = stat
      BY <1>1, <2>5, WorkerReads
    <3>2. writes[t] <= IntMax => stat[t].received \in 0..writes[t]
      BY <2>1 DEF ScoreInv, ReceivedWithin
    <3>3. stat[t] \in Stat
      BY <1>2, <2>1
    <3> HIDE DEF t
    <3>4. QED  BY <3>1, <3>2, <3>3 DEF Stat
  <2>6. QED  BY <2>2, <2>3, <2>4, <2>5, NextMoves
<1>6. PopularityExplained'
  <2> SUFFICES ASSUME NEW e \in Entities, writes'[e] > 0
               PROVE  \E m \in 0..stat'[e].made, k \in 0..stat'[e].matches :
                        stat'[e].popularity =
                          calculatePopularity(stat'[e].received, m, k,
                                              parseBudget(BudgetOf[e]))
    BY DEF PopularityExplained
  <2>1. /\ stat[e].made \in Nat /\ stat'[e].made \in Nat
        /\ stat[e].matches \in Nat /\ stat'[e].matches \in Nat
    BY <1>2 DEF Stat
  <2>2. stat[e].made <= stat'[e].made /\ stat[e].matches <= stat'[e].matches
    BY <1>1, StatSteps
  <2>3. ASSUME stat'[e].received = stat[e].received,
               stat'[e].popularity = stat[e].popularity, writes'[e] = writes[e]
        PROVE  \E m \in 0..stat'[e].made, k \in 0..stat'[e].matches :
                 stat'[e].popularity =
                   calculatePopularity(stat'[e].received, m, k,
                                       parseBudget(BudgetOf[e]))
    <3>1. PICK m \in 0..stat[e].made, k \in 0..stat[e].matches :
            stat[e].popularity =
              calculatePopularity(stat[e].received, m, k, parseBudget(BudgetOf[e]))
      BY <2>3 DEF ScoreInv, PopularityExplained
    <3>2. m \in 0..stat'[e].made /\ k \in 0..stat'[e].matches
      BY <2>1, <2>2
    <3>3. QED  BY <2>3, <3>1, <3>2
  <2>4. ASSUME NEW w \in Workers, Writes(w, e)
        PROVE  \E m \in 0..stat'[e].made, k \in 0..stat'[e].matches :
                 stat'[e].popularity =
                   calculatePopularity(stat'[e].received, m, k,
                                       parseBudget(BudgetOf[e]))
    <3>1. /\ stat'[e].popularity =
               calculatePopularity(stat'[e].received, snap[w].made, snap[w].matches,
                                   parseBudget(BudgetOf[e]))
          /\ snap[w].made <= stat'[e].made /\ snap[w].matches <= stat'[e].matches
      BY <2>4 DEF Writes, NewPopularity, ScoreInv, SnapWithin
    <3>2. snap[w].made \in Nat /\ snap[w].matches \in Nat
      BY <1>1 DEF TypeOK, Stat
    <3>3. snap[w].made \in 0..stat'[e].made /\ snap[w].matches \in 0..stat'[e].matches
      BY <2>1, <3>1, <3>2
    <3>4. QED  BY <3>1, <3>3
  <2>5. QED  BY <1>1, <2>3, <2>4, StatSteps
<1>7. QED  BY <1>1, <1>4, <1>5, <1>6 DEF ScoreInv

LEMMA ScoreInit == Init => ScoreInv
<1> SUFFICES ASSUME Init PROVE ScoreInv
  OBVIOUS
<1>1. TypeInv
  BY TypeInit
<1>2. SnapWithin /\ ReceivedWithin /\ PopularityExplained
  BY DEF Init, SnapWithin, ReceivedWithin, PopularityExplained, Fresh
<1>3. QED  BY <1>1, <1>2 DEF ScoreInv

LEMMA ScoreInvHolds == Spec => []ScoreInv
BY ScoreInit, ScoreStep, PTL DEF Spec

\* However many updates overwrite each other: swipesReceived stays between
\* one and the number of updates, as long as it cannot wrap.
THEOREM ReceivedInBounds == Spec => []ReceivedBounds
<1>1. ScoreInv => ReceivedBounds
  <2> SUFFICES ASSUME ScoreInv, NEW e \in Entities, writes[e] \in 1..IntMax
               PROVE  stat[e].received \in 1..writes[e]
    BY DEF ReceivedBounds
  <2>1. stat[e].received \in 0..writes[e] /\ stat[e].received > 0
    BY MatcherAssumption DEF ScoreInv, ReceivedWithin
  <2>2. QED  BY <2>1
<1>2. QED  BY <1>1, ScoreInvHolds, PTL

\* The stored score is that of one consistent set of counters: the stored
\* swipesReceived, and a swipesMade and a matches not above the present ones.
THEOREM ScoresExplained == Spec => []PopularityExplained
BY ScoreInvHolds, PTL DEF ScoreInv


-----------------------------------------------------------------------------
(* Entities whose counters outgrew int32.                                  *)

LEMMA FrozenStep ==
  ASSUME TypeInv, [Next]_vars, NEW e \in Entities, Frozen(e)
  PROVE  /\ Frozen(e)'
         /\ stat'[e].received = stat[e].received
         /\ stat'[e].popularity = stat[e].popularity
         /\ \A w \in Workers :
              /\ pc[w] = "readTarget" /\ req[w].target = e
              /\ e \in TargetColl(req[w].type)
            => pc'[w] \in {"readTarget", "idle"}
<1>1. TypeOK /\ TypeOK'
  BY TypeStep DEF TypeInv
<1>2. /\ stat[e].made <= stat'[e].made /\ stat[e].matches <= stat'[e].matches
      /\ stat'[e].received = stat[e].received
      /\ stat'[e].popularity = stat[e].popularity
  BY StatSteps DEF Frozen, Writes
<1>3. ~Int32(stat'[e])
  <2>1. /\ stat[e].made \in Nat /\ stat'[e].made \in Nat
        /\ stat[e].matches \in Nat /\ stat'[e].matches \in Nat
    BY <1>1 DEF TypeOK, Stat
  <2>2. QED  BY <1>2, <2>1, MatcherAssumption DEF Frozen, Int32
<1>4. ASSUME NEW w \in Workers PROVE ~(pc'[w] = "setTarget" /\ req'[w].target = e)
  <2>1. CASE UNCHANGED vars
    BY <2>1 DEF Frozen, vars
  <2>2. ASSUME NEW v \in Workers, Moves(v), v # w
        PROVE  ~(pc'[w] = "setTarget" /\ req'[w].target = e)
    BY <1>1, <2>2, OthersStay DEF Frozen
  <2>3. ASSUME Moves(w), pc'[w] = "setTarget", req'[w].target = e PROVE FALSE
    <3>1. ReadTarget(w) /\ req'[w] = req[w]
      BY <1>1, <2>3, WorkerReads
    <3>2. Int32(stat[e])
      BY <2>3, <3>1 DEF ReadTarget
    <3>3. QED  BY <3>2 DEF Frozen
  <2>4. QED  BY <2>1, <2>2, <2>3, NextMoves
<1>5. ASSUME NEW w \in Workers, pc[w] = "readTarget", req[w].target = e,
             e \in TargetColl(req[w].type)
      PROVE  pc'[w] \in {"readTarget", "idle"}
  <2>1. CASE UNCHANGED vars
    BY <1>5, <2>1 DEF vars
  <2>2. ASSUME NEW v \in Workers, Moves(v), v # w
        PROVE  pc'[w] \in {"readTarget", "idle"}
    BY <1>1, <1>5, <2>2, OthersStay
  <2>3. ASSUME Moves(w) PROVE pc'[w] \in {"readTarget", "idle"}
    <3>1. TargetOutgrown(w) \/ Fault(w) \/ Refuse(w)
      BY <1>5, <2>3
      DEF Moves, Step, Accept, UpsertMatched, UpsertMissed, UpsertInsert,
          IncSwipesMade, TargetNotFound, ReadTarget, SetTarget, WriteTarget,
          FindMutual, IncSourceMatches, IncTargetMatches, Reply, Frozen
    <3>2. QED
      BY <1>1, <1>5, <3>1 DEF TargetOutgrown, Fault, Refuse, Finish, TypeOK
  <2>4. QED  BY <2>1, <2>2, <2>3, NextMoves
<1>6. Frozen(e)'
  BY <1>3, <1>4 DEF Frozen
<1>7. QED  BY <1>2, <1>5, <1>6

\* A counter that $inc promoted to int64 ends the life of its entity as a
\* target: nothing that was not read before is ever written to it again, and
\* no like of it looks for the opposite one.
THEOREM OutgrownFrozenForGood == Spec => OutgrownStaysFrozen
<1>1. TypeInv /\ [Next]_vars =>
        [\A e \in Entities : Frozen(e) =>
           /\ Frozen(e)'
           /\ stat'[e].received = stat[e].received
           /\ stat'[e].popularity = stat[e].popularity
           /\ \A w \in Workers :
                /\ pc[w] = "readTarget" /\ req[w].target = e
                /\ e \in TargetColl(req[w].type)
              => pc'[w] \in {"readTarget", "idle"}]_vars
  BY FrozenStep
<1>2. QED  BY <1>1, TypeInvHolds, PTL DEF Spec, OutgrownStaysFrozen

-----------------------------------------------------------------------------
(* Counting workers: a step moves one worker into such a set or out of it. *)

LEMMA OneMoves ==
  ASSUME NEW A, NEW B, NEW w, IsFiniteSet(A), \A v : v # w => (v \in A <=> v \in B)
  PROVE  /\ IsFiniteSet(B) /\ Cardinality(A) \in Nat /\ Cardinality(B) \in Nat
         /\ (w \in A <=> w \in B) => Cardinality(B) = Cardinality(A)
         /\ w \notin A /\ w \in B => Cardinality(B) = Cardinality(A) + 1
         /\ w \in A /\ w \notin B => Cardinality(B) = Cardinality(A) - 1
<1>1. CASE w \in A <=> w \in B
  <2>1. A = B
    BY <1>1
  <2>2. QED  BY <1>1, <2>1, FS_CardinalityType
<1>2. CASE w \notin A /\ w \in B
  <2>1. B = A \cup {w}
    BY <1>2
  <2>2. QED  BY <1>2, <2>1, FS_AddElement, FS_CardinalityType
<1>3. CASE w \in A /\ w \notin B
  <2>1. B = A \ {w}
    BY <1>3
  <2>2. QED  BY <1>3, <2>1, FS_RemoveElement, FS_CardinalityType
<1>4. QED  BY <1>1, <1>2, <1>3

\* The driver calls that the counts below speak of: what leads to them, and
\* away from them.
LEMMA Calls ==
  ASSUME TypeOK, NEW w \in Workers, Moves(w)
  PROVE  /\ pc'[w] = "insert" => UpsertMissed(w)
         /\ pc'[w] = "incMade" => UpsertMatched(w) \/ UpsertInsert(w)
         /\ pc[w] = "insert" => UpsertInsert(w) \/ Fault(w)
         /\ pc[w] = "incMade" => IncSwipesMade(w) \/ Fault(w)
         /\ pc[w] = "incTarget" => IncTargetMatches(w) \/ Fault(w)
         /\ pc'[w] # "idle" => (req'[w] = req[w] /\ pc[w] # "idle") \/ Accept(w)
         /\ seen \subseteq seen'
         /\ faults' = faults \/ Fault(w)
<1>1. CASE Accept(w) \/ Refuse(w)
  BY <1>1 DEF Accept, Refuse, Send, TypeOK
<1>2. CASE UpsertMatched(w) \/ UpsertMissed(w) \/ UpsertInsert(w)
  BY <1>2 DEF UpsertMatched, UpsertMissed, UpsertInsert, Goto, TypeOK
<1>3. CASE IncSwipesMade(w) \/ TargetNotFound(w) \/ ReadTarget(w)
  BY <1>3 DEF IncSwipesMade, TargetNotFound, ReadTarget, Goto, TypeOK
<1>4. CASE SetTarget(w) \/ FindMutual(w)
  BY <1>4 DEF SetTarget, WriteTarget, FindMutual, Goto, TypeOK
<1>5. CASE IncSourceMatches(w) \/ IncTargetMatches(w)
  BY <1>5 DEF IncSourceMatches, IncTargetMatches, Goto, TypeOK
<1>6. CASE TargetOutgrown(w) \/ Reply(w) \/ Fault(w)
  BY <1>6 DEF TargetOutgrown, Reply, Fault, Finish, TypeOK
<1>7. QED  BY <1>1, <1>2, <1>3, <1>4, <1>5, <1>6 DEF Moves, Step

\* Only the upsert writes swipe documents.
LEMMA OnlyUpsertsSwipe ==
  ASSUME NEW w \in Workers, Moves(w)
  PROVE  swipes' = swipes \/ UpsertMatched(w) \/ UpsertInsert(w)
BY DEF Moves, Step, Accept, Refuse, UpsertMissed, IncSwipesMade,
       TargetNotFound, ReadTarget, TargetOutgrown, SetTarget, WriteTarget,
       FindMutual, IncSourceMatches, IncTargetMatches, Reply, Fault

-----------------------------------------------------------------------------
(* The swipe documents of one source.                                      *)

Inserting(ty, s) ==
  {w \in Workers : pc[w] = "insert" /\ req[w].type = ty /\ req[w].source = s}

LEMMA InsertingFinite ==
  \A ty, s : /\ IsFiniteSet(Inserting(ty, s)) /\ Inserting(ty, s) \subseteq Workers
             /\ Cardinality(Inserting(ty, s)) \in Nat
BY FS_Subset, FS_CardinalityType, MatcherAssumption DEF Inserting

\* $addToSet keeps the number of documents; an insert adds one, of its key.
LEMMA UpsertLengths ==
  ASSUME TypeInv, NEW w \in Workers, NEW ty \in Types, NEW s \in Ids
  PROVE  /\ UpsertMatched(w) => Len(swipes'[ty][s]) = Len(swipes[ty][s])
         /\ UpsertInsert(w) =>
              Len(swipes'[ty][s]) =
                IF req[w].type = ty /\ req[w].source = s
                THEN Len(swipes[ty][s]) + 1 ELSE Len(swipes[ty][s])
<1> DEFINE r == req[w]
<1>1. ASSUME pc[w] # "idle"
      PROVE  r.type \in Types /\ r.source \in Ids /\ r.target \in Ids
  BY <1>1, ValidFields DEF TypeInv, BusyValid
<1>2. \A t \in Types : swipes[t] \in [Ids -> Seq(SUBSET Ids)]
  BY DEF TypeInv, TypeOK
<1>3. swipes \in [Types -> [Ids -> Seq(SUBSET Ids)]]
  BY DEF TypeInv, TypeOK
<1>4. ASSUME NEW docs, r.type \in Types, r.source \in Ids,
             swipes' = [swipes EXCEPT ![r.type][r.source] = docs]
      PROVE  swipes'[ty][s] = IF r.type = ty /\ r.source = s THEN docs
                                                            ELSE swipes[ty][s]
  <2> DEFINE row == [swipes[r.type] EXCEPT ![r.source] = docs]
  <2>1. swipes' = [swipes EXCEPT ![r.type] = row]
    BY <1>4
  <2>2. row[s] = IF r.source = s THEN docs ELSE swipes[r.type][s]
    BY <1>2, <1>4
  <2> HIDE DEF row
  <2>3. swipes'[ty] = IF r.type = ty THEN row ELSE swipes[ty]
    BY <1>3, <1>4, <2>1
  <2>4. QED  BY <2>2, <2>3
<1>5. ASSUME UpsertMatched(w)
      PROVE  Len(swipes'[ty][s]) = Len(swipes[ty][s])
  <2>1. r.type \in Types /\ r.source \in Ids
    BY <1>1, <1>5 DEF UpsertMatched
  <2> DEFINE old == swipes[r.type][r.source]
  <2>2. old \in Seq(SUBSET Ids)
    BY <1>2, <2>1
  <2>3. PICK i \in DOMAIN old :
          swipes' = [swipes EXCEPT ![r.type][r.source][i] = @ \cup {r.target}]
    BY <1>5 DEF UpsertMatched, Docs
  <2> DEFINE docs == [old EXCEPT ![i] = @ \cup {r.target}]
  <2>4. swipes' = [swipes EXCEPT ![r.type][r.source] = docs]
    BY <2>3
  <2>5. old[i] \cup {r.target} \in SUBSET Ids
    BY <1>1, <1>5, <2>2, <2>3 DEF UpsertMatched
  <2>6. docs \in Seq(SUBSET Ids) /\ Len(docs) = Len(old)
    BY <2>2, <2>3, <2>5, ExceptSeq
  <2> HIDE DEF docs, old
  <2>7. swipes'[ty][s] = IF r.type = ty /\ r.source = s THEN docs
                                                        ELSE swipes[ty][s]
    BY <1>4, <2>1, <2>4
  <2>8. QED  BY <2>6, <2>7 DEF old
<1>6. ASSUME UpsertInsert(w)
      PROVE  Len(swipes'[ty][s]) =
                IF r.type = ty /\ r.source = s
                THEN Len(swipes[ty][s]) + 1 ELSE Len(swipes[ty][s])
  <2>1. r.type \in Types /\ r.source \in Ids /\ r.target \in Ids
    BY <1>1, <1>6 DEF UpsertInsert
  <2> DEFINE old  == swipes[r.type][r.source]
             new  == {r.target}
             docs == Append(old, new)
  <2>2. old \in Seq(SUBSET Ids) /\ new \in SUBSET Ids
    BY <1>2, <2>1
  <2>3. swipes' = [swipes EXCEPT ![r.type][r.source] = docs]
    BY <1>6 DEF UpsertInsert
  <2> HIDE DEF old, new
  <2>4. Len(docs) = Len(old) + 1
    BY <2>2, AppendProperties
  <2> HIDE DEF docs
  <2>5. swipes'[ty][s] = IF r.type = ty /\ r.source = s THEN docs
                                                        ELSE swipes[ty][s]
    BY <1>4, <2>1, <2>3
  <2>6. QED  BY <2>4, <2>5 DEF old
<1>7. QED  BY <1>5, <1>6

DocsInv == TypeInv /\ DuplicateDocsBounded

LEMMA DocsStep == DocsInv /\ [Next]_vars => DocsInv'
<1> SUFFICES ASSUME DocsInv, [Next]_vars PROVE DocsInv'
  OBVIOUS
<1>1. TypeInv /\ TypeInv' /\ TypeOK
  BY TypeStep DEF DocsInv, TypeInv
<1> SUFFICES ASSUME NEW ty \in Types, NEW s \in Ids
             PROVE  Len(swipes'[ty][s]) + Cardinality(Inserting(ty, s)')
                      <= Cardinality(Workers)
  BY <1>1 DEF DocsInv, DuplicateDocsBounded, Inserting
<1> DEFINE A == Inserting(ty, s)
           B == Inserting(ty, s)'
<1>2. Len(swipes[ty][s]) + Cardinality(A) <= Cardinality(Workers)
  BY DEF DocsInv, DuplicateDocsBounded, Inserting
<1>3. IsFiniteSet(A) /\ Cardinality(A) \in Nat
  BY InsertingFinite
<1>4. B \subseteq Workers /\ IsFiniteSet(B) /\ Cardinality(B) \in Nat
        /\ Cardinality(B) <= Cardinality(Workers) /\ Cardinality(Workers) \in Nat
  BY FS_Subset, FS_CardinalityType, MatcherAssumption DEF Inserting
<1>5. Len(swipes[ty][s]) \in Nat /\ Len(swipes'[ty][s]) \in Nat
  BY <1>1 DEF TypeInv, TypeOK
<1>6. CASE UNCHANGED vars
  <2>1. B = A /\ swipes' = swipes
    BY <1>6 DEF vars, Inserting
  <2>2. QED  BY <1>2, <2>1
<1>7. ASSUME NEW w \in Workers, Moves(w)
      PROVE  Len(swipes'[ty][s]) + Cardinality(B) <= Cardinality(Workers)
  <2>1. \A v : v # w => (v \in A <=> v \in B)
    BY <1>1, <1>7, OthersStay DEF Inserting
  <2>2. /\ w \in A <=> pc[w] = "insert" /\ req[w].type = ty /\ req[w].source = s
        /\ w \in B <=> pc'[w] = "insert" /\ req'[w].type = ty /\ req'[w].source = s
    BY DEF Inserting
  <2> HIDE DEF A, B
  <2>3. /\ (w \in A <=> w \in B) => Cardinality(B) = Cardinality(A)
        /\ w \notin A /\ w \in B => Cardinality(B) = Cardinality(A) + 1
        /\ w \in A /\ w \notin B => Cardinality(B) = Cardinality(A) - 1
    BY <1>3, <2>1, OneMoves
  <2>4. CASE UpsertMissed(w)
    <3>1. /\ swipes' = swipes /\ req'[w] = req[w] /\ pc[w] = "upsert"
          /\ swipes[req[w].type][req[w].source] = <<>>
      BY <2>4 DEF UpsertMissed, Goto, Docs
    <3>2. CASE w \in B
      <4>1. Len(swipes'[ty][s]) = 0
        BY <2>2, <3>1, <3>2
      <4>2. QED  BY <1>4, <4>1
    <3>3. CASE w \notin B
      BY <1>2, <1>3, <1>4, <1>5, <2>2, <2>3, <3>1, <3>3
    <3>4. QED  BY <3>2, <3>3
  <2>5. CASE UpsertInsert(w)
    <3>1. pc[w] = "insert" /\ pc'[w] = "incMade"
      BY <1>1, <2>5 DEF UpsertInsert, Goto, TypeOK
    <3>2. Len(swipes'[ty][s]) = IF req[w].type = ty /\ req[w].source = s
                                THEN Len(swipes[ty][s]) + 1 ELSE Len(swipes[ty][s])
      BY <1>1, <2>5, UpsertLengths
    <3>3. QED  BY <1>2, <1>3, <1>4, <1>5, <2>2, <2>3, <3>1, <3>2
  <2>6. CASE ~UpsertMissed(w) /\ ~UpsertInsert(w)
    <3>1. pc'[w] # "insert"
      BY <1>1, <1>7, <2>6, Calls
    <3>2. Len(swipes'[ty][s]) = Len(swipes[ty][s])
      BY <1>1, <1>7, <2>6, OnlyUpsertsSwipe, UpsertLengths
    <3>3. QED  BY <1>2, <1>3, <1>4, <1>5, <2>2, <2>3, <3>1, <3>2
  <2>7. QED  BY <2>4, <2>5, <2>6
<1>8. QED  BY <1>6, <1>7, NextMoves

LEMMA DocsInit == Init => DocsInv
<1> SUFFICES ASSUME Init PROVE DocsInv
  OBVIOUS
<1>1. TypeInv
  BY TypeInit
<1> SUFFICES ASSUME NEW ty \in Types, NEW s \in Ids
             PROVE  Len(swipes[ty][s]) + Cardinality(Inserting(ty, s))
                      <= Cardinality(Workers)
  BY <1>1 DEF DocsInv, DuplicateDocsBounded, Inserting
<1>2. Inserting(ty, s) = {} /\ swipes[ty][s] = <<>>
  BY DEF Init, Inserting
<1>3. Cardinality(Workers) \in Nat
  BY FS_CardinalityType, MatcherAssumption
<1>4. QED  BY <1>2, <1>3, FS_EmptySet

\* However many workers race through the upsert of one source, and however
\* many die in it, it gets no more swipe documents than there are workers.
THEOREM DuplicateDocsAlwaysBounded == Spec => []DuplicateDocsBounded
BY DocsInit, DocsStep, PTL DEF Spec, DocsInv


-----------------------------------------------------------------------------
(* Recorded swipes are counted.                                            *)

\* What u has recorded, and the workers that have yet to count for u.
RecordedOf(u) == {k \in Types \X Ids : k[2] \in Recorded(k[1], u)}
Counting(u)   == {w \in Workers : pc[w] = "incMade" /\ req[w].source = u}

SwipesCounted ==
  \A u \in Users :
    /\ IsFiniteSet(RecordedOf(u))
    /\ Cardinality(RecordedOf(u)) <= stat[u].made + faults + Cardinality(Counting(u))

CountInv == TypeInv /\ SwipesCounted

LEMMA CountingFinite ==
  \A u : IsFiniteSet(Counting(u)) /\ Cardinality(Counting(u)) \in Nat
<1> TAKE u
<1>1. Counting(u) \subseteq Workers
  BY DEF Counting
<1>2. QED  BY <1>1, FS_Subset, FS_CardinalityType, MatcherAssumption

\* An upsert adds at most one swipe, of the source of its request.
LEMMA UpsertAddsOne ==
  ASSUME TypeInv, NEW w \in Workers, UpsertMatched(w) \/ UpsertInsert(w),
         NEW u \in Users, IsFiniteSet(RecordedOf(u))
  PROVE  /\ IsFiniteSet(RecordedOf(u)')
         /\ Cardinality(RecordedOf(u)') <=
              IF req[w].source = u THEN Cardinality(RecordedOf(u)) + 1
                                   ELSE Cardinality(RecordedOf(u))
<1> DEFINE r   == req[w]
           key == <<r.type, r.target>>
<1>1. r \in Requests /\ Valid(r) /\ u \in Ids
  BY UpsertRecords DEF Ids, Entities
<1>2. r.type \in Types /\ r.source \in Ids /\ r.target \in Ids
  BY <1>1, ValidFields
<1>3. \A ty \in Types : Recorded(ty, u)' =
         IF ty = r.type /\ u = r.source THEN Recorded(ty, u) \cup {r.target}
                                        ELSE Recorded(ty, u)
  BY <1>1, UpsertRecords
<1>4. Cardinality(RecordedOf(u)) \in Nat
  BY FS_CardinalityType
<1>5. CASE r.source # u
  <2>1. RecordedOf(u)' = RecordedOf(u)
    BY <1>3, <1>5 DEF RecordedOf
  <2>2. QED  BY <1>4, <1>5, <2>1
<1>6. CASE r.source = u
  <2>1. ASSUME NEW k \in Types \X Ids
        PROVE  k \in RecordedOf(u)' <=> k \in RecordedOf(u) \cup {key}
    <3>1. PICK ty \in Types, t \in Ids : k = <<ty, t>>
      OBVIOUS
    <3>2. k \in RecordedOf(u)' <=> t \in Recorded(ty, u)'
      BY <3>1 DEF RecordedOf
    <3>3. k \in RecordedOf(u) <=> t \in Recorded(ty, u)
      BY <3>1 DEF RecordedOf
    <3>4. k = key <=> ty = r.type /\ t = r.target
      BY <3>1
    <3> HIDE DEF key
    <3>5. QED  BY <1>3, <1>6, <3>2, <3>3, <3>4
  <2>2. key \in Types \X Ids
    BY <1>2
  <2>3. RecordedOf(u) \subseteq Types \X Ids /\ RecordedOf(u)' \subseteq Types \X Ids
    BY DEF RecordedOf
  <2> HIDE DEF key
  <2>4. RecordedOf(u)' = RecordedOf(u) \cup {key}
    BY <2>1, <2>2, <2>3
  <2>5. QED  BY <1>4, <1>6, <2>4, FS_AddElement
<1>7. QED  BY <1>5, <1>6

LEMMA CountStep == CountInv /\ [Next]_vars => CountInv'
<1> SUFFICES ASSUME CountInv, [Next]_vars PROVE CountInv'
  OBVIOUS
<1>1. TypeInv /\ TypeInv' /\ TypeOK /\ TypeOK'
  BY TypeStep DEF CountInv, TypeInv
<1> SUFFICES ASSUME NEW u \in Users
             PROVE  /\ IsFiniteSet(RecordedOf(u)')
                    /\ Cardinality(RecordedOf(u)')
                         <= stat'[u].made + faults' + Cardinality(Counting(u)')
  BY <1>1 DEF CountInv, SwipesCounted
<1> DEFINE A == Counting(u)
           B == Counting(u)'
           R == RecordedOf(u)
           S == RecordedOf(u)'
<1>2. IsFiniteSet(R) /\ Cardinality(R) <= stat[u].made + faults + Cardinality(A)
  BY DEF CountInv, SwipesCounted
<1>3. IsFiniteSet(A) /\ Cardinality(A) \in Nat /\ Cardinality(R) \in Nat
  BY <1>2, CountingFinite, FS_CardinalityType
<1>4. u \in Entities /\ u \in Ids
  BY DEF Entities, Ids
<1>5. /\ stat[u].made \in Nat /\ stat'[u].made \in Nat
      /\ faults \in Nat /\ faults' \in Nat
  BY <1>1, <1>4, MatcherAssumption DEF TypeOK, Stat
<1>6. stat[u].made <= stat'[u].made
  BY <1>1, <1>4, StatSteps
<1>7. CASE UNCHANGED vars
  <2>1. B = A /\ S = R /\ faults' = faults
    BY <1>7 DEF vars, Counting, RecordedOf, Recorded, Docs
  <2>2. QED  BY <1>2, <1>3, <1>5, <1>6, <2>1
<1>8. ASSUME NEW w \in Workers, Moves(w)
      PROVE  IsFiniteSet(S) /\ Cardinality(S) <= stat'[u].made + faults' + Cardinality(B)
  <2>1. \A v : v # w => (v \in A <=> v \in B)
    BY <1>1, <1>8, OthersStay DEF Counting
  <2>2. /\ w \in A <=> pc[w] = "incMade" /\ req[w].source = u
        /\ w \in B <=> pc'[w] = "incMade" /\ req'[w].source = u
    BY DEF Counting
  <2>3. swipes' = swipes => S = R
    BY DEF RecordedOf, Recorded, Docs
  <2>4. (UpsertMatched(w) \/ UpsertInsert(w)) =>
          /\ IsFiniteSet(S)
          /\ Cardinality(S) <= IF req[w].source = u THEN Cardinality(R) + 1
                                                    ELSE Cardinality(R)
    BY <1>1, <1>2, UpsertAddsOne
  <2> HIDE DEF A, B, R, S
  <2>5. /\ Cardinality(B) \in Nat
        /\ (w \in A <=> w \in B) => Cardinality(B) = Cardinality(A)
        /\ w \notin A /\ w \in B => Cardinality(B) = Cardinality(A) + 1
        /\ w \in A /\ w \notin B => Cardinality(B) = Cardinality(A) - 1
    BY <1>3, <2>1, OneMoves
  <2>6. CASE UpsertMatched(w) \/ UpsertInsert(w)
    <3>1. pc[w] # "incMade" /\ pc'[w] = "incMade" /\ req'[w] = req[w] /\ faults' = faults
      BY <1>1, <2>6 DEF UpsertMatched, UpsertInsert, Goto, TypeOK
    <3>2. IsFiniteSet(S) /\ Cardinality(S) \in Nat
      BY <2>4, <2>6, FS_CardinalityType
    <3>3. CASE req[w].source = u
      BY <1>2, <1>3, <1>5, <1>6, <2>2, <2>4, <2>5, <2>6, <3>1, <3>2, <3>3
    <3>4. CASE req[w].source # u
      BY <1>2, <1>3, <1>5, <1>6, <2>2, <2>4, <2>5, <2>6, <3>1, <3>2, <3>4
    <3>5. QED  BY <3>3, <3>4
  <2>7. CASE IncSwipesMade(w)
    <3>1. /\ swipes' = swipes /\ faults' = faults
          /\ pc[w] = "incMade" /\ pc'[w] # "incMade"
      BY <1>1, <2>7 DEF IncSwipesMade, Goto, TypeOK
    <3>2. req[w].source = u => stat'[u].made = stat[u].made + 1
      BY <1>1, <1>4, <2>7 DEF IncSwipesMade, TypeOK, Stat
    <3>3. CASE req[w].source = u
      BY <1>2, <1>3, <1>5, <2>2, <2>3, <2>5, <3>1, <3>2, <3>3
    <3>4. CASE req[w].source # u
      BY <1>2, <1>3, <1>5, <1>6, <2>2, <2>3, <2>5, <3>1, <3>4
    <3>5. QED  BY <3>3, <3>4
  <2>8. CASE Fault(w)
    <3>1. swipes' = swipes /\ faults' = faults + 1 /\ pc'[w] = "idle"
      BY <1>1, <2>8 DEF Fault, Finish, TypeOK
    <3>2. Cardinality(A) <= Cardinality(B) + 1
      BY <1>3, <2>2, <2>5, <3>1
    <3>3. QED  BY <1>2, <1>3, <1>5, <1>6, <2>3, <2>5, <3>1, <3>2
  <2>9. CASE ~(UpsertMatched(w) \/ UpsertInsert(w) \/ IncSwipesMade(w) \/ Fault(w))
    <3>1. swipes' = swipes /\ faults' = faults
      BY <1>1, <1>8, <2>9, OnlyUpsertsSwipe, Calls
    <3>2. pc[w] # "incMade" /\ pc'[w] # "incMade"
      BY <1>1, <1>8, <2>9, Calls
    <3>3. QED  BY <1>2, <1>3, <1>5, <1>6, <2>2, <2>3, <2>5, <3>1, <3>2
  <2>10. QED  BY <2>6, <2>7, <2>8, <2>9
<1>9. QED  BY <1>7, <1>8, NextMoves

LEMMA CountInit == Init => CountInv
<1> SUFFICES ASSUME Init PROVE CountInv
  OBVIOUS
<1>1. TypeInv
  BY TypeInit
<1> SUFFICES ASSUME NEW u \in Users
             PROVE  /\ IsFiniteSet(RecordedOf(u))
                    /\ Cardinality(RecordedOf(u))
                         <= stat[u].made + faults + Cardinality(Counting(u))
  BY <1>1 DEF CountInv, SwipesCounted
<1>2. u \in Ids /\ u \in Entities
  BY DEF Ids, Entities
<1>3. \A ty \in Types : Recorded(ty, u) = {}
  BY <1>2 DEF Init, Recorded, Docs
<1>4. RecordedOf(u) = {}
  BY <1>3 DEF RecordedOf
<1>5. stat[u].made = 0 /\ faults = 0
  BY <1>2 DEF Init, Fresh
<1>6. QED  BY <1>4, <1>5, FS_EmptySet, CountingFinite

\* Whatever dies in between: swipesMade falls short of the swipes recorded
\* only by workers that have yet to count and by requests that died.
THEOREM RecordedAlwaysCounted == Spec => []RecordedSwipesCounted
<1>1. CountInv => RecordedSwipesCounted
  BY DEF CountInv, SwipesCounted, RecordedSwipesCounted, RecordedOf, Counting
<1>2. QED  BY <1>1, CountInit, CountStep, PTL DEF Spec

-----------------------------------------------------------------------------
(* The two credits of a match.                                             *)

BusySeen == \A w \in Workers : pc[w] # "idle" => req[w] \in seen

\* What a has been credited for b by workers that are through with both.
Settled(a, b) == credit[a][b] - Cardinality(HalfWay(a, b))

CreditInv == TypeInv /\ BusySeen /\ CreditsBalance

\* Worker w is to credit b for a, of the pair a, b.
IsHalfWay(w, a, b) ==
  /\ pc[w] = "incTarget" /\ req[w].type = "roommate"
  /\ req[w].source = a /\ req[w].target = b

LEMMA HalfWayFinite ==
  \A a, b : IsFiniteSet(HalfWay(a, b)) /\ Cardinality(HalfWay(a, b)) \in Nat
<1> TAKE a, b
<1>1. HalfWay(a, b) \subseteq Workers
  BY DEF HalfWay
<1>2. QED  BY <1>1, FS_Subset, FS_CardinalityType, MatcherAssumption

LEMMA BusySeenStep == TypeInv /\ BusySeen /\ [Next]_vars => BusySeen'
<1> SUFFICES ASSUME TypeInv, BusySeen, [Next]_vars,
                    NEW v \in Workers, pc'[v] # "idle"
             PROVE  req'[v] \in seen'
  BY DEF BusySeen
<1>1. CASE UNCHANGED vars
  BY <1>1 DEF vars, BusySeen
<1>2. ASSUME NEW w \in Workers, Moves(w) PROVE req'[v] \in seen'
  <2>1. seen \subseteq seen'
    BY <1>2, Calls DEF TypeInv
  <2>2. CASE v # w
    BY <1>2, <2>1, <2>2, OthersStay DEF TypeInv, BusySeen
  <2>3. CASE v = w /\ Accept(w)
    BY <2>3 DEF Accept, Send, TypeInv, TypeOK
  <2>4. CASE v = w /\ ~Accept(w)
    BY <1>2, <2>1, <2>4, Calls DEF TypeInv, BusySeen
  <2>5. QED  BY <2>2, <2>3, <2>4
<1>3. QED  BY <1>1, <1>2, NextMoves

\* What one step does to the settled credits of a for b: the second credit
\* of a match, whoever sent the like, adds one; so does a request that dies
\* half way.
LEMMA SettledStep ==
  ASSUME TypeInv, BusySeen, NEW w \in Workers, Moves(w),
         NEW a \in Users, NEW b \in Users, a # b, ~RoomSwipeOfUsers(a, b)
  PROVE  /\ Settled(a, b) \in Int /\ Settled(a, b)' \in Int
         /\ Settled(a, b)' = Settled(a, b)
              + (IF \/ IncTargetMatches(w) /\ (IsHalfWay(w, a, b) \/ IsHalfWay(w, b, a))
                    \/ ~IncTargetMatches(w) /\ Fault(w) /\ IsHalfWay(w, a, b)
                 THEN 1 ELSE 0)
<1> DEFINE A == HalfWay(a, b)
           B == HalfWay(a, b)'
           r == req[w]
<1>1. TypeOK /\ TypeOK' /\ a \in Entities /\ b \in Entities /\ a \in Ids /\ b \in Ids
  BY NextMoves, TypeStep DEF TypeInv, Entities, Ids
<1>2. credit[a][b] \in Nat /\ credit'[a][b] \in Nat
  BY <1>1 DEF TypeOK
<1>3. IsFiniteSet(A) /\ Cardinality(A) \in Nat
  BY HalfWayFinite
<1>4. \A v : v # w => (v \in A <=> v \in B)
  BY <1>1, OthersStay DEF HalfWay
<1>5. /\ w \in A <=> IsHalfWay(w, a, b)
      /\ w \in B <=> /\ pc'[w] = "incTarget" /\ req'[w].type = "roommate"
                     /\ req'[w].source = a /\ req'[w].target = b
  BY DEF HalfWay, IsHalfWay
<1>6. Settled(a, b) = credit[a][b] - Cardinality(A)
        /\ Settled(a, b)' = credit'[a][b] - Cardinality(B)
  BY DEF Settled
<1> HIDE DEF A, B
<1>7. /\ Cardinality(B) \in Nat
      /\ (w \in A <=> w \in B) => Cardinality(B) = Cardinality(A)
      /\ w \notin A /\ w \in B => Cardinality(B) = Cardinality(A) + 1
      /\ w \in A /\ w \notin B => Cardinality(B) = Cardinality(A) - 1
  BY <1>3, <1>4, OneMoves
<1>8. ASSUME pc[w] # "idle"
      PROVE  /\ r.type \in Types /\ r.source \in Ids /\ r.target \in Ids
             /\ r.type = "room" => {r.source, r.target} # {a, b}
  BY <1>8, ValidFields DEF TypeInv, BusyValid, BusySeen, RoomSwipeOfUsers
<1>9. CASE IncSourceMatches(w)
  <2>1. pc[w] = "incSource" /\ pc'[w] = "incTarget" /\ req'[w] = req[w]
    BY <1>1, <1>9 DEF IncSourceMatches, Goto, TypeOK
  <2>2. w \notin A /\ ~IncTargetMatches(w) /\ ~IsHalfWay(w, a, b)
    BY <1>5, <2>1 DEF IncTargetMatches, IsHalfWay
  <2>3. CASE r.source = a /\ r.target = b
    <3>1. r.type = "roommate"
      BY <1>8, <2>1, <2>3 DEF Types
    <3>2. IncMatches(a, b)
      BY <1>9, <2>3 DEF IncSourceMatches
    <3>3. credit'[a][b] = credit[a][b] + 1
      BY <1>1, <3>2, IncMatchesAdds
    <3>4. w \in B
      BY <1>5, <2>1, <2>3, <3>1
    <3>5. QED  BY <1>2, <1>3, <1>6, <1>7, <2>2, <3>3, <3>4
  <2>4. CASE ~(r.source = a /\ r.target = b)
    <3>1. w \notin B
      BY <1>5, <2>1, <2>4
    <3>2. credit'[a][b] = credit[a][b]
      <4>1. CASE r.source \in Users
        <5>1. IncMatches(r.source, r.target) /\ r.source \in Entities
          BY <1>9, <4>1 DEF IncSourceMatches, Entities
        <5>2. <<a, b>> # <<r.source, r.target>>
          BY <2>4
        <5>3. QED  BY <1>1, <1>8, <2>1, <5>1, <5>2, IncMatchesAdds
      <4>2. CASE r.source \notin Users
        BY <1>9, <4>2 DEF IncSourceMatches
      <4>3. QED  BY <4>1, <4>2
    <3>3. QED  BY <1>2, <1>3, <1>6, <1>7, <2>2, <3>1, <3>2
  <2>5. QED  BY <2>3, <2>4
<1>10. CASE IncTargetMatches(w)
  <2>1. pc[w] = "incTarget" /\ pc'[w] = "reply"
    BY <1>1, <1>10 DEF IncTargetMatches, Goto, TypeOK
  <2>2. w \notin B
    BY <1>5, <2>1
  <2>3. CASE IsHalfWay(w, a, b)
    <3>1. credit'[a][b] = credit[a][b]
      <4>1. r.target = b /\ r.source = a /\ TargetColl(r.type) = Users
        BY <2>3 DEF IsHalfWay, TargetColl
      <4>2. IncMatches(b, a)
        BY <1>10, <4>1 DEF IncTargetMatches
      <4>3. QED  BY <1>1, <4>2, IncMatchesAdds
    <3>2. QED  BY <1>2, <1>3, <1>5, <1>6, <1>7, <1>10, <2>2, <2>3, <3>1
  <2>4. CASE IsHalfWay(w, b, a)
    <3>1. credit'[a][b] = credit[a][b] + 1
      <4>1. r.target = a /\ r.source = b /\ TargetColl(r.type) = Users
        BY <2>4 DEF IsHalfWay, TargetColl
      <4>2. IncMatches(a, b)
        BY <1>10, <4>1 DEF IncTargetMatches
      <4>3. QED  BY <1>1, <4>2, IncMatchesAdds
    <3>2. w \notin A
      BY <1>5, <2>4 DEF IsHalfWay
    <3>3. QED  BY <1>2, <1>3, <1>6, <1>7, <1>10, <2>2, <2>4, <3>1, <3>2
  <2>5. CASE ~IsHalfWay(w, a, b) /\ ~IsHalfWay(w, b, a)
    <3>1. credit'[a][b] = credit[a][b]
      <4>1. CASE r.target \in TargetColl(r.type)
        <5>1. IncMatches(r.target, r.source) /\ r.target \in Entities
          BY <1>10, <4>1 DEF IncTargetMatches, TargetColl, Entities
        <5>2. <<a, b>> # <<r.target, r.source>>
          <6>1. ~(r.target = a /\ r.source = b)
            BY <1>8, <2>1, <2>5 DEF IsHalfWay, Types
          <6>2. QED  BY <6>1
        <5>3. QED  BY <1>1, <1>8, <2>1, <5>1, <5>2, IncMatchesAdds
      <4>2. CASE r.target \notin TargetColl(r.type)
        BY <1>10, <4>2 DEF IncTargetMatches
      <4>3. QED  BY <4>1, <4>2
    <3>2. QED  BY <1>2, <1>3, <1>5, <1>6, <1>7, <2>2, <2>5, <3>1
  <2>6. QED  BY <2>3, <2>4, <2>5
<1>11. CASE ~IncSourceMatches(w) /\ ~IncTargetMatches(w)
  <2>1. credit' = credit
    BY <1>11, OnlyIncCredits
  <2>2. pc'[w] # "incTarget"
    BY <1>1, <1>11, Path
  <2>3. w \notin B
    BY <1>5, <2>2
  <2>4. w \in A => Fault(w)
    BY <1>1, <1>5, <1>11, Calls DEF IsHalfWay
  <2>5. QED  BY <1>2, <1>3, <1>5, <1>6, <1>7, <1>11, <2>1, <2>3, <2>4
<1>12. QED  BY <1>9, <1>10, <1>11

LEMMA CreditStep == CreditInv /\ [Next]_vars => CreditInv'
<1> SUFFICES ASSUME CreditInv, [Next]_vars PROVE CreditInv'
  OBVIOUS
<1>1. TypeInv /\ TypeInv' /\ BusySeen /\ BusySeen' /\ TypeOK /\ TypeOK'
  BY TypeStep, BusySeenStep DEF CreditInv, TypeInv
<1> SUFFICES ASSUME NEW a \in Users, NEW b \in Users, ~RoomSwipeOfUsers(a, b)'
             PROVE  Settled(a, b)' - Settled(b, a)' \in (-faults')..faults'
  BY <1>1 DEF CreditInv, CreditsBalance, Settled
<1>2. faults \in Nat /\ faults' \in Nat
  BY <1>1, MatcherAssumption DEF TypeOK
<1>3. a \in Entities /\ b \in Entities /\ a \in Ids /\ b \in Ids
  BY DEF Entities, Ids
<1>4. CASE a = b
  <2>1. Settled(a, b)' \in Int
    <3>1. HalfWay(a, b)' \subseteq Workers
      BY DEF HalfWay
    <3>2. Cardinality(HalfWay(a, b)') \in Nat
      BY <3>1, FS_Subset, FS_CardinalityType, MatcherAssumption
    <3>3. credit'[a][b] \in Nat
      BY <1>1, <1>3 DEF TypeOK
    <3>4. QED  BY <3>2, <3>3 DEF Settled
  <2>2. QED  BY <1>2, <1>4, <2>1
<1>5. CASE UNCHANGED vars
  <2>1. /\ Settled(a, b)' = Settled(a, b) /\ Settled(b, a)' = Settled(b, a)
        /\ faults' = faults /\ ~RoomSwipeOfUsers(a, b)
    BY <1>5 DEF vars, Settled, HalfWay, RoomSwipeOfUsers
  <2>2. QED  BY <2>1 DEF CreditInv, CreditsBalance, Settled
<1>6. ASSUME NEW w \in Workers, Moves(w), a # b
      PROVE  Settled(a, b)' - Settled(b, a)' \in (-faults')..faults'
  <2>1. ~RoomSwipeOfUsers(a, b) /\ ~RoomSwipeOfUsers(b, a)
    BY <1>1, <1>6, Calls DEF RoomSwipeOfUsers
  <2>2. Settled(a, b) - Settled(b, a) \in (-faults)..faults
    BY <2>1 DEF CreditInv, CreditsBalance, Settled
  <2> DEFINE s == Settled(a, b)
             t == Settled(b, a)
             x == Settled(a, b)'
             y == Settled(b, a)'
  <2>3. s \in Int /\ t \in Int /\ x \in Int /\ y \in Int
    BY <1>1, <1>6, <2>1, SettledStep
  <2>4. CASE IncTargetMatches(w)
    <3>1. faults' = faults
      BY <2>4 DEF IncTargetMatches, Goto
    <3>2. \/ x = s + 1 /\ y = t + 1
          \/ x = s /\ y = t
      BY <1>1, <1>6, <2>1, <2>3, <2>4, SettledStep
    <3> HIDE DEF s, t, x, y
    <3>3. x - y = s - t
      BY <2>3, <3>2
    <3>4. QED  BY <2>2, <3>1, <3>3 DEF s, t, x, y
  <2>5. CASE ~IncTargetMatches(w) /\ Fault(w)
    <3>1. faults' = faults + 1
      BY <2>5 DEF Fault
    <3>2. (x = s \/ x = s + 1) /\ (y = t \/ y = t + 1)
      BY <1>1, <1>6, <2>1, <2>3, <2>5, SettledStep
    <3>3. s - t \in (-faults)..faults
      BY <2>2
    <3> HIDE DEF s, t, x, y
    <3>4. x - y \in (-faults')..faults'
      BY <1>2, <2>3, <3>1, <3>2, <3>3
    <3>5. QED  BY <3>4 DEF x, y
  <2>6. CASE ~IncTargetMatches(w) /\ ~Fault(w)
    <3>1. faults' = faults
      BY <1>1, <1>6, <2>6, Calls
    <3>2. x = s /\ y = t
      BY <1>1, <1>6, <2>1, <2>3, <2>6, SettledStep
    <3>3. QED  BY <2>2, <3>1, <3>2
  <2>7. QED  BY <2>4, <2>5, <2>6
<1>7. QED  BY <1>4, <1>5, <1>6, NextMoves

LEMMA CreditInit == Init => CreditInv
<1> SUFFICES ASSUME Init PROVE CreditInv
  OBVIOUS
<1>1. TypeInv /\ BusySeen
  BY TypeInit DEF Init, BusySeen
<1>2. ASSUME NEW a \in Users, NEW b \in Users
      PROVE  Settled(a, b) - Settled(b, a) \in (-faults)..faults
  <2>1. HalfWay(a, b) = {} /\ HalfWay(b, a) = {}
    BY DEF Init, HalfWay
  <2>2. credit[a][b] = 0 /\ credit[b][a] = 0 /\ faults = 0
    BY DEF Init, Entities, Ids
  <2>3. QED  BY <2>1, <2>2, FS_EmptySet DEF Settled
<1>3. QED  BY <1>1, <1>2 DEF CreditInv, CreditsBalance, Settled

\* However many requests die between the two $inc of a match: two users'
\* credits for each other differ by no more than those, once all is settled.
THEOREM CreditsAlwaysBalance == Spec => []CreditsBalance
BY CreditInit, CreditStep, PTL DEF Spec, CreditInv

-----------------------------------------------------------------------------
(* Credits are paid for by swipes.                                         *)

\* The workers that have counted a like of one of a and b on the other, and may
\* yet credit a for it: as its source, or as its target.
Paid == {"readTarget", "setTarget", "findMutual", "incSource"}

AsSource(a, b) ==
  {w \in Workers : pc[w] \in Paid /\ req[w].source = a /\ req[w].target = b}
AsTarget(a, b) ==
  {w \in Workers : /\ pc[w] \in Paid \cup {"incTarget"}
                   /\ req[w].source = b /\ req[w].target = a}

CreditsPaid ==
  \A a, b \in Users :
    credit[a][b] + Cardinality(AsSource(a, b)) + Cardinality(AsTarget(a, b))
      <= stat[a].made + stat[b].made

PaidInv == TypeInv /\ CreditsPaid

LEMMA PayersFinite ==
  \A a, b : /\ IsFiniteSet(AsSource(a, b)) /\ Cardinality(AsSource(a, b)) \in Nat
            /\ IsFiniteSet(AsTarget(a, b)) /\ Cardinality(AsTarget(a, b)) \in Nat
<1> TAKE a, b
<1>1. AsSource(a, b) \subseteq Workers /\ AsTarget(a, b) \subseteq Workers
  BY DEF AsSource, AsTarget
<1>2. QED  BY <1>1, FS_Subset, FS_CardinalityType, MatcherAssumption

\* A like reaches these calls through the $inc of swipesMade, and leaves them
\* for the second credit through the first.
LEMMA PaidPath ==
  ASSUME TypeOK, NEW w \in Workers, Moves(w)
  PROVE  /\ pc'[w] \in Paid \cup {"incTarget"} =>
              req'[w] = req[w] /\ (pc[w] \in Paid \/ IncSwipesMade(w))
         /\ IncSwipesMade(w) => pc[w] = "incMade" /\ pc'[w] # "incTarget"
         /\ IncSourceMatches(w) => pc[w] = "incSource" /\ pc'[w] = "incTarget"
         /\ IncTargetMatches(w) => pc[w] = "incTarget" /\ pc'[w] = "reply"
         /\ pc'[w] = "incTarget" => IncSourceMatches(w)
<1>1. CASE Accept(w) \/ Refuse(w)
  BY <1>1 DEF Accept, Refuse, TypeOK, Paid, IncSwipesMade, IncSourceMatches,
              IncTargetMatches, Goto
<1>2. CASE UpsertMatched(w) \/ UpsertMissed(w) \/ UpsertInsert(w)
  BY <1>2 DEF UpsertMatched, UpsertMissed, UpsertInsert, Goto, TypeOK, Paid,
              IncSwipesMade, IncSourceMatches, IncTargetMatches
<1>3. CASE IncSwipesMade(w)
  BY <1>3 DEF IncSwipesMade, Goto, TypeOK, Paid, IncSourceMatches, IncTargetMatches
<1>4. CASE TargetNotFound(w) \/ ReadTarget(w)
  BY <1>4 DEF TargetNotFound, ReadTarget, Goto, TypeOK, Paid, IncSwipesMade,
              IncSourceMatches, IncTargetMatches
<1>5. CASE SetTarget(w) \/ FindMutual(w)
  BY <1>5 DEF SetTarget, WriteTarget, FindMutual, Goto, TypeOK, Paid,
              IncSwipesMade, IncSourceMatches, IncTargetMatches
<1>6. CASE IncSourceMatches(w) \/ IncTargetMatches(w)
  BY <1>6 DEF IncSourceMatches, IncTargetMatches, IncSwipesMade, Goto, TypeOK, Paid
<1>7. CASE TargetOutgrown(w) \/ Reply(w) \/ Fault(w)
  BY <1>7 DEF TargetOutgrown, Reply, Fault, Finish, TypeOK, Paid, IncSwipesMade,
              IncSourceMatches, IncTargetMatches, Goto
<1>8. QED  BY <1>1, <1>2, <1>3, <1>4, <1>5, <1>6, <1>7 DEF Moves, Step

\* One credit of a for b at the most, and only from a worker that owed it.
LEMMA CreditOwed ==
  ASSUME TypeInv, NEW w \in Workers, Moves(w), NEW a \in Users, NEW b \in Users
  PROVE  \/ credit'[a][b] = credit[a][b]
         \/ /\ credit'[a][b] = credit[a][b] + 1
            /\ \/ /\ IncSourceMatches(w)
                  /\ req[w].source = a /\ req[w].target = b
               \/ /\ IncTargetMatches(w)
                  /\ req[w].source = b /\ req[w].target = a
<1> DEFINE r == req[w]
<1>1. TypeOK /\ a \in Entities /\ b \in Entities /\ a \in Ids /\ b \in Ids
  BY DEF TypeInv, Entities, Ids
<1>2. ASSUME pc[w] # "idle"
      PROVE  r.type \in Types /\ r.source \in Ids /\ r.target \in Ids
  BY <1>2, ValidFields DEF TypeInv, BusyValid
<1>3. CASE IncSourceMatches(w)
  <2>1. r.target \in Ids
    BY <1>2, <1>3 DEF IncSourceMatches
  <2>2. CASE r.source \in Users
    <3>1. IncMatches(r.source, r.target) /\ r.source \in Entities
      BY <1>3, <2>2 DEF IncSourceMatches, Entities
    <3>2. CASE r.source = a /\ r.target = b
      BY <1>1, <1>3, <2>1, <3>1, <3>2, IncMatchesAdds
    <3>3. CASE ~(r.source = a /\ r.target = b)
      <4>1. <<a, b>> # <<r.source, r.target>>
        BY <3>3
      <4>2. QED  BY <1>1, <2>1, <3>1, <4>1, IncMatchesAdds
    <3>4. QED  BY <3>2, <3>3
  <2>3. CASE r.source \notin Users
    BY <1>3, <2>3 DEF IncSourceMatches
  <2>4. QED  BY <2>2, <2>3
<1>4. CASE IncTargetMatches(w)
  <2>1. r.source \in Ids
    BY <1>2, <1>4 DEF IncTargetMatches
  <2>2. CASE r.target \in TargetColl(r.type)
    <3>1. IncMatches(r.target, r.source) /\ r.target \in Entities
      BY <1>4, <2>2 DEF IncTargetMatches, TargetColl, Entities
    <3>2. CASE r.source = b /\ r.target = a
      BY <1>1, <1>4, <2>1, <3>1, <3>2, IncMatchesAdds
    <3>3. CASE ~(r.source = b /\ r.target = a)
      <4>1. <<a, b>> # <<r.target, r.source>>
        BY <3>3
      <4>2. QED  BY <1>1, <2>1, <3>1, <4>1, IncMatchesAdds
    <3>4. QED  BY <3>2, <3>3
  <2>3. CASE r.target \notin TargetColl(r.type)
    BY <1>4, <2>3 DEF IncTargetMatches
  <2>4. QED  BY <2>2, <2>3
<1>5. CASE ~IncSourceMatches(w) /\ ~IncTargetMatches(w)
  BY <1>5, OnlyIncCredits
<1>6. QED  BY <1>3, <1>4, <1>5

LEMMA PaidStep == PaidInv /\ [Next]_vars => PaidInv'
<1> SUFFICES ASSUME PaidInv, [Next]_vars PROVE PaidInv'
  OBVIOUS
<1>1. TypeInv /\ TypeInv' /\ TypeOK /\ TypeOK'
  BY TypeStep DEF PaidInv, TypeInv
<1> SUFFICES ASSUME NEW a \in Users, NEW b \in Users
             PROVE  credit'[a][b] + Cardinality(AsSource(a, b)')
                      + Cardinality(AsTarget(a, b)')
                        <= stat'[a].made + stat'[b].made
  BY <1>1 DEF PaidInv, CreditsPaid
<1> DEFINE A == AsSource(a, b)
           B == AsSource(a, b)'
           C == AsTarget(a, b)
           D == AsTarget(a, b)'
<1>2. credit[a][b] + Cardinality(A) + Cardinality(C) <= stat[a].made + stat[b].made
  BY DEF PaidInv, CreditsPaid
<1>3. /\ IsFiniteSet(A) /\ Cardinality(A) \in Nat
      /\ IsFiniteSet(C) /\ Cardinality(C) \in Nat
  BY PayersFinite
<1>4. a \in Entities /\ b \in Entities /\ a \in Ids /\ b \in Ids
  BY DEF Entities, Ids
<1>5. /\ stat[a].made \in Nat /\ stat'[a].made \in Nat
      /\ stat[b].made \in Nat /\ stat'[b].made \in Nat
      /\ credit[a][b] \in Nat /\ credit'[a][b] \in Nat
  BY <1>1, <1>4 DEF TypeOK, Stat
<1>6. stat[a].made <= stat'[a].made /\ stat[b].made <= stat'[b].made
  BY <1>1, <1>4, StatSteps
<1>7. CASE UNCHANGED vars
  <2>1. B = A /\ D = C /\ credit'[a][b] = credit[a][b]
    BY <1>7 DEF vars, AsSource, AsTarget
  <2>2. QED  BY <1>2, <1>3, <1>5, <1>6, <2>1 DEF A, B, C, D
<1>8. ASSUME NEW w \in Workers, Moves(w)
      PROVE  credit'[a][b] + Cardinality(B) + Cardinality(D)
               <= stat'[a].made + stat'[b].made
  <2>1. /\ \A v : v # w => (v \in A <=> v \in B)
        /\ \A v : v # w => (v \in C <=> v \in D)
    BY <1>1, <1>8, OthersStay DEF AsSource, AsTarget
  <2>2. /\ w \in A <=> pc[w] \in Paid /\ req[w].source = a /\ req[w].target = b
        /\ w \in B <=> pc'[w] \in Paid /\ req'[w].source = a /\ req'[w].target = b
        /\ w \in C <=> /\ pc[w] \in Paid \cup {"incTarget"}
                       /\ req[w].source = b /\ req[w].target = a
        /\ w \in D <=> /\ pc'[w] \in Paid \cup {"incTarget"}
                       /\ req'[w].source = b /\ req'[w].target = a
    BY DEF AsSource, AsTarget
  <2> HIDE DEF A, B, C, D
  <2>3. /\ Cardinality(B) \in Nat
        /\ (w \in A <=> w \in B) => Cardinality(B) = Cardinality(A)
        /\ w \notin A /\ w \in B => Cardinality(B) = Cardinality(A) + 1
        /\ w \in A /\ w \notin B => Cardinality(B) = Cardinality(A) - 1
    BY <1>3, <2>1, OneMoves
  <2>4. /\ Cardinality(D) \in Nat
        /\ (w \in C <=> w \in D) => Cardinality(D) = Cardinality(C)
        /\ w \notin C /\ w \in D => Cardinality(D) = Cardinality(C) + 1
        /\ w \in C /\ w \notin D => Cardinality(D) = Cardinality(C) - 1
    BY <1>3, <2>1, OneMoves
  <2>5. CASE IncSwipesMade(w)
    <3>1. w \notin A /\ w \notin C /\ credit'[a][b] = credit[a][b]
      BY <2>2, <2>5 DEF IncSwipesMade, Paid
    <3>2. req'[w] = req[w]
      BY <2>5 DEF IncSwipesMade, Goto
    <3>3. /\ req[w].source = a => stat'[a].made = stat[a].made + 1
          /\ req[w].source = b => stat'[b].made = stat[b].made + 1
      BY <1>1, <1>4, <2>5 DEF IncSwipesMade, TypeOK, Stat
    <3>4. /\ w \in B => req[w].source = a
          /\ w \in D => req[w].source = b
      BY <2>2, <3>2
    <3>5. /\ Cardinality(B) <= Cardinality(A) + (stat'[a].made - stat[a].made)
          /\ Cardinality(D) <= Cardinality(C) + (stat'[b].made - stat[b].made)
      BY <1>3, <1>5, <1>6, <2>3, <2>4, <3>1, <3>3, <3>4
    <3>6. QED  BY <1>2, <1>3, <1>5, <2>3, <2>4, <3>1, <3>5
  <2>6. CASE ~IncSwipesMade(w)
    <3>1. (w \in B => w \in A) /\ (w \in D => w \in C)
      BY <1>1, <1>8, <2>2, <2>6, PaidPath
    <3>2. /\ Cardinality(B) <= Cardinality(A) /\ Cardinality(D) <= Cardinality(C)
          /\ w \in A /\ w \notin B => Cardinality(B) = Cardinality(A) - 1
          /\ w \in C /\ w \notin D => Cardinality(D) = Cardinality(C) - 1
      BY <1>3, <2>3, <2>4, <3>1
    <3>3. CASE credit'[a][b] = credit[a][b]
      BY <1>2, <1>3, <1>5, <1>6, <2>3, <2>4, <3>2, <3>3
    <3>4. CASE /\ credit'[a][b] = credit[a][b] + 1
               /\ IncSourceMatches(w)
               /\ req[w].source = a /\ req[w].target = b
      <4>1. w \in A /\ w \notin B
        BY <1>1, <1>8, <2>2, <3>4, PaidPath DEF Paid
      <4>2. QED  BY <1>2, <1>3, <1>5, <1>6, <2>3, <2>4, <3>2, <3>4, <4>1
    <3>5. CASE /\ credit'[a][b] = credit[a][b] + 1
               /\ IncTargetMatches(w)
               /\ req[w].source = b /\ req[w].target = a
      <4>1. w \in C /\ w \notin D
        BY <1>1, <1>8, <2>2, <3>5, PaidPath DEF Paid
      <4>2. QED  BY <1>2, <1>3, <1>5, <1>6, <2>3, <2>4, <3>2, <3>5, <4>1
    <3>6. QED  BY <1>1, <1>8, <3>3, <3>4, <3>5, CreditOwed
  <2>7. QED  BY <2>5, <2>6
<1>9. QED  BY <1>7, <1>8, NextMoves

LEMMA PaidInit == Init => PaidInv
<1> SUFFICES ASSUME Init PROVE PaidInv
  OBVIOUS
<1>1. TypeInv
  BY TypeInit
<1>2. ASSUME NEW a \in Users, NEW b \in Users
      PROVE  credit[a][b] + Cardinality(AsSource(a, b)) + Cardinality(AsTarget(a, b))
               <= stat[a].made + stat[b].made
  <2>1. AsSource(a, b) = {} /\ AsTarget(a, b) = {}
    BY DEF Init, AsSource, AsTarget, Paid
  <2>2. credit[a][b] = 0 /\ stat[a].made = 0 /\ stat[b].made = 0
    BY DEF Init, Fresh, Entities, Ids
  <2>3. QED  BY <2>1, <2>2, FS_EmptySet
<1>3. QED  BY <1>1, <1>2 DEF PaidInv, CreditsPaid

\* No race, repetition or death of requests credits a user for another more
\* often than the two have swiped.
THEOREM CreditsAlwaysBounded == Spec => []CreditsBounded
<1>1. PaidInv => CreditsBounded
  <2> SUFFICES ASSUME PaidInv, NEW a \in Users, NEW b \in Users
               PROVE  credit[a][b] <= stat[a].made + stat[b].made
    BY DEF CreditsBounded
  <2>1. a \in Entities /\ b \in Entities /\ b \in Ids
    BY DEF Entities, Ids
  <2>2. credit[a][b] \in Nat /\ stat[a].made \in Nat /\ stat[b].made \in Nat
    BY <2>1 DEF PaidInv, TypeInv, TypeOK, Stat
  <2>3. credit[a][b] + Cardinality(AsSource(a, b)) + Cardinality(AsTarget(a, b))
          <= stat[a].made + stat[b].made
    BY DEF PaidInv, CreditsPaid
  <2>4. Cardinality(AsSource(a, b)) \in Nat /\ Cardinality(AsTarget(a, b)) \in Nat
    BY PayersFinite
  <2>5. QED  BY <2>2, <2>3, <2>4
<1>2. QED  BY <1>1, PaidInit, PaidStep, PTL DEF Spec

-----------------------------------------------------------------------------
(* The inductive invariant.  MutualLikeMatched looks only at answered      *)
(* likes; what makes it true happens earlier, between the upsert of a swipe *)
(* and the search for the opposite one, so the invariant follows a request *)
(* through the handler.                                                    *)

\* A worker that has passed the upsert has its swipe in the database.
SwipeRecorded ==
  \A w \in Workers : pc[w] \in AfterUpsert =>
    req[w].target \in Recorded(req[w].type, req[w].source)

AnsweredRecorded ==
  \A r \in answered : Valid(r) /\ r.target \in Recorded(r.type, r.source)

\* A worker that credits has found the opposite swipe.
CreditorsFoundMutual ==
  \A w \in Workers : pc[w] \in {"incSource", "incTarget"} => IsMutual(req[w])

\* A worker that is to credit the target has credited the source.
SourceCredited ==
  \A w \in Workers : pc[w] = "incTarget" /\ req[w].source \in Users =>
    credit[req[w].source][req[w].target] > 0

CreditsWithinMatches ==
  \A e \in Entities, p \in Ids : credit[e][p] <= stat[e].matches

\* The swipe has been processed, whether or not its sender knows.
Processed(r) == r \in answered \/ \E w \in Workers : pc[w] = "reply" /\ req[w] = r

ProcessedMatched ==
  \A a, b \in Users, q, r \in Requests :
    Processed(q) /\ Likes(q, a, b) /\ Processed(r) /\ Likes(r, b, a)
      => credit[a][b] > 0 /\ credit[b][a] > 0

IInv ==
  /\ TypeInv
  /\ SwipeRecorded /\ AnsweredRecorded /\ CreditorsFoundMutual
  /\ SourceCredited /\ MatchNeedsMutualSwipe /\ CreditsWithinMatches
  /\ ProcessedMatched

-----------------------------------------------------------------------------
(* Each part of the invariant is preserved.                                *)

LEMMA SwipeRecordedStep == IInv /\ [Next]_vars => SwipeRecorded'
<1> SUFFICES ASSUME IInv, [Next]_vars, NEW v \in Workers, pc'[v] \in AfterUpsert
             PROVE  (req[v].target \in Recorded(req[v].type, req[v].source))'
  BY DEF SwipeRecorded
<1>1. ASSUME pc[v] \in AfterUpsert, req'[v] = req[v]
      PROVE  (req[v].target \in Recorded(req[v].type, req[v].source))'
  <2>1. req[v] \in Requests /\ Valid(req[v])
    BY <1>1 DEF IInv, TypeInv, BusyValid, AfterUpsert
  <2>2. req[v].target \in Recorded(req[v].type, req[v].source)
    BY <1>1 DEF IInv, SwipeRecorded
  <2>3. req[v].target \in Recorded(req[v].type, req[v].source)'
    BY <1>1, <2>1, <2>2, ValidFields, RecordedGrows DEF IInv
  <2>4. QED  BY <1>1, <2>3
<1>2. CASE UNCHANGED vars
  BY <1>1, <1>2 DEF vars
<1>3. ASSUME NEW w \in Workers, Moves(w)
      PROVE  (req[v].target \in Recorded(req[v].type, req[v].source))'
  <2>1. CASE v # w
    BY <1>1, <1>3, <2>1, OthersStay DEF IInv, TypeInv
  <2>2. CASE v = w
    <3>1. req'[v] = req[v]
      BY <1>3, <2>2, Path DEF IInv, TypeInv
    <3>2. CASE pc[v] \in AfterUpsert
      BY <1>1, <3>1, <3>2
    <3>3. CASE UpsertMatched(v) \/ UpsertInsert(v)
      BY <3>1, <3>3, UpsertRecords DEF IInv
    <3>4. QED  BY <1>3, <2>2, <3>2, <3>3, Path DEF IInv, TypeInv
  <2>3. QED  BY <2>1, <2>2
<1>4. QED  BY <1>2, <1>3, NextMoves

LEMMA AnsweredRecordedStep == IInv /\ [Next]_vars => AnsweredRecorded'
<1> SUFFICES ASSUME IInv, [Next]_vars, NEW r \in answered'
             PROVE  Valid(r) /\ r.target \in Recorded(r.type, r.source)'
  BY DEF AnsweredRecorded, Valid
<1>1. r.target \in Recorded(r.type, r.source) /\ Valid(r)
  <2>1. CASE r \in answered
    BY <2>1 DEF IInv, AnsweredRecorded
  <2>2. ASSUME NEW w \in Workers, pc[w] = "reply", r = req[w]
        PROVE  r.target \in Recorded(r.type, r.source) /\ Valid(r)
    BY <2>2 DEF IInv, TypeInv, BusyValid, SwipeRecorded, AfterUpsert, Labels
  <2>3. r \in answered \/ \E w \in Workers : pc[w] = "reply" /\ r = req[w]
    <3>1. CASE UNCHANGED vars
      BY <3>1 DEF vars
    <3>2. ASSUME NEW w \in Workers, Moves(w)
          PROVE  r \in answered \/ (pc[w] = "reply" /\ r = req[w])
      BY <3>2, OnlyReplyAnswers
    <3>3. QED  BY <3>1, <3>2, NextMoves
  <2>4. QED  BY <2>1, <2>2, <2>3
<1>2. QED  BY <1>1, RecordedGrows DEF IInv, Valid

LEMMA CreditorsFoundMutualStep == IInv /\ [Next]_vars => CreditorsFoundMutual'
<1> SUFFICES ASSUME IInv, [Next]_vars, NEW v \in Workers,
                    pc'[v] \in {"incSource", "incTarget"}
             PROVE  IsMutual(req[v])'
  BY DEF CreditorsFoundMutual
<1>1. ASSUME pc[v] # "idle", IsMutual(req[v]), req'[v] = req[v]
      PROVE  IsMutual(req[v])'
  <2>1. req[v].type \in Types /\ req[v].target \in Ids
    BY <1>1 DEF IInv, TypeInv, BusyValid, Valid
  <2>2. req[v].source \in Recorded(req[v].type, req[v].target)'
    BY <1>1, <2>1, RecordedGrows DEF IInv, IsMutual
  <2>3. QED  BY <1>1, <2>2 DEF IsMutual
<1>2. ASSUME pc[v] \in {"incSource", "incTarget"}, req'[v] = req[v]
      PROVE  IsMutual(req[v])'
  BY <1>1, <1>2 DEF IInv, CreditorsFoundMutual
<1>3. CASE UNCHANGED vars
  BY <1>2, <1>3 DEF vars
<1>4. ASSUME NEW w \in Workers, Moves(w)
      PROVE  IsMutual(req[v])'
  <2>1. CASE v # w
    BY <1>2, <1>4, <2>1, OthersStay DEF IInv, TypeInv
  <2>2. CASE v = w
    <3>1. req'[v] = req[v]
      BY <1>4, <2>2, Path DEF IInv, TypeInv, AfterUpsert, Labels
    <3>2. CASE pc'[v] = "incSource"
      <4>1. FindMutual(v) /\ IsMutual(req[v])
        BY <1>4, <2>2, <3>2, Path DEF IInv, TypeInv
      <4>2. QED  BY <1>1, <3>1, <4>1 DEF FindMutual
    <3>3. CASE pc'[v] = "incTarget"
      <4>1. IncSourceMatches(v)
        BY <1>4, <2>2, <3>3, Path DEF IInv, TypeInv
      <4>2. QED  BY <1>2, <3>1, <4>1 DEF IncSourceMatches
    <3>4. QED  BY <3>2, <3>3
  <2>3. QED  BY <2>1, <2>2
<1>5. QED  BY <1>3, <1>4, NextMoves


\* A step credits one side of the pair of one worker's request, or nobody.
LEMMA CreditSteps ==
  ASSUME IInv, [Next]_vars
  PROVE  \/ credit' = credit
         \/ \E w \in Workers :
              /\ IncSourceMatches(w) /\ req[w].source \in Entities
              /\ IncMatches(req[w].source, req[w].target)
         \/ \E w \in Workers :
              /\ IncTargetMatches(w) /\ req[w].target \in Entities
              /\ IncMatches(req[w].target, req[w].source)
<1>1. CASE UNCHANGED vars
  BY <1>1 DEF vars
<1>2. ASSUME NEW w \in Workers, IncSourceMatches(w)
      PROVE  \/ credit' = credit
             \/ /\ req[w].source \in Entities
                /\ IncMatches(req[w].source, req[w].target)
  BY <1>2 DEF IncSourceMatches, Entities
<1>3. ASSUME NEW w \in Workers, IncTargetMatches(w)
      PROVE  \/ credit' = credit
             \/ /\ req[w].target \in Entities
                /\ IncMatches(req[w].target, req[w].source)
  <2>1. TargetColl(req[w].type) \subseteq Entities
    BY <1>3, ValidFields DEF IncTargetMatches, IInv, TypeInv, BusyValid
  <2>2. QED  BY <1>3, <2>1 DEF IncTargetMatches
<1>4. ASSUME NEW w \in Workers, Moves(w)
      PROVE  credit' = credit \/ IncSourceMatches(w) \/ IncTargetMatches(w)
  BY <1>4, OnlyIncCredits
<1>5. QED  BY <1>1, <1>2, <1>3, <1>4, NextMoves

\* The ids of a worker that is about to credit.
LEMMA CreditorIds ==
  ASSUME IInv, NEW w \in Workers, pc[w] \in {"incSource", "incTarget"}
  PROVE  /\ req[w].type \in Types /\ req[w].source \in Ids
         /\ req[w].target \in Ids
         /\ req[w].target \in Recorded(req[w].type, req[w].source)
         /\ req[w].source \in Recorded(req[w].type, req[w].target)
<1>1. req[w] \in Requests /\ Valid(req[w])
  BY DEF IInv, TypeInv, BusyValid
<1>2. pc[w] \in AfterUpsert
  BY DEF AfterUpsert, Labels
<1>3. QED  BY <1>1, <1>2, ValidFields
           DEF IInv, SwipeRecorded, CreditorsFoundMutual, IsMutual

LEMMA CreditGrows ==
  ASSUME IInv, [Next]_vars, NEW e \in Entities, NEW p \in Ids
  PROVE  credit[e][p] <= credit'[e][p] /\ credit[e][p] \in Nat /\ credit'[e][p] \in Nat
<1>1. TypeOK /\ TypeOK'
  BY TypeStep DEF IInv, TypeInv
<1>2. credit[e][p] \in Nat /\ credit'[e][p] \in Nat
  BY <1>1 DEF TypeOK
<1>3. ASSUME NEW w \in Workers, IncSourceMatches(w), req[w].source \in Entities,
             IncMatches(req[w].source, req[w].target)
      PROVE  credit[e][p] <= credit'[e][p]
  <2>1. req[w].target \in Ids
    BY <1>3, CreditorIds DEF IncSourceMatches
  <2>2. QED  BY <1>1, <1>3, <2>1, IncMatchesAdds
<1>4. ASSUME NEW w \in Workers, IncTargetMatches(w), req[w].target \in Entities,
             IncMatches(req[w].target, req[w].source)
      PROVE  credit[e][p] <= credit'[e][p]
  <2>1. req[w].source \in Ids
    BY <1>4, CreditorIds DEF IncTargetMatches
  <2>2. QED  BY <1>1, <1>4, <2>1, IncMatchesAdds
<1>5. CASE credit' = credit
  BY <1>2, <1>5
<1>6. QED  BY <1>2, <1>3, <1>4, <1>5, CreditSteps

LEMMA SourceCreditedStep == IInv /\ [Next]_vars => SourceCredited'
<1> SUFFICES ASSUME IInv, [Next]_vars, NEW v \in Workers,
                    pc'[v] = "incTarget", req'[v].source \in Users
             PROVE  credit'[req'[v].source][req'[v].target] > 0
  BY DEF SourceCredited
<1>1. ASSUME pc[v] = "incTarget", req'[v] = req[v]
      PROVE  credit'[req'[v].source][req'[v].target] > 0
  <2>1. req[v].source \in Entities /\ req[v].target \in Ids
    BY <1>1, CreditorIds DEF Entities
  <2>2. credit[req[v].source][req[v].target] > 0
    BY <1>1 DEF IInv, SourceCredited
  <2>3. QED  BY <1>1, <2>1, <2>2, CreditGrows
<1>2. CASE UNCHANGED vars
  BY <1>1, <1>2 DEF vars
<1>3. ASSUME NEW w \in Workers, Moves(w)
      PROVE  credit'[req'[v].source][req'[v].target] > 0
  <2>1. CASE v # w
    BY <1>1, <1>3, <2>1, OthersStay DEF IInv, TypeInv
  <2>2. CASE v = w
    <3>1. IncSourceMatches(v) /\ req'[v] = req[v]
      BY <1>3, <2>2, Path DEF IInv, TypeInv, AfterUpsert, Labels
    <3>2. req[v].target \in Ids /\ req[v].source \in Entities
      BY <3>1, CreditorIds DEF IncSourceMatches, Entities
    <3>3. IncMatches(req[v].source, req[v].target)
      BY <3>1 DEF IncSourceMatches
    <3>4. /\ credit'[req[v].source][req[v].target]
               = credit[req[v].source][req[v].target] + 1
          /\ credit[req[v].source][req[v].target] \in Nat
      BY <3>2, <3>3, IncMatchesAdds, CreditGrows DEF IInv, TypeInv
    <3>5. QED  BY <3>1, <3>4
  <2>3. QED  BY <2>1, <2>2
<1>4. QED  BY <1>2, <1>3, NextMoves

LEMMA MutualSwipeStep == IInv /\ [Next]_vars => MatchNeedsMutualSwipe'
<1> SUFFICES ASSUME IInv, [Next]_vars, NEW e \in Entities, NEW p \in Ids,
                    credit'[e][p] > 0
             PROVE  \E ty \in Types : p \in Recorded(ty, e)' /\ e \in Recorded(ty, p)'
  BY DEF MatchNeedsMutualSwipe
<1>1. e \in Ids
  BY DEF Ids
<1>2. \E ty \in Types : p \in Recorded(ty, e) /\ e \in Recorded(ty, p)
  <2>1. CASE credit[e][p] > 0
    BY <2>1 DEF IInv, MatchNeedsMutualSwipe
  <2>2. ASSUME NEW w \in Workers, pc[w] \in {"incSource", "incTarget"},
               {e, p} = {req[w].source, req[w].target}
        PROVE  \E ty \in Types : p \in Recorded(ty, e) /\ e \in Recorded(ty, p)
    BY <2>2, CreditorIds
  <2>3. ASSUME NEW w \in Workers, IncSourceMatches(w),
               req[w].source \in Entities,
               IncMatches(req[w].source, req[w].target)
        PROVE  \E ty \in Types : p \in Recorded(ty, e) /\ e \in Recorded(ty, p)
    <3>1. pc[w] = "incSource" /\ req[w].target \in Ids
      BY <2>3, CreditorIds DEF IncSourceMatches
    <3>2. credit'[e][p] = credit[e][p]
            \/ (e = req[w].source /\ p = req[w].target)
      BY <2>3, <3>1, IncMatchesAdds DEF IInv, TypeInv
    <3>3. QED  BY <2>1, <2>2, <3>1, <3>2
  <2>4. ASSUME NEW w \in Workers, IncTargetMatches(w),
               req[w].target \in Entities,
               IncMatches(req[w].target, req[w].source)
        PROVE  \E ty \in Types : p \in Recorded(ty, e) /\ e \in Recorded(ty, p)
    <3>1. pc[w] = "incTarget" /\ req[w].source \in Ids
      BY <2>4, CreditorIds DEF IncTargetMatches
    <3>2. credit'[e][p] = credit[e][p]
            \/ (e = req[w].target /\ p = req[w].source)
      BY <2>4, <3>1, IncMatchesAdds DEF IInv, TypeInv
    <3>3. QED  BY <2>1, <2>2, <3>1, <3>2
  <2>5. CASE credit' = credit
    BY <2>1, <2>5
  <2>6. QED  BY <2>3, <2>4, <2>5, CreditSteps
<1>3. QED  BY <1>1, <1>2, RecordedGrows DEF IInv

LEMMA CreditsWithinMatchesStep == IInv /\ [Next]_vars => CreditsWithinMatches'
<1> SUFFICES ASSUME IInv, [Next]_vars, NEW e \in Entities, NEW p \in Ids
             PROVE  credit'[e][p] <= stat'[e].matches
  BY DEF CreditsWithinMatches
<1>1. credit[e][p] <= stat[e].matches
  BY DEF IInv, CreditsWithinMatches
<1>2. /\ credit[e][p] \in Nat /\ credit'[e][p] \in Nat
      /\ stat[e].matches \in Nat /\ stat'[e].matches \in Nat
  <2>1. TypeOK /\ TypeOK'
    BY TypeStep DEF IInv, TypeInv
  <2>2. QED  BY <2>1 DEF TypeOK, Stat
<1>3. ASSUME NEW x \in Entities, NEW y \in Ids, IncMatches(x, y)
      PROVE  credit'[e][p] <= stat'[e].matches
  <2>1. CASE e = x
    <3>1. stat'[e].matches = stat[e].matches + 1
      BY <1>3, <2>1, IncMatchesAdds DEF IInv, TypeInv
    <3>2. credit'[e][p] \in {credit[e][p], credit[e][p] + 1}
      BY <1>3, <2>1, IncMatchesAdds DEF IInv, TypeInv
    <3>3. QED  BY <1>1, <1>2, <3>1, <3>2
  <2>2. CASE e # x
    <3>1. stat'[e] = stat[e] /\ credit'[e][p] = credit[e][p]
      BY <1>3, <2>2, IncMatchesAdds DEF IInv, TypeInv
    <3>2. QED  BY <1>1, <3>1
  <2>3. QED  BY <2>1, <2>2
<1>4. ASSUME credit' = credit
      PROVE  credit'[e][p] <= stat'[e].matches
  <2>1. stat'[e].matches >= stat[e].matches
    <3>1. ASSUME NEW w \in Workers, IncSwipesMade(w)
          PROVE  stat'[e].matches = stat[e].matches
      BY <3>1 DEF IncSwipesMade, IInv, TypeInv, TypeOK, Stat
    <3>2. ASSUME NEW w \in Workers, SetTarget(w)
          PROVE  stat'[e].matches = stat[e].matches
      BY <3>2 DEF SetTarget, WriteTarget, IInv, TypeInv, TypeOK, Stat
    <3>3. ASSUME NEW w \in Workers,
                 IncSourceMatches(w) \/ IncTargetMatches(w)
          PROVE  stat'[e].matches >= stat[e].matches
      <4>1. ASSUME NEW x, NEW y, IncMatches(x, y)
            PROVE  stat'[e].matches >= stat[e].matches
        BY <1>2, <4>1 DEF IncMatches, IInv, TypeInv, TypeOK, Stat
      <4>2. CASE UNCHANGED stat
        BY <1>2, <4>2
      <4>3. QED  BY <3>3, <4>1, <4>2 DEF IncSourceMatches, IncTargetMatches
    <3>4. CASE UNCHANGED stat
      BY <1>2, <3>4
    <3>5. UNCHANGED stat \/ \E w \in Workers :
            \/ IncSwipesMade(w) \/ SetTarget(w)
            \/ IncSourceMatches(w) \/ IncTargetMatches(w)
      BY DEF Next, vars, Step, Accept, Refuse, UpsertMatched, UpsertMissed,
             UpsertInsert, TargetNotFound, ReadTarget, TargetOutgrown,
             FindMutual, Reply, Fault
    <3>6. QED  BY <1>2, <3>1, <3>2, <3>3, <3>4, <3>5
  <2>2. QED  BY <1>1, <1>2, <1>4, <2>1
<1>5. \A w \in Workers : pc[w] \in {"incSource", "incTarget"} =>
        req[w].source \in Ids /\ req[w].target \in Ids
  BY CreditorIds
<1>6. QED  BY <1>3, <1>4, <1>5, CreditSteps DEF IncSourceMatches, IncTargetMatches

\* Whether a processed like is answered or about to be, its swipe is in the
\* database.
LEMMA ProcessedRecorded ==
  ASSUME IInv, NEW r, Processed(r)
  PROVE  r.target \in Recorded(r.type, r.source)
BY DEF Processed, IInv, AnsweredRecorded, SwipeRecorded, AfterUpsert, Labels

\* A request becomes processed when its worker comes to the reply.
LEMMA BecomesProcessed ==
  ASSUME IInv, [Next]_vars, NEW r, Processed(r)', r.isLike = TRUE
  PROVE  \/ Processed(r)
         \/ \E w \in Workers : /\ req[w] = r
                               /\ \/ FindMutual(w) /\ ~IsMutual(r)
                                  \/ IncTargetMatches(w)
<1>1. CASE UNCHANGED vars
  BY <1>1 DEF vars, Processed
<1>2. ASSUME NEW w \in Workers, Moves(w), r \in answered'
      PROVE  Processed(r)
  BY <1>2, OnlyReplyAnswers DEF Processed
<1>3. ASSUME NEW w \in Workers, Moves(w),
             NEW v \in Workers, pc'[v] = "reply", req'[v] = r
      PROVE  \/ Processed(r)
             \/ /\ req[w] = r
                /\ \/ FindMutual(w) /\ ~IsMutual(r)
                   \/ IncTargetMatches(w)
  <2>1. CASE v # w
    BY <1>3, <2>1, OthersStay DEF Processed, IInv, TypeInv
  <2>2. CASE v = w
    <3>1. req[w] = r
      BY <1>3, <2>2, Path DEF IInv, TypeInv, AfterUpsert, Labels
    <3>2. ~r.isLike \/ (FindMutual(w) /\ ~IsMutual(r)) \/ IncTargetMatches(w)
      BY <1>3, <2>2, <3>1, Path DEF IInv, TypeInv
    <3>3. QED  BY <3>1, <3>2
  <2>3. QED  BY <2>1, <2>2
<1>4. QED  BY <1>1, <1>2, <1>3, NextMoves DEF Processed

\* The heart of the argument: of two opposite likes, the one that is
\* processed last finds the swipe of the other, which was recorded before
\* the other was processed, and it credits both sides before it is done.
LEMMA LastOneMatches ==
  ASSUME IInv, [Next]_vars, NEW a \in Users, NEW b \in Users,
         NEW q \in Requests, NEW r \in Requests,
         Likes(q, a, b), Likes(r, b, a),
         Processed(r) \/ r = q,
         NEW w \in Workers, req[w] = q,
         (FindMutual(w) /\ ~IsMutual(q)) \/ IncTargetMatches(w)
  PROVE  credit'[a][b] > 0 /\ credit'[b][a] > 0
<1>0. a \in Entities /\ b \in Entities /\ a \in Ids /\ b \in Ids
  BY DEF Entities, Ids
<1>1. CASE FindMutual(w) /\ ~IsMutual(q)
  <2>1. q.target \in Recorded(q.type, q.source)
    BY <1>1 DEF FindMutual, IInv, SwipeRecorded, AfterUpsert, Labels
  <2>2. r.target \in Recorded(r.type, r.source)
    BY <2>1, ProcessedRecorded
  <2>3. QED  BY <1>1, <2>2 DEF IsMutual, Likes
<1>2. CASE IncTargetMatches(w)
  <2>1. credit[a][b] > 0
    BY <1>2 DEF IncTargetMatches, Likes, IInv, SourceCredited
  <2>2. IncMatches(b, a)
    BY <1>2 DEF IncTargetMatches, Likes, TargetColl
  <2>3. credit'[b][a] = credit[b][a] + 1
    BY <1>0, <2>2, IncMatchesAdds DEF IInv, TypeInv
  <2>4. QED  BY <1>0, <2>1, <2>3, CreditGrows
<1>3. QED  BY <1>1, <1>2

LEMMA ProcessedMatchedStep == IInv /\ [Next]_vars => ProcessedMatched'
<1> SUFFICES ASSUME IInv, [Next]_vars, NEW a \in Users, NEW b \in Users,
                    NEW q \in Requests, NEW r \in Requests,
                    Processed(q)', Likes(q, a, b),
                    Processed(r)', Likes(r, b, a)
             PROVE  credit'[a][b] > 0 /\ credit'[b][a] > 0
  BY DEF ProcessedMatched, Likes
<1>0. q.isLike = TRUE /\ r.isLike = TRUE
  BY MatcherAssumption DEF Likes, Request
<1>1. CASE Processed(q) /\ Processed(r)
  <2>1. credit[a][b] > 0 /\ credit[b][a] > 0
    BY <1>1 DEF IInv, ProcessedMatched
  <2>2. a \in Entities /\ b \in Entities /\ a \in Ids /\ b \in Ids
    BY DEF Entities, Ids
  <2>3. QED  BY <2>1, <2>2, CreditGrows
<1>2. CASE ~Processed(q) /\ (Processed(r) \/ r = q)
  <2>1. PICK w \in Workers : /\ req[w] = q
                             /\ \/ FindMutual(w) /\ ~IsMutual(q)
                                \/ IncTargetMatches(w)
    BY <1>0, <1>2, BecomesProcessed
  <2>2. QED  BY <1>2, <2>1, LastOneMatches
<1>3. CASE ~Processed(r) /\ Processed(q)
  <2>1. PICK w \in Workers : /\ req[w] = r
                             /\ \/ FindMutual(w) /\ ~IsMutual(r)
                                \/ IncTargetMatches(w)
    BY <1>0, <1>3, BecomesProcessed
  <2>2. QED  BY <1>3, <2>1, LastOneMatches
<1>4. CASE ~Processed(q) /\ ~Processed(r) /\ r # q
  <2>1. PICK w \in Workers : /\ req[w] = q
                             /\ FindMutual(w) \/ IncTargetMatches(w)
    BY <1>0, <1>4, BecomesProcessed
  <2>2. PICK v \in Workers : /\ req[v] = r
                             /\ FindMutual(v) \/ IncTargetMatches(v)
    BY <1>0, <1>4, BecomesProcessed
  <2>3. v # w /\ Moves(w)
    BY <1>4, <2>1, <2>2 DEF Moves, Step
  <2>4. pc'[v] = pc[v]
    BY <2>3, OthersStay DEF IInv, TypeInv
  <2>5. pc'[v] # pc[v]
    BY <2>2 DEF FindMutual, IncTargetMatches, Goto, IInv, TypeInv, TypeOK
  <2>6. QED  BY <2>4, <2>5
<1>5. QED  BY <1>1, <1>2, <1>3, <1>4

-----------------------------------------------------------------------------
LEMMA IInit == Init => IInv
<1> SUFFICES ASSUME Init PROVE IInv
  OBVIOUS
<1>1. TypeInv
  BY TypeInit
<1>2. SwipeRecorded /\ AnsweredRecorded /\ CreditorsFoundMutual /\ SourceCredited
  BY DEF Init, SwipeRecorded, AnsweredRecorded, CreditorsFoundMutual,
         SourceCredited, AfterUpsert
<1>3. MatchNeedsMutualSwipe /\ CreditsWithinMatches
  BY DEF Init, MatchNeedsMutualSwipe, CreditsWithinMatches, Fresh
<1>4. ProcessedMatched
  BY DEF Init, ProcessedMatched, Processed
<1>5. QED  BY <1>1, <1>2, <1>3, <1>4 DEF IInv

LEMMA IStep == IInv /\ [Next]_vars => IInv'
BY TypeStep, SwipeRecordedStep, AnsweredRecordedStep, CreditorsFoundMutualStep,
   SourceCreditedStep, MutualSwipeStep, CreditsWithinMatchesStep,
   ProcessedMatchedStep DEF IInv

LEMMA IInvHolds == Spec => []IInv
BY IInit, IStep, PTL DEF Spec

\* Two users whose likes of each other were both answered count each other
\* in matches, whatever else the server did meanwhile.
THEOREM MutualLikesMatch == Spec => []MutualLikeMatched
<1>1. IInv => MutualLikeMatched
  <2> SUFFICES ASSUME IInv, NEW a \in Users, NEW b \in Users,
                      LikeIn(answered, a, b), LikeIn(answered, b, a)
               PROVE  /\ 0 < credit[a][b] /\ credit[a][b] <= stat[a].matches
                      /\ 0 < credit[b][a] /\ credit[b][a] <= stat[b].matches
    BY DEF MutualLikeMatched
  <2>1. PICK q \in answered : Likes(q, a, b)
    BY DEF LikeIn
  <2>2. PICK r \in answered : Likes(r, b, a)
    BY DEF LikeIn
  <2>3. q \in Requests /\ r \in Requests /\ Processed(q) /\ Processed(r)
    BY DEF IInv, TypeInv, TypeOK, Processed
  <2>4. credit[a][b] > 0 /\ credit[b][a] > 0
    BY <2>1, <2>2, <2>3 DEF IInv, ProcessedMatched
  <2>5. /\ a \in Entities /\ b \in Entities /\ a \in Ids /\ b \in Ids
        /\ credit[a][b] \in Nat /\ credit[b][a] \in Nat
    BY DEF Entities, Ids, IInv, TypeInv, TypeOK
  <2>6. credit[a][b] <= stat[a].matches /\ credit[b][a] <= stat[b].matches
    BY <2>5 DEF IInv, CreditsWithinMatches
  <2>7. QED  BY <2>4, <2>5, <2>6
<1>2. QED  BY <1>1, IInvHolds, PTL

\* No entity ever counts a match with one that it has not swiped on, or that
\* has not swiped on it.
THEOREM MatchesAreMutual == Spec => []MatchNeedsMutualSwipe
BY IInvHolds, PTL DEF IInv

-----------------------------------------------------------------------------
(* Rooms.                                                                  *)

\* A source with a swipe document has sent a swipe.
SourcesSeen ==
  \A ty \in Types, s \in Ids : Recorded(ty, s) # {} => \E q \in seen : q.source = s

\* What matches counts was credited with somebody.
MatchesCredited ==
  \A e \in Entities : stat[e].matches > 0 => \E p \in Ids : credit[e][p] > 0

RoomInv == IInv /\ BusySeen /\ SourcesSeen /\ MatchesCredited

LEMMA SourcesSeenStep == RoomInv /\ [Next]_vars => SourcesSeen'
<1> SUFFICES ASSUME RoomInv, [Next]_vars, NEW ty \in Types, NEW s \in Ids,
                    Recorded(ty, s)' # {}
             PROVE  \E q \in seen' : q.source = s
  BY DEF SourcesSeen
<1>1. TypeInv /\ SourcesSeen /\ BusySeen
  BY DEF RoomInv, IInv
<1>2. ASSUME swipes' = swipes, seen \subseteq seen'
      PROVE  \E q \in seen' : q.source = s
  <2>1. Recorded(ty, s)' = Recorded(ty, s)
    BY <1>2 DEF Recorded, Docs
  <2>2. QED  BY <1>1, <1>2, <2>1 DEF SourcesSeen
<1>3. ASSUME NEW w \in Workers, UpsertMatched(w) \/ UpsertInsert(w)
      PROVE  \E q \in seen' : q.source = s
  <2>1. req[w] \in seen /\ seen' = seen
    BY <1>1, <1>3 DEF BusySeen, UpsertMatched, UpsertInsert, Goto
  <2>2. CASE req[w].source = s
    BY <2>1, <2>2
  <2>3. CASE req[w].source # s
    <3>1. Recorded(ty, s)' = Recorded(ty, s)
      BY <1>1, <1>3, <2>3, UpsertRecords
    <3>2. QED  BY <1>1, <2>1, <3>1 DEF SourcesSeen
  <2>4. QED  BY <2>2, <2>3
<1>4. CASE UNCHANGED vars
  BY <1>2, <1>4 DEF vars
<1>5. ASSUME NEW w \in Workers, Moves(w)
      PROVE  \E q \in seen' : q.source = s
  <2>1. seen \subseteq seen'
    BY <1>1, <1>5, Calls DEF TypeInv
  <2>2. QED  BY <1>2, <1>3, <1>5, <2>1, OnlyUpsertsSwipe
<1>6. QED  BY <1>4, <1>5, NextMoves

LEMMA MatchesCreditedStep == RoomInv /\ [Next]_vars => MatchesCredited'
<1> SUFFICES ASSUME RoomInv, [Next]_vars, NEW e \in Entities,
                    stat'[e].matches > 0
             PROVE  \E p \in Ids : credit'[e][p] > 0
  BY DEF MatchesCredited
<1>1. IInv /\ TypeOK
  BY DEF RoomInv, IInv, TypeInv
<1>2. CASE stat'[e].matches = stat[e].matches
  <2>1. PICK p \in Ids : credit[e][p] > 0
    BY <1>2 DEF RoomInv, MatchesCredited
  <2>2. credit'[e][p] > 0
    BY <1>1, <2>1, CreditGrows
  <2>3. QED  BY <2>2
<1>3. ASSUME NEW x \in Entities, NEW y \in Ids, IncMatches(x, y)
      PROVE  \E p \in Ids : credit'[e][p] > 0
  <2>1. CASE x = e
    <3>1. credit'[e][y] = credit[e][y] + 1 /\ credit[e][y] \in Nat
      BY <1>1, <1>3, <2>1, IncMatchesAdds, CreditGrows
    <3>2. QED  BY <3>1
  <2>2. CASE x # e
    <3>1. stat'[e] = stat[e]
      BY <1>1, <1>3, <2>2, IncMatchesAdds
    <3>2. QED  BY <1>2, <3>1
  <2>3. QED  BY <2>1, <2>2
<1>4. CASE UNCHANGED vars
  BY <1>2, <1>4 DEF vars
<1>5. ASSUME NEW w \in Workers, Moves(w)
      PROVE  \/ stat'[e].matches = stat[e].matches
             \/ \E x \in Entities, y \in Ids : IncMatches(x, y)
  <2>1. CASE IncSourceMatches(w) \/ IncTargetMatches(w)
    <3>1. /\ req[w].source \in Ids /\ req[w].target \in Ids
          /\ TargetColl(req[w].type) \subseteq Entities
      BY <1>1, <2>1, ValidFields
      DEF IInv, TypeInv, BusyValid, IncSourceMatches, IncTargetMatches
    <3>2. QED  BY <2>1, <3>1 DEF IncSourceMatches, IncTargetMatches, Entities
  <2>2. CASE IncSwipesMade(w)
    BY <1>1, <2>2 DEF IncSwipesMade, TypeOK, Stat
  <2>3. CASE SetTarget(w)
    BY <1>1, <2>3 DEF SetTarget, WriteTarget, TypeOK, Stat
  <2>4. CASE UNCHANGED stat
    BY <2>4
  <2>5. QED
    BY <1>5, <2>1, <2>2, <2>3, <2>4
    DEF Moves, Step, Accept, Refuse, UpsertMatched, UpsertMissed, UpsertInsert,
        TargetNotFound, ReadTarget, TargetOutgrown, FindMutual, Reply, Fault
<1>6. QED  BY <1>2, <1>3, <1>4, <1>5, NextMoves

LEMMA RoomInvHolds == Spec => []RoomInv
<1>1. Init => RoomInv
  <2> SUFFICES ASSUME Init PROVE RoomInv
    OBVIOUS
  <2>1. BusySeen /\ SourcesSeen /\ MatchesCredited
    BY DEF Init, BusySeen, SourcesSeen, MatchesCredited, Recorded, Docs, Fresh
  <2>2. QED  BY <2>1, IInit DEF RoomInv
<1>2. RoomInv /\ [Next]_vars => RoomInv'
  BY IStep, BusySeenStep, SourcesSeenStep, MatchesCreditedStep DEF RoomInv, IInv
<1>3. QED  BY <1>1, <1>2, PTL DEF Spec

\* Rooms that are never sent as a source have no matches and give nobody any,
\* however many users like them.
THEOREM LikesOfRoomsNeverMatch == Spec => []RoomsNeverMatch
<1>1. RoomInv => RoomsNeverMatch
  <2> SUFFICES ASSUME RoomInv, \A q \in seen : q.source \notin Rooms, NEW r \in Rooms
               PROVE  /\ stat[r].matches = 0
                      /\ \A e \in Entities : credit[e][r] = 0
    BY DEF RoomsNeverMatch
  <2>1. r \in Entities /\ r \in Ids /\ TypeOK
    BY DEF Entities, Ids, RoomInv, IInv, TypeInv
  <2>2. \A ty \in Types : Recorded(ty, r) = {}
    BY <2>1 DEF RoomInv, SourcesSeen
  <2>3. ASSUME NEW e \in Entities, NEW p \in Ids, r \in {e, p} PROVE credit[e][p] = 0
    <3>1. credit[e][p] \in Nat
      BY <2>1 DEF TypeOK
    <3>2. ~(credit[e][p] > 0)
      BY <2>2, <2>3 DEF RoomInv, IInv, MatchNeedsMutualSwipe
    <3>3. QED  BY <3>1, <3>2
  <2>4. stat[r].matches = 0
    <3>1. stat[r].matches \in Nat
      BY <2>1 DEF TypeOK, Stat
    <3>2. ~(stat[r].matches > 0)
      BY <2>1, <2>3 DEF RoomInv, MatchesCredited
    <3>3. QED  BY <3>1, <3>2
  <2>5. QED  BY <2>1, <2>3, <2>4
<1>2. QED  BY <1>1, RoomInvHolds, PTL

-----------------------------------------------------------------------------
(* Matcher implements SwipeLedger: every call of the handler is a step of  *)
(* the ledger, or leaves the ledger as it is.                              *)

\* What the refinement substitutes for the variables of the ledger.
recordedOf == {k \in Types \X Ids \X Ids : k[3] \in Recorded(k[1], k[2])}
creditedOf == {k \in Entities \X Ids : credit[k[1]][k[2]] > 0}

ledgerVars == <<recordedOf, creditedOf, answered>>

\* The members of the substituted sets, without their tuples.
LEMMA RecordedMembers ==
  ASSUME NEW ty \in Types, NEW s \in Ids, NEW t \in Ids
  PROVE  /\ <<ty, s, t>> \in recordedOf <=> t \in Recorded(ty, s)
         /\ <<ty, s, t>> \in recordedOf' <=> t \in Recorded(ty, s)'
BY DEF recordedOf

\* A step that leaves the swipe documents, or the credits, leaves these sets.
LEMMA RecordedUnchanged == UNCHANGED swipes => UNCHANGED recordedOf
BY DEF recordedOf, Recorded, Docs

LEMMA CreditedUnchanged == UNCHANGED credit => UNCHANGED creditedOf
BY DEF creditedOf

\* Both halves of the upsert record the swipe in the ledger.
LEMMA UpsertIsRecord ==
  ASSUME IInv, NEW w \in Workers, UpsertMatched(w) \/ UpsertInsert(w),
         NEW r, r = req[w]
  PROVE  r \in Requests /\ Valid(r) /\ Ledger!Record(r)
<1> DEFINE key == <<r.type, r.source, r.target>>
<1>1. /\ r \in Requests /\ Valid(r)
      /\ r.type \in Types /\ r.source \in Ids /\ r.target \in Ids
  BY UpsertRecords, ValidFields DEF IInv
<1>2. \A ty \in Types, s \in Ids, t \in Ids :
        t \in Recorded(ty, s)'
          <=> t \in Recorded(ty, s) \/ <<ty, s, t>> = key
  <2>1. Recorded(r.type, r.source)' = Recorded(r.type, r.source) \cup {r.target}
    BY UpsertRecords DEF IInv
  <2>2. \A ty \in Types, s \in Ids :
          <<ty, s>> # <<r.type, r.source>> => Recorded(ty, s)' = Recorded(ty, s)
    BY UpsertRecords DEF IInv
  <2>3. req' = req
    BY UpsertRecords DEF IInv
  <2>4. QED  BY <2>1, <2>2, <2>3
<1>3. recordedOf' = recordedOf \cup {key}
  <2>1. ASSUME NEW k \in Types \X Ids \X Ids
        PROVE  k \in recordedOf' <=> k \in recordedOf \cup {key}
    <3>1. PICK ty \in Types, s \in Ids, t \in Ids : k = <<ty, s, t>>
      OBVIOUS
    <3>2. QED  BY <1>2, <3>1, RecordedMembers
  <2>2. key \in Types \X Ids \X Ids
    BY <1>1
  <2>3. /\ recordedOf \subseteq Types \X Ids \X Ids
        /\ recordedOf' \subseteq Types \X Ids \X Ids
    BY DEF recordedOf
  <2>4. QED  BY <2>1, <2>2, <2>3
<1>4. UNCHANGED <<credit, answered>>
  BY DEF UpsertMatched, UpsertInsert, Goto
<1>5. UNCHANGED creditedOf
  BY <1>4, CreditedUnchanged
<1>6. QED  BY <1>1, <1>3, <1>4, <1>5
           DEF Ledger!Record, Ledger!Key, recordedOf, creditedOf

\* An $inc of matches credits its side of a pair that is mutual.
LEMMA IncIsCredit ==
  ASSUME IInv, NEW e \in Entities, NEW p \in Ids, IncMatches(e, p),
         NEW ty \in Types, p \in Recorded(ty, e), e \in Recorded(ty, p),
         UNCHANGED <<swipes, answered>>
  PROVE  Ledger!Credit(e, p)
<1>1. e \in Ids
  BY DEF Ids
<1>2. <<ty, e, p>> \in recordedOf /\ <<ty, p, e>> \in recordedOf
  BY <1>1, RecordedMembers
<1>3. creditedOf' = creditedOf \cup {<<e, p>>}
  <2>1. ASSUME NEW f \in Entities, NEW q \in Ids
        PROVE  credit'[f][q] > 0 <=> credit[f][q] > 0 \/ <<f, q>> = <<e, p>>
    <3>1. credit[f][q] \in Nat
      BY DEF IInv, TypeInv, TypeOK
    <3>2. CASE <<f, q>> = <<e, p>>
      BY <3>1, <3>2, IncMatchesAdds DEF IInv, TypeInv
    <3>3. CASE <<f, q>> # <<e, p>>
      BY <3>3, IncMatchesAdds DEF IInv, TypeInv
    <3>4. QED  BY <3>2, <3>3
  <2>2. ASSUME NEW k \in Entities \X Ids
        PROVE  k \in creditedOf' <=> k \in creditedOf \cup {<<e, p>>}
    <3>1. PICK f \in Entities, q \in Ids : k = <<f, q>>
      OBVIOUS
    <3>2. QED  BY <2>1, <3>1 DEF creditedOf
  <2>3. /\ creditedOf \subseteq Entities \X Ids
        /\ creditedOf' \subseteq Entities \X Ids
        /\ <<e, p>> \in Entities \X Ids
    BY DEF creditedOf
  <2>4. QED  BY <2>2, <2>3
<1>4. UNCHANGED recordedOf
  BY RecordedUnchanged
<1>5. ty \in {"roommate", "room"}
  BY DEF Types
<1>6. QED  BY <1>2, <1>3, <1>4, <1>5
           DEF Ledger!Credit, Ledger!Mutual, recordedOf, creditedOf

\* A reply answers a recorded swipe, and the last of two likes both sides of
\* which are credited.
LEMMA ReplyIsAnswer ==
  ASSUME IInv, NEW w \in Workers, Reply(w), NEW r, r = req[w]
  PROVE  r \in Requests /\ Valid(r) /\ Ledger!Answer(r)
<1>1. /\ r \in Requests /\ Valid(r)
      /\ r.type \in Types /\ r.source \in Ids /\ r.target \in Ids
  BY ValidFields DEF Reply, IInv, TypeInv, BusyValid
<1>2. Processed(r)
  BY DEF Reply, Processed
<1>3. <<r.type, r.source, r.target>> \in recordedOf
  BY <1>1, <1>2, ProcessedRecorded, RecordedMembers
<1>4. ASSUME NEW a \in Users, NEW b \in Users, Likes(r, a, b),
             LikeIn(answered, b, a) \/ a = b
      PROVE  {<<a, b>>, <<b, a>>} \subseteq creditedOf
  <2>1. PICK q \in Requests : Processed(q) /\ Likes(q, b, a)
    <3>1. CASE a = b
      BY <1>1, <1>2, <1>4, <3>1
    <3>2. CASE LikeIn(answered, b, a)
      BY <3>2 DEF LikeIn, Processed, IInv, TypeInv, TypeOK
    <3>3. QED  BY <1>4, <3>1, <3>2
  <2>2. credit[a][b] > 0 /\ credit[b][a] > 0
    BY <1>1, <1>2, <1>4, <2>1 DEF IInv, ProcessedMatched
  <2>3. a \in Entities /\ b \in Entities /\ a \in Ids /\ b \in Ids
    BY DEF Entities, Ids
  <2>4. QED  BY <2>2, <2>3 DEF creditedOf
<1>5. answered' = answered \cup {r} /\ UNCHANGED <<swipes, credit>>
  BY DEF Reply
<1>6. UNCHANGED <<recordedOf, creditedOf>>
  BY <1>5, RecordedUnchanged, CreditedUnchanged
<1>7. QED
  BY <1>1, <1>3, <1>4, <1>5, <1>6
  DEF Ledger!Answer, Ledger!Key, Ledger!Likes, Ledger!LikeAnswered,
      Likes, LikeIn, recordedOf, creditedOf

-----------------------------------------------------------------------------
LEMMA LedgerInit == Init => Ledger!Init
<1> SUFFICES ASSUME Init PROVE recordedOf = {} /\ creditedOf = {} /\ answered = {}
  BY DEF Ledger!Init, recordedOf, creditedOf
<1>1. recordedOf = {}
  BY DEF Init, recordedOf, Recorded, Docs
<1>2. creditedOf = {}
  BY DEF Init, creditedOf
<1>3. QED  BY <1>1, <1>2 DEF Init

\* A step of the ledger for a request that was not refused.
LEMMA LedgerNext ==
  ASSUME NEW r \in Requests, Valid(r),
         \/ Ledger!Record(r)
         \/ Ledger!Credit(r.source, r.target) \/ Ledger!Credit(r.target, r.source)
         \/ Ledger!Answer(r)
  PROVE  Ledger!Next
<1>1. r \in {q \in Requests : Valid(q)}
  OBVIOUS
<1>2. QED  BY <1>1, Zenon DEF Ledger!Next

LEMMA LedgerStep == IInv /\ [Next]_vars => [Ledger!Next]_(Ledger!vars)
<1> SUFFICES ASSUME IInv, [Next]_vars
             PROVE  Ledger!Next \/ UNCHANGED ledgerVars
  BY DEF Ledger!vars, ledgerVars, recordedOf, creditedOf
<1>1. CASE UNCHANGED <<swipes, credit, answered>>
  BY <1>1, RecordedUnchanged, CreditedUnchanged DEF ledgerVars
<1>2. ASSUME NEW w \in Workers, UpsertMatched(w) \/ UpsertInsert(w)
      PROVE  Ledger!Next
  <2>1. PICK r : r = req[w]
    OBVIOUS
  <2>2. r \in Requests /\ Valid(r) /\ Ledger!Record(r)
    BY <1>2, <2>1, UpsertIsRecord
  <2>3. QED  BY <2>2, LedgerNext
<1>3. ASSUME NEW w \in Workers, IncSourceMatches(w)
      PROVE  Ledger!Next \/ UNCHANGED ledgerVars
  <2>1. PICK r : r = req[w]
    OBVIOUS
  <2>2. r \in Requests /\ Valid(r) /\ UNCHANGED <<swipes, answered>>
    BY <1>3, <2>1 DEF IncSourceMatches, Goto, IInv, TypeInv, BusyValid
  <2>3. CASE r.source \in Users
    <3>1. IncMatches(r.source, r.target) /\ r.source \in Entities
      BY <1>3, <2>1, <2>2, <2>3, ValidFields DEF IncSourceMatches, Entities
    <3>2. pc[w] \in {"incSource", "incTarget"}
      BY <1>3 DEF IncSourceMatches
    <3>3. /\ r.type \in Types /\ r.target \in Ids
          /\ r.source \in Recorded(r.type, r.target)
          /\ r.target \in Recorded(r.type, r.source)
      BY <2>1, <3>2, CreditorIds
    <3>4. Ledger!Credit(r.source, r.target)
      BY <2>2, <3>1, <3>3, IncIsCredit
    <3>5. QED  BY <2>2, <3>4, LedgerNext
  <2>4. CASE r.source \notin Users
    <3>1. UNCHANGED credit
      BY <1>3, <2>1, <2>4 DEF IncSourceMatches
    <3>2. QED  BY <1>1, <2>2, <3>1
  <2>5. QED  BY <2>3, <2>4
<1>4. ASSUME NEW w \in Workers, IncTargetMatches(w)
      PROVE  Ledger!Next \/ UNCHANGED ledgerVars
  <2>1. PICK r : r = req[w]
    OBVIOUS
  <2>2. r \in Requests /\ Valid(r) /\ UNCHANGED <<swipes, answered>>
    BY <1>4, <2>1 DEF IncTargetMatches, Goto, IInv, TypeInv, BusyValid
  <2>3. CASE r.target \in TargetColl(r.type)
    <3>1. IncMatches(r.target, r.source) /\ r.target \in Entities
      BY <1>4, <2>1, <2>2, <2>3, ValidFields DEF IncTargetMatches
    <3>2. pc[w] \in {"incSource", "incTarget"}
      BY <1>4 DEF IncTargetMatches
    <3>3. /\ r.type \in Types /\ r.source \in Ids
          /\ r.source \in Recorded(r.type, r.target)
          /\ r.target \in Recorded(r.type, r.source)
      BY <2>1, <3>2, CreditorIds
    <3>4. Ledger!Credit(r.target, r.source)
      BY <2>2, <3>1, <3>3, IncIsCredit
    <3>5. QED  BY <2>2, <3>4, LedgerNext
  <2>4. CASE r.target \notin TargetColl(r.type)
    <3>1. UNCHANGED credit
      BY <1>4, <2>1, <2>4 DEF IncTargetMatches
    <3>2. QED  BY <1>1, <2>2, <3>1
  <2>5. QED  BY <2>3, <2>4
<1>5. ASSUME NEW w \in Workers, Reply(w)
      PROVE  Ledger!Next
  <2>1. PICK r : r = req[w]
    OBVIOUS
  <2>2. r \in Requests /\ Valid(r) /\ Ledger!Answer(r)
    BY <1>5, <2>1, ReplyIsAnswer
  <2>3. QED  BY <2>2, LedgerNext
<1>6. \/ UNCHANGED <<swipes, credit, answered>>
      \/ \E w \in Workers :
           \/ UpsertMatched(w) \/ UpsertInsert(w)
           \/ IncSourceMatches(w) \/ IncTargetMatches(w) \/ Reply(w)
  BY DEF Next, vars, Step, Accept, Refuse, UpsertMissed, IncSwipesMade,
         TargetNotFound, ReadTarget, TargetOutgrown, SetTarget, WriteTarget,
         FindMutual, Fault, Goto
<1>7. QED  BY <1>1, <1>2, <1>3, <1>4, <1>5, <1>6

\* The handler implements the ledger of swipes.
THEOREM ImplementsLedger == Spec => LedgerSpec
BY LedgerInit, LedgerStep, IInvHolds, PTL DEF Spec, LedgerSpec, Ledger!Spec

=============================================================================
