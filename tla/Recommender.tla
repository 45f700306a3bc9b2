------------------------------- MODULE Recommender -------------------------------
(***************************************************************************)
(* GET /api/test_recommend: rankUsers of backend/src/Recommender.cpp with  *)
(* fetchUserData of backend/src/DBManager.cpp, one request of it, while    *)
(* the import script of backend/test gives users new addresses.            *)
(*                                                                         *)
(* A text is the sequence of its words (\w+), as they are spelled.  The    *)
(* logarithm in the weight of a token is a parameter, Idf, in whole units; *)
(* a similarity is kept as the pair of numbers that it is the quotient of. *)
(***************************************************************************)
EXTENDS Integers, Sequences, FiniteSets, Functions, FiniteSetsExt, SequencesExt

CONSTANTS
  Users,            \* the ids of the documents of "users"
  Unknown,          \* ids of no document
  Words, Lower,     \* words as they are spelled, and in lower case
  NotText,          \* a field that is not a string
  Corpora,          \* what the collection may hold: documents of all users
  Rows,             \* the address that the script has for each user
  Idf(_, _),        \* the weight of a token of df profiles among n
  MaxResults        \* the longest answer: 5 in the code

Tokens == {Lower[w] : w \in Words}
Text   == Seq(Words) \cup {NotText}

\* "city", "state", "country" and "zipcode" in one text, and "budget".
Doc == [address : Text, budget : Text]

ASSUME RecommenderAssumption ==
  /\ IsFiniteSet(Users) /\ Unknown \cap Users = {}
  /\ Lower \in [Words -> Words] /\ NotText \notin Seq(Words)
  /\ Corpora \subseteq [Users -> Doc] /\ Rows \in [Users -> Seq(Words)]
  /\ \A n \in 1..Cardinality(Users) : \A df \in 1..n :
       /\ Idf(df, n) \in Nat \ {0}
       /\ df < n => Idf(df, n) > Idf(df + 1, n)
  /\ MaxResults \in Nat \ {0}

VARIABLES
  docs, toMove,         \* the collection; the users the script has yet to visit
  pc, type, target,     \* the request
  canonical,            \* is its id spelled as oid::to_string does?
  profiles,             \* what the cursor delivered, in that order
  answer,               \* "recommendations"
  held                  \* history: the documents of each user since the query

request == <<type, target, canonical>>
vars    == <<docs, toMove, pc, request, profiles, answer, held>>

Profile    == [id : Users, tokens : Seq(Tokens)]
Similarity == [dot : Nat, own : Nat \ {0}]

TypeOK ==
  /\ docs \in [Users -> Doc] /\ toMove \subseteq Users
  /\ pc \in {"idle", "scan", "answered", "error"}
  /\ type \in {"roommate", "other"} /\ target \in Users \cup Unknown
  /\ canonical \in BOOLEAN
  /\ profiles \in Seq(Profile) /\ Len(profiles) <= Cardinality(Users)
  /\ answer \in Seq([id : Users, score : Similarity])
  /\ Len(answer) <= MaxResults
  /\ held \in [Users -> SUBSET Doc]

Init ==
  /\ docs \in Corpora /\ toMove = Users
  /\ pc = "idle"
  /\ type \in {"roommate", "other"} /\ target \in Users \cup Unknown
  /\ canonical \in BOOLEAN
  /\ profiles = <<>> /\ answer = <<>>
  /\ held = [u \in Users |-> {docs[u]}]

-----------------------------------------------------------------------------
(* Meanwhile: the script overwrites the address of a user, with strings.   *)

ImportRow(u) ==
  /\ u \in toMove
  /\ toMove' = toMove \ {u}
  /\ docs' = [docs EXCEPT ![u].address = Rows[u]]
  /\ held' = [held EXCEPT ![u] = @ \cup {docs'[u]}]
  /\ UNCHANGED <<pc, request, profiles, answer>>

-----------------------------------------------------------------------------
(* Weights and similarities.                                               *)

tokenize(text) == [i \in DOMAIN text |-> Lower[text[i]]]

TokensOf(d) == tokenize(d.address \o d.budget)

TF(tokens, t) == Cardinality({i \in DOMAIN tokens : tokens[i] = t})

NoTokens == [t \in Tokens |-> 0]

\* A profile counts once for each token it has.
documentFrequency(ps) ==
  FoldLeft(LAMBDA df, p : [t \in Tokens |->
                             IF t \in Range(p.tokens) THEN df[t] + 1 ELSE df[t]],
           NoTokens, ps)

\* Mutant: no + 1 behind the logarithm, so that what all have weighs nothing.
Unsmoothed(df, n) == Idf(df, n) - Idf(n, n)

inverseDocumentFrequency(df, n) == Idf(df, n)

\* The vector of each profile: its tokens with their weights.
TF_IDF(ps) ==
  LET DF == documentFrequency(ps)
  IN  [i \in DOMAIN ps |->
        [t \in Range(ps[i].tokens) |->
          TF(ps[i].tokens, t) * inverseDocumentFrequency(DF[t], Len(ps))]]

Dot(a, b) == MapThenSumSet(LAMBDA t : a[t] * b[t], DOMAIN a \cap DOMAIN b)

\* Mutant: the dot product is not divided by the norms.
DotOnly(a, b) == [dot |-> Dot(a, b), own |-> 1]

(* The cosine of the target's vector a and another one: a . b / (|a| |b|), *)
(* or 0 if a norm is 0.  Similarities are compared for one target only,    *)
(* and none is negative: own is the square of |b|, and |a| is left out.    *)
Cosine(a, b) ==
  IF Dot(a, a) > 0 /\ Dot(b, b) > 0 THEN [dot |-> Dot(a, b), own |-> Dot(b, b)]
                                    ELSE [dot |-> 0, own |-> 1]

Above(s, r) == s.dot * s.dot * r.own > r.dot * r.dot * s.own

\* Mutant: the target is compared with itself too.
ComparedWithAll(V, k) ==
  [i \in DOMAIN V |-> [at |-> i, score |-> Cosine(V[k], V[i])]]

\* The target is left out.
cosineSimilarity(V, k) ==
  LET others == SetToSeq(DOMAIN V \ {k})
  IN  [i \in DOMAIN others |->
        [at |-> others[i], score |-> Cosine(V[k], V[others[i]])]]

-----------------------------------------------------------------------------
(* The request.                                                            *)

RefuseType ==
  /\ pc = "idle" /\ type # "roommate"
  /\ pc' = "error"
  /\ UNCHANGED <<docs, toMove, request, profiles, answer, held>>

\* find({}) is sent.
Query ==
  /\ pc = "idle" /\ type = "roommate"
  /\ pc' = "scan"
  /\ held' = [u \in Users |-> {docs[u]}]
  /\ UNCHANGED <<docs, toMove, request, profiles, answer>>

Fetched == {profiles[i].id : i \in DOMAIN profiles}

IsReadable(d) == NotText \notin {d.address, d.budget}

\* The cursor delivers the document of u, as it is then.
FetchProfile(u) ==
  /\ pc = "scan" /\ u \notin Fetched /\ IsReadable(docs[u])
  /\ profiles' = Append(profiles, [id |-> u, tokens |-> TokensOf(docs[u])])
  /\ UNCHANGED <<docs, toMove, pc, request, answer, held>>

\* get_string throws on one document: no profile is returned at all.
FetchUnreadable(u) ==
  /\ pc = "scan" /\ u \notin Fetched /\ ~IsReadable(docs[u])
  /\ pc' = "error"
  /\ UNCHANGED <<docs, toMove, request, profiles, answer, held>>

\* The query or the cursor throws.
Fault ==
  /\ pc = "scan"
  /\ pc' = "error"
  /\ UNCHANGED <<docs, toMove, request, profiles, answer, held>>

\* Ids are compared as texts.
IsTarget(p) == canonical /\ p.id = target

TargetNotFound ==
  /\ pc = "scan" /\ Fetched = Users
  /\ \A i \in DOMAIN profiles : ~IsTarget(profiles[i])
  /\ pc' = "error"
  /\ UNCHANGED <<docs, toMove, request, profiles, answer, held>>

\* What std::sort may make of the similarities: it is not stable.
Sorted(s) ==
  {r \in SetToSeqs(Range(s)) :
     \A i, j \in DOMAIN r : i < j => ~Above(r[j].score, r[i].score)}

\* Mutant: idx <= min(...).
OneMore(s) == SubSeq(s, 1, Min({MaxResults + 1, Len(s)}))

Cut(s) == SubSeq(s, 1, Min({MaxResults, Len(s)}))

RankUsers ==
  /\ pc = "scan" /\ Fetched = Users
  /\ \E k \in DOMAIN profiles :
       /\ IsTarget(profiles[k])
       /\ \E s \in Sorted(cosineSimilarity(TF_IDF(profiles), k)) :
            answer' = [i \in DOMAIN Cut(s) |->
                        [id |-> profiles[s[i].at].id, score |-> s[i].score]]
  /\ pc' = "answered"
  /\ UNCHANGED <<docs, toMove, request, profiles, held>>

Next ==
  \/ \E u \in Users : ImportRow(u) \/ FetchProfile(u) \/ FetchUnreadable(u)
  \/ RefuseType \/ Query \/ Fault \/ TargetNotFound \/ RankUsers

Spec == Init /\ [][Next]_vars

-----------------------------------------------------------------------------
(* Properties.                                                             *)

Ids == {answer[i].id : i \in DOMAIN answer}

(* An answer is never short: it names as many different users other than   *)
(* the target as there are, up to the limit, although one field of one     *)
(* document can make the whole request fail and addresses change.          *)
NobodyDropped ==
  pc = "answered" =>
    /\ Cardinality(Ids) = Len(answer)
    /\ Len(answer) = Min({MaxResults, Cardinality(Users) - 1})
    /\ target \notin Ids

TokensRead(u) ==
  UNION {Range(profiles[i].tokens) : i \in {j \in DOMAIN profiles :
                                               profiles[j].id = u}}

Strangers == {u \in Users : TokensRead(u) \cap TokensRead(target) = {}}

(* Whoever shares a token with the target, however common, has a positive  *)
(* score, nobody else has one, and no such stranger takes the place of     *)
(* somebody who shares one.                                                *)
SharersFirst ==
  pc = "answered" =>
    /\ \A i \in DOMAIN answer : answer[i].score.dot = 0 <=> answer[i].id \in Strangers
    /\ \A i \in DOMAIN answer : answer[i].id \in Strangers =>
         Users \ ({target} \cup Strangers) \subseteq {answer[j].id : j \in 1..(i - 1)}

\* The same words in all the documents, however they are spelled and placed.
SameTokens(ds) ==
  /\ \A d \in ds : IsReadable(d) /\ TokensOf(d) # <<>>
  /\ \A d, e \in ds : \A t \in Tokens : TF(TokensOf(d), t) = TF(TokensOf(e), t)

(* A user with the very tokens of the target, all the time since the       *)
(* query, is outranked by nobody: those in front of it, or in its place in *)
(* a full answer, have the same score (a cosine is at most 1).             *)
TwinOnTop ==
  pc = "answered" =>
    \A u \in Users \ {target} : SameTokens(held[u] \cup held[target]) =>
      IF u \in Ids
        THEN \A i, j \in DOMAIN answer :
               answer[j].id = u => ~Above(answer[i].score, answer[j].score)
        ELSE /\ Len(answer) = MaxResults
             /\ \A i, j \in DOMAIN answer :
                  ~Above(answer[i].score, answer[j].score)

=============================================================================
