# Verification of RoomateFinder's backend

TLA+ models of the backend in `src/backend` and of the HTTP server it runs on,
TLC configurations that check them on small instances, and TLAPS proofs of what
matters most.

Line numbers are those of `backend/src/Matcher.cpp` unless another file is
named; `crow_all.h` is `backend/include/crow/crow_all.h`.

## 1. Inventory

| Component | State it keeps | Operations | Interacts with |
|---|---|---|---|
| Swipe handling (`Matcher.cpp:88-209, 352-378`) | `swipesMade`, `swipesReceived`, `matches`, `popularity` of user and room documents; one swipe document per source in `user_swipes` / `room_swipes` | `processSwipe` and its four helpers | called by the HTTP route; up to seven MongoDB calls per request; no lock, no transaction |
| Popularity arithmetic (`:19-64, 105-118`) | none | `normalizeBudget`, `calculatePopularity`, `normalizePopularity` | swipe handling stores the score, recommendations sort by it |
| Recommendations (`:213-300`) | none (reads) | `getRecommendations` | reads user or room documents that swipes change meanwhile |
| Likes (`:302-348`) | none (reads) | `getUserWhoLikedEntity` | reads swipe documents, then each user |
| Recommender (`Recommender.cpp`) | none | tokenise, TF-IDF, cosine similarity, `rankUsers` | reads all users while the import script writes |
| HTTP routes (`main.cpp`) | none | five routes | run on the server's worker threads |
| Database access (`DBManager.cpp`) | one client for all threads, built on first use | `getDbManager`, `fetchUserInfo`, `fetchUserData` | used by everything above |
| HTTP server threads (`crow_all.h:10987-11215`) | the pools of io_contexts, task timers and queue lengths; shutdown flags | `run`, the worker loop, `do_accept`, `stop`, `wait_for_start` | gives connections to workers |
| HTTP connections (`crow_all.h:9323-10075`) | socket, parser, `task_id_`, the worker's `task_timer` | start, read, parse, answer, deadline | one worker each; the handler of a route runs inside its read handler |
| Rest of Crow and asio (vendored) | trie of routes, middlewares | lookup of a route | an exception becomes a 500 (`crow_all.h:13781`) |
| Import script (`test/importData.py`) | none | overwrites address fields | same database |
| Frontend | a counter | template page | calls no route |

What each must do to be correct:

* Swipe handling: mutual likes become a match; only mutual swipes do; counters
  mean what their documentation says; a failed request leaves no more behind
  than the calls it made.
* Popularity: the normalised score is a number in its range for every budget
  text, and normalising never reorders.
* Recommendations: none of them the asker, in descending order, nobody left
  out who scored better all the time.
* Likes: every user whose like of the entity was answered; nobody without a swipe.
* Recommender: nobody dropped, whoever has the same words first, strangers last.
* Connections: answers in order, at most once; a silent client is closed; no
  connection forgotten; timer ids do not collide.
* Server: every accepted connection is started, by a worker that is set up and
  not busier than need be; workers survive exceptions; `run()` returns.

Hard behaviour: worker threads interleave between driver calls; a value is read,
changed in the program and written back (`:103-126`); the upsert (`:188-200`)
has no unique index behind it; two opposite likes race; any call may throw after
earlier ones took effect, and clients retry; `$inc` promotes int32 to int64;
`std::stod` accepts `nan` and `inf`; a read may end anywhere in a request, and a
deadline races with what arrives; ids of timer tasks start again; a signal or a
`stop()` comes at any moment of the start-up. `PROJECT.json` lists each of these
at its line, with the properties that would notice it going wrong.

The repository does not build as committed: `rankUsers` uses an undeclared `V`
and passes a vector of maps to `normalizeVector`, which takes one map;
`DBManager.cpp` uses undeclared names; `DBManager.h:23` declares a function with
no name; `CMakeLists.txt` lists a file that does not exist. `Matcher.cpp` and
Crow are complete in themselves. Where `Recommender` fills a gap it says so.

## 2. Modules

| Module | Models |
|---|---|
| `Popularity` | the arithmetic and the parsing of a budget |
| `MCPopularity` | two entities whose counters grow, every kind of budget; the properties that compare them |
| `Matcher` | POST `/api/swipe`: Crow workers running `processSwipe` against MongoDB; its properties |
| `SwipeLedger` | the abstract promise: swipes are recorded for good, credits need mutual swipes, answered mutual likes are credited |
| `Likes` | GET `/api/likes`: listers with a cursor beside the workers of `Matcher`, which it extends |
| `Recommendations` | GET `/api/recommend`: one request, while likes store scores and the import script moves users |
| `Recommender` | GET `/api/test_recommend`: one ranking of all users, while the import script writes |
| `Connections` | one worker's io_context, its connections and task timer, and the clients |
| `HttpSession` | the abstract promise of a connection to its client |
| `Server` | the threads of the server, from launch to the return of `run()` |
| `MCMatcher`, `MCLikes`, `MCRecommendations`, `MCRecommender`, `MCConnections`, `MCServer` | instances for TLC |
| `PopularityProofs`, `ScoreProofs`, `MatcherProofs`, `LikesProofs`, `RecommendationsProofs`, `RecommenderProofs`, `ConnectionProofs`, `ServerProofs` | the theorems |

### Matcher

`stat[e]` is the document of a user or room, `swipes[type][s]` the swipe
documents of a source, each the set of its `targetEntityId`. `pc`, `req` and
`snap` are a worker's position, request and the document it read in
`updateEntityPopularity`; they disappear when the request ends. `seen`,
`answered`, `credit` and `writes` are history variables that no guard reads,
except that without `Repeats` the clients do not send a swipe again.

One action is one driver call, in the order of the code:

| Action | Code |
|---|---|
| `Accept`, `Refuse` | the route; both ids parsed (`:363`), then the type compared (`:366`) |
| `UpsertMatched`, or `UpsertMissed` then `UpsertInsert` | the upsert (`:190`) |
| `IncSwipesMade` | `:202`; a dislike goes to `Reply` |
| `TargetNotFound`, `ReadTarget`, `TargetOutgrown` | `:95-104`: no document; read; `get_int32` throws |
| `SetTarget` | `:117-126` |
| `FindMutual` | `:170` |
| `IncSourceMatches`, `IncTargetMatches` | `:140`, `:144`; an id of no document makes either a no-op |
| `Reply` | the answer |
| `Fault` | the next call throws, its answer is lost, or (as a step of every worker) the process dies |

MongoDB is external and modelled from its use here: a call is atomic on one
document; an upsert that finds nothing inserts in a second step, since no index
makes `sourceEntityId` unique; which of several matching documents an
`update_one` changes is open. Entities start without counters, which the code
reads as zero. The one `mongocxx::client` is shared by all threads, which the
driver does not support; calls that throw because of it are `Fault`, other
outcomes of that race are outside this repository and not modelled. Signed
overflow of `currentReceived + 1` is taken to wrap.

### Likes

A lister is one more thread: `Open` sends the query, `NextDoc` takes the next
swipe document from the cursor, `ListUser`, `SkipUnknown` and `UserOutgrown` are
the three outcomes of the lookup of its source, `Exhausted` ends the loop,
`ListFault` is an exception in it. `LikesNext` interleaves these with every step
of `Matcher`. The cursor of MongoDB is no snapshot; it is modelled by what it
guarantees without an index: what matches when it is opened is delivered once,
what comes to match later may be.

### Recommendations

`FindAsker` reads the asker's place, `Query` opens the cursor, `SkipOwn`,
`SkipUnreadable` and `ScoreEntity` are the paths through the loop body, `Answer`
sorts and cuts. The cursor is modelled as above; a place can also stop matching.
`StoreScore` stands for `SetTarget` of `Matcher` (its other steps change nothing
that is read here) and `ImportRow` for one `update_one` of
`test/importData.py`. `held` and `there` are history: the scores of each entity
since the query, and the entities that match it since then. `std::sort` is not
stable: any descending permutation may come out. The asker's id is compared as
a text (`canonical`).

### Recommender

`FetchProfile` and `FetchUnreadable` are the loop of `fetchUserData`, whose one
`try` block is around all documents; `RankUsers` is the rest of `rankUsers`:
`documentFrequency`, `TF_IDF` and `cosineSimilarity` as folds over the profiles,
then sort and cut. Two things stand in for what does not compile: `V` is the
result of `TF_IDF`, and the norms of `cosineSimilarity` are Euclidean, as its
comment says; `normalizeVector`, which cannot be called as it is called, is left
out, and would not change a cosine. The logarithm is a parameter `Idf`, of which
only what the formula guarantees is assumed: positive, and decreasing in the
document frequency. A similarity is the quotient of two integers and is compared
by cross-multiplication, so no rounding is modelled.

### Connections

One io_context is run by one thread, so a handler runs to its end; `queue` holds
the handlers that are ready, and clients act between any two steps of a handler.
A request is three parts (a first piece of its URL, the rest, headers and body),
which is where the parser calls back; a read returns any number of the parts that
have arrived.

| Action | Code |
|---|---|
| `Accept`, `Start` | the accepted socket; `Connection::start` |
| `Readable`, `ReadNothing`, `ReadFails`, `ReadSome`, `ReadAborted` | completions of `async_read_some` |
| `FeedUrlPiece`, `FeedUrl`, `FeedGarbled` | callbacks of the parser; the lookup of a URL that a read cut in two |
| `HandleRequest`, `HandleUpgrade`, `HandleThrows`, `StreamBreaks` | the answer; `remote_endpoint` throws for a client that is gone, `asio::write` in the middle of an answer |
| `FinishError`, `FinishClose`, `FinishReadOn` | the three ends of the read handler |
| `TickExpires`, `Tick` | the task timer: expired tasks close their sockets, ids start again when none is left |
| `Begin`, `Continue`, `Leave` | the client, which may half-close or reset |

### Server

`run()`, each worker, the accepting thread, a signal and a caller of `stop()`
each have a position; a connection is here only accepted, started and ended
(`Connections` has what is in between). `Start` is the posted start of a
connection, `End` its end, also by an exception that leaves `io_context::run`;
`RunAgain` is the loop around that. `stop()` is called by another thread only
after `wait_for_server_start`, as its documentation asks.

### Popularity

`double` is exact: with budgets in steps of 500 every weight is a multiple of
1/1990, and scores are integers in that unit. Rounding and budgets between the
steps are abstracted away. `nan` and the infinities are kept, with the IEEE
comparison and the argument order of `std::min` and `std::max`, which is what
decides that a NaN is ranked 1.0 and not NaN.

## 3. Runs

| Run | Instance | Shows |
|---|---|---|
| `popularity` | 2 entities, counters 0..2, 12 budget fields | every pair of scores: in range, and a budget only breaks ties |
| `swipe_races` | 3 workers, 3 requests of 2 likes, repeats included, no fault | what survives every interleaving; mutual likes lead to a match |
| `swipe_faults` | 2 workers, 3 requests of 12, a room, an unknown and a malformed id, self-likes, dislikes, 1 fault, `IntMax = 1` | the same with failures and with counters that wrap or outgrow int32; how often a match is counted; what an outgrown counter freezes; rooms do not match; the refinement of `SwipeLedger` |
| `lost_update` | 2 workers, 2 requests | violated: `swipesReceived` counts the answered likes |
| `dislike_matches` | 1 worker, 2 requests | violated: a match needs two likes |
| `likes` | 2 workers, 3 requests of 4 swipes, 1 lister with 4 requests, 1 fault, `IntMax = 1` | a user whose like was answered before is in every list without error; none more often than it has documents |
| `dislike_listed` | 1 worker, 1 dislike, 1 lister | violated: a list has likers only |
| `recommendations` | 3 users, 3 rooms, answers of 2, 2 scores stored, every user moved | the ranking, and who may be missing from it |
| `recommender` | 4 users, 4 collections of 3 words, answers of 2, every address rewritten | the ranking by words |
| `connections` | 1 connection with 2 requests of 7 kinds; 2 connections with 3 parts of ordinary requests between them | the session of a client: what it is answered, which status may be wrong, when nothing more is read; the ids of the task timer; no connection is forgotten, a silent client is closed |
| `deadline_lost` | 2 connections, 2 requests of 2 kinds | violated: a connection that waits for its client has a deadline |
| `server` | 2 workers, 3 connections, 1 failing accept | start-up, distribution, exceptions and shutdown |

Bounds. `MaxRequests`, `MaxFaults`, `MaxCount` and `MaxFailures` bound the length
of a behaviour. Three swipes are what the races need: two of one source at once
leave it two swipe documents, and a third must find the right one. Two workers
suffice for each race between two requests; three let one worker be overtaken
twice between its read and its write. `IntMax = 1` brings the end of int32 within
three requests. `Limit = 2` (10 in the code) and `MaxResults = 2` (5) with three
candidates make the cut happen; two stored scores let one entity overtake another
twice during a scan. Two pipelined requests of two connections make a stale
task id meet a new one; `MaxAge = 1` lets a deadline expire at any tick. In
`connections` the constraint `Small` allows two connections at a time three parts
of ordinary requests between them, sent in any way, and everything else to a
connection that is alone: what one connection is answered does not depend on
another, and three parts are enough for either to hold a stale id. `SilentClosed`
without its premise is violated there, by the trace of `deadline_lost`. Three
connections on two workers force a choice between unequal queues. The workers
of `Matcher` are interchangeable and are a symmetry set where no liveness is
checked. The runs do not check deadlock: when the clients have sent what they may
and all is served, or the server has stopped, the system rests.

Fairness. `FairSpec` of `Matcher` asks weak fairness of each worker's next driver
call: a worker runs its handler to the end and waits for nothing but the answer
of a driver call. `Connections` asks it of the worker's thread (which takes
whatever is ready), of the timer and of the reactor's report of readable sockets;
`Server` of each thread and of each start that is posted to a worker (an
io_context's queue is first in, first out). Nothing is asked of clients, faults,
signals or of connections, which may stay open for ever. `LikesLeadToMatch`
excuses behaviours with faults. `SilentClosed` promises nothing to a connection
whose task another connection is about to cancel (`Threatened`): that one may
lose its deadline, as `deadline_lost` shows, and then threaten others itself.

What the violations mean:

* `ReceivedCountsLikes`: of two likes that read the target before either writes
  it, one is lost. `ReceivedBounds` is what remains true: the counter is never
  more than the number of updates, and at least one. It may even go down.
* `MatchNeedsMutualLike`: `handleEntitySwipe` does not store whether a swipe is
  a like; a dislike counts as half of a match.
* `DeadlineArmed`: a connection cancels a task id that has run already. Ids
  start again when no task is left, so the id may be that of another
  connection, which then has no deadline.
* `OnlyLikersListed`: a dislike writes the swipe document that the list of likers
  is made from. `AnsweredLikesListed` is what is sure: no liker is missing.

Also seen while modelling, and true of the code beside the properties that bound
it: two opposite likes that both record before either searches find each other,
and each counts the match on both sides, as does every repetition of a like, so
that `matches` is not the "number of matches" of `:47` (`CreditsBounded` is what
is sure); `normalizeBudget` does not clamp to the "0.0 to 1.0" of `:28`, an entity
without a budget is below it, and a budget of 249000 more than another's outweighs
half a swipe (`BudgetOnlyBreaksTies` holds up to 248500); of the requests in one
read only the last one's wish to close counts, so that an earlier "close" is lost
(`CloseHonoured`); a user who swipes on itself matches itself, twice; a
"room" swipe of one user on another credits its source only, which is why
`CreditsBalance` has a premise; an asker whose id is spelled with capitals is
recommended to itself, and by `rankUsers` not found; a list of likes that met one
user it cannot read ends there; one field that is no string fails every
`/api/test_recommend`; a queue length is never decremented when a connection ends,
so the lengths balance the connections ever accepted and not those that are open.

Five properties pin down what is surprising but certain: a match is counted for a
user again and again, but no more often than the two have swiped
(`CreditsBounded`); a like of a room becomes no match unless a client sends a room
as source (`RoomsNeverMatch`); once a counter has outgrown int32 and nobody holds
what it was before, every like of the entity fails and its score is frozen
(`OutgrownStaysFrozen`); a good request is refused with 404 where a read ended
inside its URL, and nowhere else (`WrongOnlyIfCut`); racing upserts leave a source
several swipe documents, at most one per worker (`DuplicateDocsBounded`).

## 4. Proofs

For every value of the constants (any users, rooms, requests, workers,
connections, any bound on requests and faults), from the named assumptions of
the modules:

* `TypeCorrect`. Inductive with two facts: a busy worker holds a request that
  was not refused, and it writes a target only after it found it.
* `ReceivedInBounds`, `ScoresExplained`. `SnapWithin` ties what a worker holds
  between its read and its write to what is stored: no counter it holds is above
  the stored one, which only `$inc` moves. With it both are inductive, however
  many writes are lost.
* `DuplicateDocsAlwaysBounded`, `RecordedAlwaysCounted`, `CreditsAlwaysBalance`
  count workers in a state; a step moves one worker into or out of such a set
  (`OneMoves`). For the credits, `Settled` is the credit without the workers
  between the two `$inc`: it changes for both users at once, or by a fault.
* `CreditsAlwaysBounded` counts them too: the credits of a user for another, with
  the workers that have counted a swipe of the pair and may yet credit it
  (`AsSource`, `AsTarget`), are paid for by the `swipesMade` of both.
* `MutualLikesMatch`, `MatchesAreMutual`. `MutualLikeMatched` speaks of answered
  likes and is not inductive. `IInv` follows a request through the handler: past
  the upsert, its swipe is in the database (`SwipeRecorded`); at the two `$inc`,
  the opposite swipe was found (`CreditorsFoundMutual`); at the second, the first
  took effect (`SourceCredited`). Documents never lose a target
  (`RecordedGrows`). Hence of two opposite likes the one processed last finds the
  other and credits both sides (`LastOneMatches`). Every fault leaves `IInv`
  alone, since a request that dies is never answered.
* `LikesOfRoomsNeverMatch`, `OutgrownFrozenForGood`. While only users are sources,
  no swipe of a room is recorded (`SourcesSeen`), so no like of a room finds one and
  nobody is credited with it (`MatchesCredited`). The second is an action property:
  a worker that could still write has read the counters before they outgrew
  int32, and one that reads them after that gives up.
* `ImplementsLedger`. The two halves of the upsert are `Record`, each `$inc` of
  matches is `Credit`, `Reply` is `Answer`; every other step stutters.
* `LikesTypeCorrect`, `AnsweredAreListed`, `ListsMatchRecords`. `LInv` adds to
  `IInv` an invariant of each lister: the cursor has to deliver a document of
  each swipe that was answered (`OwedDue`, from `AnsweredRecorded`), the source of
  a delivered one is listed or being looked up (`VisitedListed`), a delivered
  document still holds the entity (`VisitedMatch`, since documents only grow), and
  entries do not outnumber delivered documents (`VisitsCover`), which inject into
  those that hold the entity.
* `RecommendationsTyped`, `AnswersAreRankings`, `BestAreListed`, for any
  collections, scores and `Limit`, from `RecommendationsAssumption`. `IInv` says
  what `scored` is while the cursor runs: one pair for each readable document
  delivered (`Complete`, `Distinct`), with a score it had (`Found`,
  `CurrentHeld`). The sorted pairs are a permutation of these and the answer a
  prefix (`AnswerFrom`), so whoever is missing stands behind a full answer.
  After that the histories only grow or shrink in the harmless direction
  (`Steady`). That no rank is a NaN (`RankIsInRange`) makes the comparator an
  order.
* `RankIsInRange`, `RankIsMonotone` and three facts about every two entities of
  `MCPopularity` (that ranking keeps the order of the scores is only proved). They
  are linear arithmetic by cases on NaN, the infinities and integers (`Clamp`).
* `ConnectionsTyped`, `TasksAlwaysOwned`, `OpenAlwaysServed`,
  `EveryRequestAnswered`, `CloseAlwaysHonoured`, `WrongAnswersWereCut`,
  `ImplementsSession`. The invariant says where a
  connection is: waiting to be started exactly once (`StartOnce`), in one place
  (`Placed`), with no task before it is started (`Fresh`), and with as many
  answers as requests parsed (`Answering`); `TasksOwned` is inductive because an
  id above `highest_id` is free and ids start again only when no task is left.
  `Honouring` adds that after a request to stop the handler is still running and
  will not read on; `CutInv`, that a wrong status is the last of its connection,
  whose parser is then in an error, so that nothing is parsed or read any more.
* `ServerTyped`, `QueuesBalanced`, `WorkersAlwaysStay`, `TimersAlive`. A queue's
  length counts the connections its worker was handed (`LengthsCount`).
  The invariant orders the start-up (`SetUpCounted`, `AllUp`): nothing is accepted
  before every timer is set up; a timer that ticks keeps its io_context busy until
  it is stopped (`TimerRuns`, `StopSaid`).
* `RecommenderTyped`, `NobodyEverDropped`, `SharersAlwaysFirst`,
  `TwinsAlwaysOnTop`, `RarerAlwaysWeighsMore`, for any users, words, collections,
  limit and weights that fall with the number of holders, from
  `RecommenderAssumption`. `IInv` says that there is one profile of each user
  fetched (`Distinct`), with the tokens of a document that the user had since the
  query (`ReadFromHeld`, from `CurrentHeld`), and that the answer is a prefix of
  the others as sorted (`Answered`); none of the four properties of an answer is
  inductive, each is a fact about that ranking. They rest on what the loops
  compute for every input: `documentFrequency` counts holders
  (`FrequencyCounts`), `Dot` is 0 only if no token is shared (`DotPositive`), and
  a cosine is at most 1 (`CosineBound`). A fold over a set is defined by CHOOSE;
  `TotalsExist` shows that the recursion has a solution, and a fact about its
  values is shown on a smallest set of which it is false (`LeastElement`,
  `MinimalSubset`), which takes the place of an induction. The inequality of
  Cauchy and Schwarz is carried through the sums one product at a time
  (`OneMoreProduct`, `SumsOfProducts`).

Only model-checked: liveness (`LikesLeadToMatch`, `SilentClosed`,
`AcceptedStarts`, `StopReturns`), which the prover does not reach. Every
invariant, and every action property and refinement without fairness, that a
passing run checks is also proved. Only proved: `RankAlwaysKeepsOrder` and
`RarerAlwaysWeighsMore`.

The prover does not know the logarithm: that `1 + ln((n + 1) / (df + 1))` is
positive and falls with `df` is an assumption on `Idf`. That doubles round is
outside the models and so outside the proofs.

## 5. Not modelled

* The shared `mongocxx::client` beyond calls that throw: its data race is inside
  the driver.
* `getDbManager`: two function-local statics, whose first use by several threads
  the language makes safe. `fetchUserInfo`: nothing calls it.
* Of Crow: `Expect: 100-continue`, streamed answers that close the connection
  themselves, handlers that answer later, WebSocket, middlewares, multipart, templates and the tick function,
  which the program does not use; `stop()` before the server has started, which
  its documentation excludes; the trie of routes, which is fixed once the server
  runs and is here a relation between a request and its kind.
* asio below `io_context`, the grammar of HTTP, JSON and BSON, formatting of
  answers and logs.
* The frontend: a template that calls no route.

Most of the repository's C++ (over 600 of its files) is the vendored source of
asio, which the program uses through Crow: an `io_context`, sockets and a
timer, whose promises `Connections` and `Server` take as given. The models cover
the program's own state-changing code and the part of Crow that schedules it.
