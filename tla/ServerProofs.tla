---------------------------- MODULE ServerProofs ----------------------------
(***************************************************************************)
(* Theorems about Server, for any number of workers, connections and       *)
(* failing accepts.                                                        *)
(***************************************************************************)
EXTENDS Server, FiniteSetTheorems, WellFoundedInduction, TLAPS

-----------------------------------------------------------------------------
(* The worker that do_accept picks.                                         *)

\* A nonempty set of natural numbers has a least element.
LEMMA LeastElement ==
  ASSUME NEW S, S \subseteq Nat, S # {}
  PROVE  \E x \in S : \A y \in S : x <= y
<1>1. PICK x \in S : \A y \in S : ~(<<y, x>> \in OpToRel(<, Nat))
  BY WFMin, NatLessThanWellFounded
<1>2. ASSUME NEW y \in S
      PROVE  x <= y
  <2>1. x \in Nat /\ y \in Nat
    OBVIOUS
  <2>2. <<y, x>> \in Nat \X Nat
    BY <2>1
  <2>3. ~(y < x)
    BY <1>1, <2>2 DEF OpToRel
  <2>4. QED  BY <2>1, <2>3
<1>3. QED  BY <1>2

\* pick_io_context_idx returns a worker whose queue is a shortest one.
LEMMA PickShortest ==
  ASSUME qlen \in [Workers -> Nat]
  PROVE  Pick \in Workers /\ \A v \in Workers : qlen[Pick] <= qlen[v]
<1> DEFINE lengths == {qlen[w] : w \in Workers}
<1>1. 1 \in Workers /\ Workers \subseteq Nat
  BY ServerAssumption DEF Workers
<1>2. lengths \subseteq Nat /\ lengths # {}
  BY <1>1
<1>3. PICK m \in lengths : \A n \in lengths : m <= n
  <2> HIDE DEF lengths
  <2> QED  BY <1>2, LeastElement
<1> DEFINE shortest == {w \in Workers : qlen[w] = m}
<1>4. shortest \subseteq Nat /\ shortest # {}
  BY <1>1, <1>3
<1>5. PICK w \in shortest : \A v \in shortest : w <= v
  <2> HIDE DEF shortest
  <2> QED  BY <1>4, LeastElement
<1>6. \A v \in Workers : qlen[w] < qlen[v] \/ (qlen[w] = qlen[v] /\ w <= v)
  <2> SUFFICES ASSUME NEW v \in Workers
               PROVE  qlen[w] < qlen[v] \/ (qlen[w] = qlen[v] /\ w <= v)
    OBVIOUS
  <2>1. qlen[w] = m /\ m <= qlen[v] /\ m \in Nat /\ qlen[v] \in Nat
    BY <1>3, <1>5
  <2>2. QED  BY <1>5, <2>1
<1>7. /\ Pick \in Workers
      /\ \A v \in Workers : qlen[Pick] < qlen[v] \/ (qlen[Pick] = qlen[v] /\ Pick <= v)
  BY <1>5, <1>6 DEF Pick
<1>8. QED  BY <1>7

-----------------------------------------------------------------------------
(* The inductive invariant.                                                 *)

\* The queue of a worker without the connection it may be given next.
Base(w) == IF pending = w THEN qlen[w] - 1 ELSE qlen[w]

IsUp(w) == worker[w] \in {"running", "exited"}

\* init_count is what it counts.
SetUpCounted == init_count = Cardinality({w \in Workers : IsUp(w)})

\* Until all workers are set up, nothing is accepted and nobody can stop.
Launching ==
  run_pc = "launch" =>
    /\ do_accept = "out" /\ pending = NoWorker /\ accept_thread = "none"
    /\ ~server_started /\ stopper = 0 /\ ~shutting_down
    /\ \A w \in Workers : qlen[w] = 0
    /\ \A c \in Conns : owner[c] = NoWorker

AllUp == run_pc # "launch" => \A w \in Workers : IsUp(w)

TimerRuns == \A w \in Workers : armed[w] <=> worker[w] = "running"

\* Only stop() stops an io_context.
StopSaid ==
  /\ \A w \in Workers : stopped[w] => shutting_down
  /\ \A w \in Workers : worker[w] = "exited" => stopped[w]
  /\ stopper > 0 => shutting_down

\* do_accept runs with no accept under way, and not after a signal.
Accepts ==
  /\ do_accept # "out" => pending = NoWorker
  /\ shutting_down /\ stopper = 0 => do_accept = "out" /\ main_stopped
  /\ accept_thread # "none" => run_pc \notin {"launch", "accept"}
  /\ server_started => accept_thread \in {"running", "exited"}

\* The worker that may be given the next connection had a shortest queue.
Shared ==
  /\ \A v, w \in Workers : Base(v) <= Base(w) + 1
  /\ pending \in Workers => /\ qlen[pending] >= 1
                            /\ \A w \in Workers : Base(pending) <= Base(w)

\* The length of a queue counts the connections that its worker was handed.
LengthsCount ==
  \A w \in Workers :
     qlen[w] = Cardinality({c \in Conns : owner[c] = w}) + (IF pending = w THEN 1 ELSE 0)

IInv == /\ TypeOK /\ SetUpCounted /\ Launching /\ AllUp /\ TimerRuns
        /\ StopSaid /\ Accepts /\ Shared /\ LengthsCount

-----------------------------------------------------------------------------
(* Each action preserves the types.                                         *)

LEMMA TypeStep ==
  ASSUME TypeOK, Shared, [Next]_vars
  PROVE  TypeOK'
<1> USE ServerAssumption
<1>0. CASE UNCHANGED vars
  BY <1>0 DEF TypeOK, vars, workers, accepting, stopping, threads
<1>1. ASSUME NEW w \in Workers, Launch(w)
      PROVE  TypeOK'
  BY <1>1 DEF TypeOK, Launch, accepting, stopping, threads
<1>2. ASSUME NEW w \in Workers, SetUp(w)
      PROVE  TypeOK'
  BY <1>2 DEF TypeOK, SetUp, stopping, threads
<1>3. ASSUME NEW w \in Workers, NEW c \in Conns, Start(w, c)
      PROVE  TypeOK'
  BY <1>3 DEF TypeOK, Start, Executes, accepting, stopping, threads
<1>4. ASSUME NEW w \in Workers, NEW c \in Conns, NEW throws \in BOOLEAN, End(w, c, throws)
      PROVE  TypeOK'
  BY <1>4 DEF TypeOK, End, accepting, stopping, threads
<1>5. ASSUME NEW w \in Workers, Tick(w)
      PROVE  TypeOK'
  BY <1>5 DEF TypeOK, Tick, Executes, accepting, stopping, threads
<1>6. ASSUME NEW w \in Workers, RunAgain(w) \/ Exit(w)
      PROVE  TypeOK'
  <2>1. CASE RunAgain(w)
    BY <2>1 DEF TypeOK, RunAgain, Returns, accepting, threads
  <2>2. CASE Exit(w)
    BY <2>2 DEF TypeOK, Exit, Returns, accepting, threads
  <2>3. QED  BY <1>6, <2>1, <2>2
<1>7. CASE Initialized \/ CheckShutdown
  BY <1>7 DEF TypeOK, Workers, Initialized, CheckShutdown, workers, stopping, threads
<1>8. CASE Create
  <2>1. Pick \in Workers
    BY PickShortest DEF TypeOK
  <2>2. QED  BY <1>8, <2>1 DEF TypeOK, Create, workers, stopping, threads
<1>9. ASSUME NEW c \in Conns, Accepted(c)
      PROVE  TypeOK'
  BY <1>9 DEF TypeOK, Accepted, Accepting, stopping, threads
<1>10. CASE AcceptFails
  <2>1. pending \in Workers /\ qlen[pending] - 1 \in Nat
    BY <1>10 DEF TypeOK, AcceptFails, Shared
  <2>2. QED  BY <1>10, <2>1 DEF TypeOK, AcceptFails, Accepting, workers, stopping, threads
<1>11. CASE LaunchAccept \/ NotifyStart \/ AcceptExits \/ Join \/ Return
  <2>1. CASE LaunchAccept \/ NotifyStart
    BY <2>1 DEF TypeOK, LaunchAccept, NotifyStart, workers, accepting, stopping
  <2>2. CASE AcceptExits
    BY <2>2 DEF TypeOK, AcceptExits, workers, accepting, stopping
  <2>3. CASE Join \/ Return
    BY <2>3 DEF TypeOK, Join, Return, workers, accepting, stopping
  <2>4. QED  BY <1>11, <2>1, <2>2, <2>3
<1>12. CASE Raise \/ SignalStop
  BY <1>12 DEF TypeOK, Raise, SignalStop, workers, accepting, threads
<1>13. CASE StopCalled \/ StopWorker \/ StopMain
  <2>1. CASE StopCalled
    BY <2>1 DEF TypeOK, StopCalled, workers, accepting, threads
  <2>2. CASE StopWorker
    <3>1. stopper + 1 \in 0..(N + 2)
      BY <2>2 DEF StopWorker, Workers
    <3>2. QED  BY <2>2, <3>1 DEF TypeOK, StopWorker, workers, accepting, threads
  <2>3. CASE StopMain
    BY <2>3 DEF TypeOK, StopMain, workers, accepting, threads
  <2>4. QED  BY <1>13, <2>1, <2>2, <2>3
<1>14. QED
  BY <1>0, <1>1, <1>2, <1>3, <1>4, <1>5, <1>6, <1>7, <1>8, <1>9, <1>10, <1>11, <1>12,
     <1>13 DEF Next, RunThread, AcceptThread, WorkerLoop, Stop

-----------------------------------------------------------------------------
(* Which actions change what.                                               *)

LEMMA Frames ==
  ASSUME [Next]_vars
  PROVE  /\ \/ UNCHANGED <<init_count, worker, armed>>
            \/ \E w \in Workers : Launch(w) \/ SetUp(w) \/ Tick(w) \/ Exit(w)
         /\ UNCHANGED run_pc \/ Initialized \/ LaunchAccept \/ Join \/ Return
         /\ \/ UNCHANGED <<owner, qlen, pending>>
            \/ (\E w \in Workers : SetUp(w)) \/ Create \/ AcceptFails
            \/ \E c \in Conns : Accepted(c)
         /\ \/ UNCHANGED do_accept
            \/ Initialized \/ CheckShutdown \/ Create \/ AcceptFails
            \/ \E c \in Conns : Accepted(c)
         /\ \/ UNCHANGED <<stopped, main_stopped, shutting_down, stopper>>
            \/ (\E w \in Workers : RunAgain(w) \/ Exit(w))
            \/ SignalStop \/ StopCalled \/ StopWorker \/ StopMain
         /\ \/ UNCHANGED <<accept_thread, server_started>>
            \/ LaunchAccept \/ NotifyStart \/ AcceptExits
<1> USE DEF workers, accepting, stopping, threads
<1>0. CASE UNCHANGED vars
  BY <1>0 DEF vars
<1>1. CASE \E w \in Workers : Launch(w) \/ SetUp(w) \/ Tick(w)
  BY <1>1 DEF Launch, SetUp, Tick
<1>2. CASE \E w \in Workers : RunAgain(w) \/ Exit(w)
  BY <1>2 DEF RunAgain, Exit, Returns
<1>3. CASE \E w \in Workers, c \in Conns :
             Start(w, c) \/ \E throws \in BOOLEAN : End(w, c, throws)
  BY <1>3 DEF Start, End
<1>4. CASE Initialized \/ CheckShutdown \/ Create \/ AcceptFails
  BY <1>4 DEF Initialized, CheckShutdown, Create, AcceptFails
<1>5. CASE \E c \in Conns : Accepted(c)
  BY <1>5 DEF Accepted
<1>6. CASE LaunchAccept \/ NotifyStart \/ AcceptExits \/ Join \/ Return
  BY <1>6 DEF LaunchAccept, NotifyStart, AcceptExits, Join, Return
<1>7. CASE Raise \/ SignalStop \/ StopCalled \/ StopWorker \/ StopMain
  BY <1>7 DEF Raise, SignalStop, StopCalled, StopWorker, StopMain
<1>8. QED
  BY <1>0, <1>1, <1>2, <1>3, <1>4, <1>5, <1>6, <1>7
  DEF Next, RunThread, AcceptThread, WorkerLoop, Stop

\* Before it is called, stop() can only be called; io_context_ it stops at the end.
LEMMA StopFrames ==
  ASSUME TypeOK, [Next]_vars, stopper' = 0, ~SignalStop
  PROVE  stopper = 0 /\ UNCHANGED <<main_stopped, shutting_down>>
<1>1. ~StopCalled /\ ~StopWorker /\ ~StopMain
  <2>1. stopper \in Nat /\ N \in Nat
    BY ServerAssumption DEF TypeOK
  <2>2. QED  BY <2>1 DEF StopCalled, StopWorker, StopMain
<1>2. CASE UNCHANGED <<stopped, main_stopped, shutting_down, stopper>>
  BY <1>2
<1>3. CASE \E w \in Workers : RunAgain(w) \/ Exit(w)
  BY <1>3 DEF RunAgain, Exit, Returns
<1>4. QED  BY <1>1, <1>2, <1>3, Frames

-----------------------------------------------------------------------------
(* run() goes on only when every worker is set up.                          *)

LEMMA CountStep ==
  ASSUME TypeOK, SetUpCounted, [Next]_vars
  PROVE  SetUpCounted'
<1> DEFINE up == {w \in Workers : IsUp(w)}
<1>1. CASE \E w \in Workers : SetUp(w)
  <2>1. PICK w \in Workers : SetUp(w)
    BY <1>1
  <2>2. w \notin up /\ up' = up \cup {w}
    BY <2>1 DEF TypeOK, SetUp, IsUp
  <2>3. IsFiniteSet(up)
    <3>1. IsFiniteSet(Workers)
      BY FS_Interval, ServerAssumption DEF Workers
    <3>2. up \in SUBSET Workers
      OBVIOUS
    <3>3. QED  BY <3>1, <3>2, FS_Subset
  <2>4. Cardinality(up') = Cardinality(up) + 1
    <3> HIDE DEF up
    <3> QED  BY <2>2, <2>3, FS_AddElement
  <2>5. init_count' = init_count + 1
    BY <2>1 DEF SetUp
  <2>6. QED  BY <2>4, <2>5 DEF SetUpCounted
<1>2. CASE ~\E w \in Workers : SetUp(w)
  <2>1. UNCHANGED <<init_count, up>>
    <3>1. CASE UNCHANGED <<init_count, worker, armed>>
      BY <3>1 DEF IsUp
    <3>2. CASE \E w \in Workers : Launch(w) \/ Tick(w) \/ Exit(w)
      BY <3>2 DEF TypeOK, Launch, Tick, Exit, Returns, IsUp
    <3>3. QED  BY <1>2, <3>1, <3>2, Frames
  <2>2. QED  BY <2>1 DEF SetUpCounted
<1>3. QED  BY <1>1, <1>2

LEMMA AllCounted ==
  ASSUME SetUpCounted, init_count = N
  PROVE  \A w \in Workers : IsUp(w)
<1> DEFINE up == {w \in Workers : IsUp(w)}
<1>1. IsFiniteSet(Workers) /\ Cardinality(Workers) = N
  BY FS_Interval, ServerAssumption DEF Workers
<1>2. up \in SUBSET Workers /\ Cardinality(up) = Cardinality(Workers)
  BY <1>1 DEF SetUpCounted
<1>3. up = Workers
  <2> HIDE DEF up
  <2> QED  BY <1>1, <1>2, FS_Subset
<1>4. QED  BY <1>3

LEMMA PhaseStep ==
  ASSUME TypeOK, SetUpCounted, Launching, AllUp, TimerRuns, Accepts, [Next]_vars
  PROVE  AllUp' /\ TimerRuns'
<1>1. \A w \in Workers : IsUp(w) => IsUp(w)'
  <2>1. CASE UNCHANGED <<init_count, worker, armed>>
    BY <2>1 DEF IsUp
  <2>2. CASE \E w \in Workers : Launch(w) \/ SetUp(w) \/ Tick(w) \/ Exit(w)
    BY <2>2 DEF TypeOK, Launch, SetUp, Tick, Exit, IsUp
  <2>3. QED  BY <2>1, <2>2, Frames
<1>2. run_pc' # "launch" => run_pc # "launch" \/ init_count = N
  BY Frames DEF Initialized, LaunchAccept, Join, Return
<1>3. AllUp'
  BY <1>1, <1>2, AllCounted DEF AllUp
<1>4. TimerRuns'
  <2>1. CASE UNCHANGED <<init_count, worker, armed>>
    BY <2>1 DEF TimerRuns
  <2>2. CASE \E w \in Workers : Launch(w) \/ SetUp(w)
    BY <2>2 DEF TypeOK, TimerRuns, Launch, SetUp
  <2>3. CASE \E w \in Workers : Tick(w) \/ Exit(w)
    BY <2>3 DEF TypeOK, TimerRuns, Tick, Running, Exit
  <2>4. QED  BY <2>1, <2>2, <2>3, Frames
<1>5. QED  BY <1>3, <1>4

LEMMA LaunchingStep ==
  ASSUME TypeOK, Launching, Accepts, [Next]_vars
  PROVE  Launching'
<1> SUFFICES ASSUME run_pc' = "launch"
             PROVE  Launching'
  BY DEF Launching
<1>1. run_pc = "launch"
  BY Frames DEF Initialized, LaunchAccept, Join, Return
<1>2. do_accept' = "out" /\ pending' = NoWorker /\ \A c \in Conns : owner'[c] = NoWorker
  BY <1>1, Frames DEF Launching, SetUp, Initialized, CheckShutdown, Create, AcceptFails,
     Accepted, Accepting
<1>3. accept_thread' = "none" /\ ~server_started'
  BY <1>1, Frames DEF Launching, LaunchAccept, NotifyStart, AcceptExits
<1>4. stopper' = 0 /\ ~shutting_down'
  <2>1. ~SignalStop /\ ~StopCalled /\ ~StopWorker /\ ~StopMain
    BY <1>1, ServerAssumption DEF Launching, SignalStop, Accepting, StopCalled, StopWorker,
       Workers, StopMain
  <2>2. UNCHANGED stopper
    BY <2>1, Frames DEF RunAgain, Exit, Returns
  <2>3. QED  BY <1>1, <2>1, <2>2, StopFrames DEF Launching
<1>5. \A w \in Workers : qlen'[w] = 0
  BY <1>1, Frames DEF TypeOK, Launching, SetUp, Create, AcceptFails, Accepted, Accepting
<1>6. QED  BY <1>2, <1>3, <1>4, <1>5 DEF Launching

-----------------------------------------------------------------------------
(* Who stops, and when do_accept runs.                                      *)

LEMMA StopStep ==
  ASSUME TypeOK, TimerRuns, StopSaid, [Next]_vars
  PROVE  StopSaid'
<1>1. CASE UNCHANGED <<stopped, main_stopped, shutting_down, stopper>>
  <2>1. \A w \in Workers : worker'[w] = "exited" => worker[w] = "exited" \/ stopped'[w]
    BY Frames DEF TypeOK, Launch, SetUp, Tick, Exit, Returns
  <2>2. QED  BY <1>1, <2>1 DEF StopSaid
<1>2. CASE \E w \in Workers : RunAgain(w) \/ Exit(w)
  <2>1. PICK w \in Workers : RunAgain(w) \/ Exit(w)
    BY <1>2
  <2>2. stopped[w] /\ UNCHANGED <<stopped, shutting_down, stopper>>
    <3>1. worker[w] = "running" /\ Returns(w)
      BY <2>1 DEF RunAgain, Exit, Returns
    <3>2. stopped[w]
      BY <3>1 DEF TimerRuns, Returns, Work
    <3>3. stopped' = stopped
      BY <3>1, <3>2 DEF TypeOK, Returns
    <3>4. QED  BY <3>1, <3>2, <3>3 DEF Returns
  <2>3. \A v \in Workers : worker'[v] = "exited" => worker[v] = "exited" \/ v = w
    BY <2>1 DEF TypeOK, RunAgain, Exit
  <2>4. QED  BY <2>2, <2>3 DEF StopSaid
<1>3. CASE SignalStop
  BY <1>3 DEF StopSaid, SignalStop, workers
<1>4. CASE StopCalled \/ StopMain
  BY <1>4, ServerAssumption DEF StopSaid, StopCalled, StopMain, workers
<1>5. CASE StopWorker
  BY <1>5 DEF TypeOK, StopSaid, StopWorker, Workers, workers
<1>6. QED  BY <1>1, <1>2, <1>3, <1>4, <1>5, Frames

LEMMA AcceptsStep ==
  ASSUME TypeOK, Launching, StopSaid, Accepts, [Next]_vars
  PROVE  Accepts'
<1>1. do_accept' # "out" => pending' = NoWorker
  <2>1. CASE UNCHANGED do_accept
    BY <2>1, Frames DEF Accepts, SetUp, Create, AcceptFails, Accepted
  <2>2. CASE Initialized \/ CheckShutdown \/ Create
    BY <2>2 DEF Accepts, Launching, Initialized, CheckShutdown, Create
  <2>3. CASE AcceptFails \/ \E c \in Conns : Accepted(c)
    BY <2>3 DEF AcceptFails, Accepted
  <2>4. QED  BY <2>1, <2>2, <2>3, Frames
<1>2. accept_thread' # "none" => run_pc' \notin {"launch", "accept"}
  <2>1. run_pc' = run_pc \/ run_pc' \in {"join", "futures", "returned"}
          \/ (run_pc = "launch" /\ UNCHANGED accept_thread)
    BY Frames DEF Initialized, LaunchAccept, Join, Return
  <2>2. accept_thread' = accept_thread \/ accept_thread # "none" \/ run_pc' = "join"
    BY Frames DEF LaunchAccept, NotifyStart, AcceptExits
  <2>3. QED  BY <2>1, <2>2 DEF Accepts, Launching
<1>3. server_started' => accept_thread' \in {"running", "exited"}
  BY Frames DEF Accepts, Launching, LaunchAccept, NotifyStart, AcceptExits
<1>4. ASSUME shutting_down', stopper' = 0
      PROVE  do_accept' = "out" /\ main_stopped'
  <2>1. CASE SignalStop
    BY <2>1 DEF SignalStop, Accepting, accepting
  <2>2. CASE ~SignalStop
    <3>1. shutting_down /\ stopper = 0 /\ main_stopped' = main_stopped
      BY <1>4, <2>2, StopFrames
    <3>2. do_accept = "out" /\ main_stopped
      BY <3>1 DEF Accepts
    <3>3. do_accept' = "out"
      BY <3>1, <3>2, Frames
      DEF Launching, Initialized, CheckShutdown, Create, AcceptFails, Accepted, Accepting
    <3>4. QED  BY <3>1, <3>2, <3>3
  <2>3. QED  BY <2>1, <2>2
<1>5. QED  BY <1>1, <1>2, <1>3, <1>4 DEF Accepts

-----------------------------------------------------------------------------
(* The shares of the workers.                                               *)

\* A worker that is not set up yet has an empty queue.
LEMMA SetUpEmpty ==
  ASSUME TypeOK, Launching, AllUp, NEW w \in Workers, SetUp(w)
  PROVE  UNCHANGED qlen
<1>1. run_pc = "launch"
  BY DEF AllUp, IsUp, SetUp
<1>2. qlen[w] = 0 /\ qlen' = [qlen EXCEPT ![w] = 0]
  BY <1>1 DEF Launching, SetUp
<1>3. QED  BY <1>2 DEF TypeOK

LEMMA SharedStep ==
  ASSUME TypeOK, Launching, AllUp, Accepts, Shared, [Next]_vars
  PROVE  Shared'
<1> USE ServerAssumption
<1>0. \A w \in Workers : qlen[w] \in Nat
  BY DEF TypeOK
<1>1. CASE UNCHANGED <<qlen, pending>>
  BY <1>1 DEF Shared, Base
<1>2. CASE \E w \in Workers : SetUp(w)
  <2>1. UNCHANGED <<qlen, pending>>
    BY <1>2, SetUpEmpty DEF SetUp
  <2>2. QED  BY <1>1, <2>1
<1>3. CASE Create
  <2>1. pending = NoWorker /\ Pick \in Workers /\ \A v \in Workers : qlen[Pick] <= qlen[v]
    BY <1>3, PickShortest DEF TypeOK, Accepts, Create
  <2>2. pending' = Pick /\ qlen'[Pick] = qlen[Pick] + 1
        /\ \A v \in Workers : v # Pick => qlen'[v] = qlen[v]
    BY <1>3, <2>1 DEF TypeOK, Create
  <2>3. \A v \in Workers : Base(v) = qlen[v]
    BY <2>1 DEF Base
  <2>4. \A v \in Workers : Base(v)' = qlen[v]
    BY <1>0, <2>1, <2>2 DEF Base
  <2>5. qlen'[Pick] >= 1
    BY <1>0, <2>1, <2>2
  <2>6. QED  BY <2>1, <2>2, <2>3, <2>4, <2>5 DEF Shared
<1>4. CASE AcceptFails
  <2>1. pending \in Workers /\ pending' = NoWorker
    BY <1>4 DEF TypeOK, AcceptFails
  <2>2. \A v \in Workers : Base(v)' = Base(v)
    BY <1>0, <1>4, <2>1 DEF TypeOK, AcceptFails, Base
  <2>3. QED  BY <2>1, <2>2 DEF Shared
<1>5. CASE \E c \in Conns : Accepted(c)
  <2>1. pending \in Workers /\ pending' = NoWorker /\ UNCHANGED qlen
    BY <1>5 DEF TypeOK, Accepted
  <2>2. /\ Base(pending) \in Nat /\ \A v \in Workers : Base(v) \in Int
        /\ \A v \in Workers : Base(v)' = IF v = pending THEN Base(v) + 1 ELSE Base(v)
    BY <1>0, <2>1 DEF Base, Shared
  <2>3. QED  BY <2>1, <2>2 DEF Shared
<1>6. QED  BY <1>1, <1>2, <1>3, <1>4, <1>5, Frames

LEMMA LengthsStep ==
  ASSUME TypeOK, Launching, AllUp, Accepts, LengthsCount, [Next]_vars
  PROVE  LengthsCount'
<1> USE ServerAssumption
<1> DEFINE Given(w) == {c \in Conns : owner[c] = w}
<1>0. \A w \in Workers : /\ IsFiniteSet(Given(w)) /\ Cardinality(Given(w)) \in Nat
                         /\ qlen[w] \in Nat
  <2> TAKE w \in Workers
  <2>1. IsFiniteSet(Given(w))
    <3>1. Given(w) \in SUBSET Conns
      OBVIOUS
    <3>2. QED  BY <3>1, FS_Subset
  <2>2. QED  BY <2>1, FS_CardinalityType DEF TypeOK
<1>1. CASE UNCHANGED <<owner, qlen, pending>>
  BY <1>1 DEF LengthsCount
<1>2. CASE \E w \in Workers : SetUp(w)
  <2>1. UNCHANGED <<owner, qlen, pending>>
    BY <1>2, SetUpEmpty DEF SetUp
  <2>2. QED  BY <1>1, <2>1
<1>3. CASE Create
  <2>1. pending = NoWorker /\ Pick \in Workers
    BY <1>3, PickShortest DEF TypeOK, Accepts, Create
  <2>2. pending' = Pick /\ qlen' = [qlen EXCEPT ![Pick] = @ + 1] /\ UNCHANGED owner
    BY <1>3 DEF Create
  <2>3. ASSUME NEW w \in Workers
        PROVE  qlen'[w] = Cardinality({c \in Conns : owner'[c] = w})
                            + (IF pending' = w THEN 1 ELSE 0)
    <3>1. Cardinality({c \in Conns : owner'[c] = w}) = Cardinality(Given(w))
      BY <2>2
    <3>2. qlen[w] = Cardinality(Given(w))
      BY <1>0, <2>1 DEF LengthsCount
    <3>3. qlen'[w] = qlen[w] + (IF Pick = w THEN 1 ELSE 0)
      BY <1>0, <2>1, <2>2 DEF TypeOK
    <3>4. QED  BY <2>2, <3>1, <3>2, <3>3
  <2>4. QED  BY <2>3 DEF LengthsCount
<1>4. CASE AcceptFails
  <2>1. pending \in Workers /\ pending' = NoWorker /\ UNCHANGED owner
        /\ qlen' = [qlen EXCEPT ![pending] = @ - 1]
    BY <1>4 DEF TypeOK, AcceptFails
  <2>2. ASSUME NEW w \in Workers
        PROVE  qlen'[w] = Cardinality({c \in Conns : owner'[c] = w})
                            + (IF pending' = w THEN 1 ELSE 0)
    <3>1. Cardinality({c \in Conns : owner'[c] = w}) = Cardinality(Given(w))
      BY <2>1
    <3>2. qlen[w] = Cardinality(Given(w)) + (IF pending = w THEN 1 ELSE 0)
      BY DEF LengthsCount
    <3>3. qlen'[w] = qlen[w] - (IF pending = w THEN 1 ELSE 0)
      BY <1>0, <2>1 DEF TypeOK
    <3>4. pending' # w
      BY <2>1
    <3>5. QED
      <4> HIDE DEF Given
      <4> QED  BY <1>0, <3>1, <3>2, <3>3, <3>4
  <2>3. QED  BY <2>2 DEF LengthsCount
<1>5. CASE \E c \in Conns : Accepted(c)
  <2>1. PICK c \in Conns : Accepted(c)
    BY <1>5
  <2>2. /\ pending \in Workers /\ pending' = NoWorker /\ UNCHANGED qlen
        /\ owner[c] = NoWorker /\ owner' = [owner EXCEPT ![c] = pending]
    BY <2>1 DEF TypeOK, Accepted
  <2>3. \A w \in Workers : w # pending => Given(w)' = Given(w)
    BY <2>2 DEF TypeOK
  <2>4. c \notin Given(pending) /\ {d \in Conns : owner'[d] = pending} = Given(pending) \cup {c}
    BY <2>2 DEF TypeOK
  <2>5. Cardinality({d \in Conns : owner'[d] = pending}) = Cardinality(Given(pending)) + 1
    <3> HIDE DEF Given
    <3> QED  BY <1>0, <2>2, <2>4, FS_AddElement
  <2>6. ASSUME NEW w \in Workers
        PROVE  qlen'[w] = Cardinality({d \in Conns : owner'[d] = w})
                            + (IF pending' = w THEN 1 ELSE 0)
    <3>1. CASE w = pending
      BY <1>0, <2>2, <2>5, <3>1 DEF LengthsCount
    <3>2. CASE w # pending
      BY <1>0, <2>2, <2>3, <3>2 DEF LengthsCount
    <3>3. QED  BY <3>1, <3>2
  <2>7. QED  BY <2>6 DEF LengthsCount
<1>6. QED  BY <1>1, <1>2, <1>3, <1>4, <1>5, Frames

-----------------------------------------------------------------------------
(* The theorems.                                                            *)

LEMMA InitIInv == Init => IInv
<1> SUFFICES ASSUME Init PROVE IInv
  OBVIOUS
<1> USE ServerAssumption DEF Init
<1>1. TypeOK
  <2>1. /\ run_pc = "launch" /\ init_count \in Nat
        /\ worker \in [Workers -> {"none", "launched", "running", "exited"}]
        /\ armed \in [Workers -> BOOLEAN] /\ executed \in [Workers -> BOOLEAN]
        /\ stopped \in [Workers -> BOOLEAN]
    OBVIOUS
  <2>2. /\ posted \in [Workers -> SUBSET Conns] /\ live \in [Workers -> SUBSET Conns]
        /\ owner \in [Conns -> Workers \cup {NoWorker}] /\ qlen \in [Workers -> Nat]
    OBVIOUS
  <2>3. stopper \in 0..(N + 2) /\ failures \in 0..MaxFailures
    OBVIOUS
  <2>4. QED  BY <2>1, <2>2, <2>3 DEF TypeOK
<1>2. SetUpCounted
  <2>1. {w \in Workers : IsUp(w)} = {}
    BY DEF IsUp
  <2>2. QED  BY <2>1, FS_EmptySet DEF SetUpCounted
<1>3. Launching /\ AllUp /\ TimerRuns /\ StopSaid /\ Accepts
  BY DEF Launching, AllUp, TimerRuns, StopSaid, Accepts
<1>4. Shared
  BY DEF Shared, Base
<1>5. LengthsCount
  <2>1. \A w \in Workers : {c \in Conns : owner[c] = w} = {}
    OBVIOUS
  <2>2. QED  BY <2>1, FS_EmptySet DEF LengthsCount
<1>6. QED  BY <1>1, <1>2, <1>3, <1>4, <1>5 DEF IInv

LEMMA NextIInv == IInv /\ [Next]_vars => IInv'
BY TypeStep, CountStep, PhaseStep, LaunchingStep, StopStep, AcceptsStep, SharedStep, LengthsStep
DEF IInv

THEOREM Inductive == Spec => []IInv
BY InitIInv, NextIInv, PTL DEF Spec

\* Every variable of the server keeps its type; the length of a queue in
\* particular is never decremented below zero, which would wrap it.
THEOREM ServerTyped == Spec => []TypeOK
<1>1. IInv => TypeOK
  BY DEF IInv
<1>2. QED  BY <1>1, Inductive, PTL

\* However many workers there are and whichever accepts fail, no worker is given
\* two connections more than another.
THEOREM QueuesBalanced == Spec => []Balanced
<1>1. IInv => Balanced
  <2> SUFFICES ASSUME IInv, NEW v \in Workers, NEW w \in Workers
               PROVE  Handed(v) <= Handed(w) + 1
    BY DEF Balanced
  <2>1. /\ qlen[v] \in Nat /\ qlen[w] \in Nat
        /\ qlen[v] = Handed(v) /\ qlen[w] = Handed(w)
    BY DEF IInv, TypeOK, LengthsCount, Handed
  <2>2. CASE pending = v
    BY <2>1, <2>2 DEF IInv, Shared, Base
  <2>3. CASE pending # v
    BY <2>1, <2>3 DEF IInv, Shared, Base
  <2>4. QED  BY <2>2, <2>3
<1>2. QED  BY <1>1, Inductive, PTL

\* No worker leaves its loop unless stop() was called.
THEOREM WorkersAlwaysStay == Spec => []WorkersStay
<1>1. IInv => WorkersStay
  BY DEF IInv, StopSaid, WorkersStay
<1>2. QED  BY <1>1, Inductive, PTL

\* The task timer a new connection refers to exists, except in a race with a
\* stop() of another thread.
THEOREM TimersAlive == Spec => TimerAlive
<1>1. ASSUME IInv, [Next]_vars, pending' \in Workers, pending' # pending
      PROVE  armed[pending'] \/ (stopper > 0 /\ worker[pending'] = "exited")
  <2>1. Create
    BY <1>1, Frames, ServerAssumption DEF SetUp, AcceptFails, Accepted
  <2>2. worker[pending'] \in {"running", "exited"}
    BY <1>1, <2>1 DEF IInv, Launching, AllUp, IsUp, Create
  <2>3. CASE worker[pending'] = "running"
    BY <1>1, <2>3 DEF IInv, TimerRuns
  <2>4. CASE worker[pending'] = "exited"
    <3>1. shutting_down /\ do_accept # "out"
      BY <1>1, <2>1, <2>4 DEF IInv, StopSaid, Create
    <3>2. stopper # 0 /\ stopper \in 0..(N + 2)
      BY <1>1, <3>1 DEF IInv, Accepts, TypeOK
    <3>3. QED  BY <2>4, <3>2, ServerAssumption
  <2>5. QED  BY <2>2, <2>3, <2>4
<1>2. IInv /\ [Next]_vars =>
        [pending' \in Workers => pending = pending' \/ armed[pending']
                                   \/ (stopper > 0 /\ worker[pending'] = "exited")]_vars
  BY <1>1
<1>3. QED  BY <1>2, Inductive, PTL DEF Spec, TimerAlive

=============================================================================
