------------------------------- MODULE Server -------------------------------
(***************************************************************************)
(* The threads of the HTTP server: run() launches the workers and the      *)
(* thread that accepts; each worker runs the io_context whose connections  *)
(* it was given; a signal, or a call of stop() in another thread, ends     *)
(* them all.  What a connection does on its worker is in Connections; here *)
(* it is started, and ends or throws.                                      *)
(***************************************************************************)
EXTENDS Naturals, FiniteSets

CONSTANTS N,           \* worker threads: concurrency_ - 1
          Conns,       \* bound: the connections that clients open
          NoWorker,    \* no worker
          MaxFailures  \* bound: failing async_accepts

Workers == 1..N

ASSUME ServerAssumption ==
  /\ N \in Nat \ {0}          \* concurrency() raises less than two threads to two
  /\ IsFiniteSet(Conns)
  /\ NoWorker \notin Workers
  /\ MaxFailures \in Nat

VARIABLES run_pc,         \* run(): "launch", "accept", "join", "futures" or "returned"
          init_count,     \* workers that are set up
          worker,         \* worker[w]: "none", "launched", "running" or "exited"
          armed,          \* armed[w]: the task timer of w waits for its next tick
          executed,       \* executed[w]: the io_context::run under way ran a handler
          stopped,        \* stopped[w]: the io_context of w is stopped
          posted,         \* posted[w]: connections whose start is posted to w
          live,           \* live[w]: connections that run on w
          owner,          \* owner[c]: the worker whose socket c was accepted into
          qlen,           \* task_queue_length_pool_
          pending,        \* the worker of the async_accept under way, or NoWorker
          do_accept,      \* do_accept(): "out", "check" or "create"
          accept_thread,  \* "none", "launched", "running" or "exited"
          main_stopped,   \* io_context_ is stopped
          server_started, \* what wait_for_start waits for
          shutting_down,  \* shutting_down_
          signal,         \* "none", "raised" or "handled"
          stopper,        \* stop() in another thread: 0 not called, w in Workers before
                          \* it stops w, N + 1 before it stops io_context_, N + 2 done
          failures        \* async_accepts that failed

workers   == <<init_count, worker, armed, executed, posted, live>>
accepting == <<owner, qlen, pending, do_accept, failures>>
stopping  == <<stopped, main_stopped, shutting_down, signal, stopper>>
threads   == <<run_pc, accept_thread, server_started>>
vars      == <<workers, accepting, stopping, threads>>

Init ==
  /\ run_pc = "launch" /\ init_count = 0
  /\ worker = [w \in Workers |-> "none"]
  /\ armed = [w \in Workers |-> FALSE]
  /\ executed = [w \in Workers |-> FALSE]
  /\ stopped = [w \in Workers |-> FALSE]
  /\ posted = [w \in Workers |-> {}]
  /\ live = [w \in Workers |-> {}]
  /\ owner = [c \in Conns |-> NoWorker]
  /\ qlen = [w \in Workers |-> 0]
  /\ pending = NoWorker /\ do_accept = "out" /\ failures = 0
  /\ accept_thread = "none" /\ server_started = FALSE
  /\ main_stopped = FALSE /\ shutting_down = FALSE
  /\ signal = "none" /\ stopper = 0

-----------------------------------------------------------------------------
(* The worker threads.                                                      *)

Launch(w) ==
  /\ run_pc = "launch"
  /\ worker[w] = "none"
  /\ worker' = [worker EXCEPT ![w] = "launched"]
  /\ UNCHANGED <<init_count, armed, executed, posted, live, accepting, stopping, threads>>

\* The timer is started before the worker counts as set up.
SetUp(w) ==
  /\ worker[w] = "launched"
  /\ worker' = [worker EXCEPT ![w] = "running"]
  /\ armed' = [armed EXCEPT ![w] = TRUE]
  /\ qlen' = [qlen EXCEPT ![w] = 0]
  /\ init_count' = init_count + 1
  /\ UNCHANGED <<executed, posted, live, owner, pending, do_accept, failures,
                 stopping, threads>>

Work(w) == armed[w] \/ posted[w] # {} \/ live[w] # {}

Running(w) == worker[w] = "running" /\ ~stopped[w]

Executes(w) == executed' = [executed EXCEPT ![w] = TRUE]

Start(w, c) ==
  /\ Running(w)
  /\ c \in posted[w]
  /\ posted' = [posted EXCEPT ![w] = @ \ {c}]
  /\ live' = [live EXCEPT ![w] = @ \cup {c}]
  /\ Executes(w)
  /\ UNCHANGED <<init_count, worker, armed, accepting, stopping, threads>>

\* Mutant: the loop of the worker does not catch the exception.
EndLeaves(w, c, throws) ==
  /\ Running(w)
  /\ c \in live[w]
  /\ live' = [live EXCEPT ![w] = @ \ {c}]
  /\ worker' = IF throws THEN [worker EXCEPT ![w] = "exited"] ELSE worker
  /\ Executes(w)
  /\ UNCHANGED <<init_count, armed, posted, accepting, stopping, threads>>

\* The last handler of a connection returns, or throws out of run(), which the
\* worker calls again.
End(w, c, throws) ==
  /\ Running(w)
  /\ c \in live[w]
  /\ live' = [live EXCEPT ![w] = @ \ {c}]
  /\ executed' = [executed EXCEPT ![w] = ~throws]
  /\ UNCHANGED <<init_count, worker, armed, posted, accepting, stopping, threads>>

\* Mutant: tick_handler does not wait for the next tick.
TickOnce(w) ==
  /\ Running(w)
  /\ armed[w]
  /\ armed' = [armed EXCEPT ![w] = FALSE]
  /\ Executes(w)
  /\ UNCHANGED <<init_count, worker, posted, live, accepting, stopping, threads>>

\* tick_handler waits for the next tick as soon as it has processed the tasks.
Tick(w) ==
  /\ Running(w)
  /\ armed[w]
  /\ armed' = [armed EXCEPT ![w] = TRUE]
  /\ Executes(w)
  /\ UNCHANGED <<init_count, worker, posted, live, accepting, stopping, threads>>

\* io_context::run returns once it is stopped or out of work, and being out of
\* work stops it.
Returns(w) == /\ worker[w] = "running"
              /\ stopped[w] \/ ~Work(w)
              /\ stopped' = [stopped EXCEPT ![w] = TRUE]
              /\ UNCHANGED <<main_stopped, shutting_down, signal, stopper>>

RunAgain(w) ==
  /\ Returns(w)
  /\ executed[w]
  /\ executed' = [executed EXCEPT ![w] = FALSE]
  /\ UNCHANGED <<init_count, worker, armed, posted, live, accepting, threads>>

\* It ran nothing: the worker leaves its loop, and its timer is destroyed.
Exit(w) ==
  /\ Returns(w)
  /\ ~executed[w]
  /\ worker' = [worker EXCEPT ![w] = "exited"]
  /\ armed' = [armed EXCEPT ![w] = FALSE]
  /\ UNCHANGED <<init_count, executed, posted, live, accepting, threads>>

-----------------------------------------------------------------------------
(* Accepting: the first do_accept runs in run(), the others in the thread   *)
(* that runs io_context_.                                                   *)

\* Mutant: run() does not wait for the workers to set themselves up.
InitializedEarly ==
  /\ run_pc = "launch"
  /\ \A w \in Workers : worker[w] # "none"
  /\ run_pc' = "accept"
  /\ do_accept' = "check"
  /\ UNCHANGED <<workers, owner, qlen, pending, failures, stopping, accept_thread,
                 server_started>>

Initialized ==
  /\ run_pc = "launch"
  /\ init_count = N
  /\ run_pc' = "accept"
  /\ do_accept' = "check"
  /\ UNCHANGED <<workers, owner, qlen, pending, failures, stopping, accept_thread,
                 server_started>>

CheckShutdown ==
  /\ do_accept = "check"
  /\ do_accept' = IF shutting_down THEN "out" ELSE "create"
  /\ UNCHANGED <<workers, owner, qlen, pending, failures, stopping, threads>>

\* The first of the shortest queues: the loop stops at an empty one.
Pick == CHOOSE w \in Workers :
  \A v \in Workers : qlen[w] < qlen[v] \/ (qlen[w] = qlen[v] /\ w <= v)

Create ==
  /\ do_accept = "create"
  /\ pending' = Pick
  /\ qlen' = [qlen EXCEPT ![Pick] = @ + 1]
  /\ do_accept' = "out"
  /\ UNCHANGED <<workers, owner, failures, stopping, threads>>

\* A handler of io_context_ runs: the thread is in none, and not stopped.
Accepting == accept_thread = "running" /\ do_accept = "out" /\ ~main_stopped

Accepted(c) ==
  /\ Accepting
  /\ pending # NoWorker
  /\ owner[c] = NoWorker
  /\ owner' = [owner EXCEPT ![c] = pending]
  /\ posted' = [posted EXCEPT ![pending] = @ \cup {c}]
  /\ pending' = NoWorker
  /\ do_accept' = "check"
  /\ UNCHANGED <<init_count, worker, armed, executed, live, qlen, failures, stopping,
                 threads>>

\* Mutant: a failed accept does not take its own back.
FailKeepsLength ==
  /\ Accepting
  /\ pending # NoWorker
  /\ failures < MaxFailures
  /\ failures' = failures + 1
  /\ pending' = NoWorker
  /\ do_accept' = "check"
  /\ UNCHANGED <<workers, owner, qlen, stopping, threads>>

AcceptFails ==
  /\ Accepting
  /\ pending # NoWorker
  /\ failures < MaxFailures
  /\ failures' = failures + 1
  /\ qlen' = [qlen EXCEPT ![pending] = @ - 1]
  /\ pending' = NoWorker
  /\ do_accept' = "check"
  /\ UNCHANGED <<workers, owner, stopping, threads>>

LaunchAccept ==
  /\ run_pc = "accept"
  /\ do_accept = "out"
  /\ run_pc' = "join"
  /\ accept_thread' = "launched"
  /\ UNCHANGED <<workers, accepting, stopping, server_started>>

NotifyStart ==
  /\ accept_thread = "launched"
  /\ accept_thread' = "running"
  /\ server_started' = TRUE
  /\ UNCHANGED <<workers, accepting, stopping, run_pc>>

AcceptExits ==
  /\ accept_thread = "running"
  /\ do_accept = "out"
  /\ main_stopped
  /\ accept_thread' = "exited"
  /\ UNCHANGED <<workers, accepting, stopping, run_pc, server_started>>

\* run() joins the thread; its futures then wait for the workers.
Join ==
  /\ run_pc = "join"
  /\ accept_thread = "exited"
  /\ run_pc' = "futures"
  /\ UNCHANGED <<workers, accepting, stopping, accept_thread, server_started>>

Return ==
  /\ run_pc = "futures"
  /\ \A w \in Workers : worker[w] = "exited"
  /\ run_pc' = "returned"
  /\ UNCHANGED <<workers, accepting, stopping, accept_thread, server_started>>

-----------------------------------------------------------------------------
(* Stopping.                                                                *)

\* A signal waits for io_context_ to run the handler that calls stop().
Raise ==
  /\ signal = "none"
  /\ signal' = "raised"
  /\ UNCHANGED <<workers, accepting, stopped, main_stopped, shutting_down, stopper, threads>>

\* Mutant: stop() forgets the io_contexts of the workers.
SignalStopMain ==
  /\ Accepting
  /\ signal = "raised"
  /\ signal' = "handled"
  /\ shutting_down' = TRUE
  /\ main_stopped' = TRUE
  /\ UNCHANGED <<workers, accepting, stopped, stopper, threads>>

SignalStop ==
  /\ Accepting
  /\ signal = "raised"
  /\ signal' = "handled"
  /\ shutting_down' = TRUE
  /\ stopped' = [w \in Workers |-> TRUE]
  /\ main_stopped' = TRUE
  /\ UNCHANGED <<workers, accepting, stopper, threads>>

\* A thread that has waited for the start calls stop().
StopCalled ==
  /\ server_started
  /\ stopper = 0
  /\ stopper' = 1
  /\ shutting_down' = TRUE
  /\ UNCHANGED <<workers, accepting, stopped, main_stopped, signal, threads>>

StopWorker ==
  /\ stopper \in Workers
  /\ stopped' = [stopped EXCEPT ![stopper] = TRUE]
  /\ stopper' = stopper + 1
  /\ UNCHANGED <<workers, accepting, main_stopped, shutting_down, signal, threads>>

StopMain ==
  /\ stopper = N + 1
  /\ main_stopped' = TRUE
  /\ stopper' = N + 2
  /\ UNCHANGED <<workers, accepting, stopped, shutting_down, signal, threads>>

-----------------------------------------------------------------------------
WorkerLoop(w) == SetUp(w) \/ RunAgain(w) \/ Exit(w)

\* The first pass through do_accept is made by run() itself.
RunThread == \/ Initialized \/ LaunchAccept \/ Join \/ Return
             \/ \E w \in Workers : Launch(w)

AcceptThread == CheckShutdown \/ Create \/ NotifyStart \/ AcceptExits \/ SignalStop

Stop == StopWorker \/ StopMain

Next == \/ RunThread \/ AcceptThread
        \/ Stop \/ StopCalled \/ Raise
        \/ AcceptFails \/ \E c \in Conns : Accepted(c)
        \/ \E w \in Workers :
             \/ WorkerLoop(w) \/ Tick(w)
             \/ \E c \in Conns : Start(w, c) \/ \E throws \in BOOLEAN : End(w, c, throws)

\* Every thread goes on, and a worker takes the starts posted to it in turn.
\* Clients need not connect, connections need not end.
Fairness == /\ WF_vars(RunThread) /\ WF_vars(AcceptThread) /\ WF_vars(Stop)
            /\ \A w \in Workers : /\ WF_vars(WorkerLoop(w))
                                  /\ \A c \in Conns : WF_vars(Start(w, c))

Spec == Init /\ [][Next]_vars /\ Fairness

-----------------------------------------------------------------------------
(* Properties.                                                              *)

TypeOK ==
  /\ run_pc \in {"launch", "accept", "join", "futures", "returned"}
  /\ init_count \in Nat
  /\ worker \in [Workers -> {"none", "launched", "running", "exited"}]
  /\ armed \in [Workers -> BOOLEAN]
  /\ executed \in [Workers -> BOOLEAN]
  /\ stopped \in [Workers -> BOOLEAN]
  /\ posted \in [Workers -> SUBSET Conns]
  /\ live \in [Workers -> SUBSET Conns]
  /\ owner \in [Conns -> Workers \cup {NoWorker}]
  /\ qlen \in [Workers -> Nat]
  /\ pending \in Workers \cup {NoWorker}
  /\ do_accept \in {"out", "check", "create"}
  /\ accept_thread \in {"none", "launched", "running", "exited"}
  /\ main_stopped \in BOOLEAN /\ server_started \in BOOLEAN /\ shutting_down \in BOOLEAN
  /\ signal \in {"none", "raised", "handled"}
  /\ stopper \in 0..(N + 2)
  /\ failures \in 0..MaxFailures

\* The connections that w was ever given, and the one it is to be given next.
Handed(w) ==
  Cardinality({c \in Conns : owner[c] = w}) + (IF pending = w THEN 1 ELSE 0)

\* The choice by queue lengths, which a failed accept must take back, spreads the
\* connections: no worker is given two more than another.
Balanced == \A v, w \in Workers : Handed(v) <= Handed(w) + 1

\* A worker never leaves while the server runs, even without a connection: the
\* timer keeps its io_context busy.
WorkersStay == \A w \in Workers : worker[w] = "exited" => shutting_down

\* A connection is created with the timer of a worker that is set up, and has not
\* exited unless stop() is called from another thread meanwhile.
TimerAlive ==
  [][pending' \in Workers =>
       pending = pending' \/ armed[pending'] \/ (stopper > 0 /\ worker[pending'] = "exited")]_vars

\* Every accepted connection is started, by its own worker, unless the server stops;
\* exceptions of other connections do not prevent it.
AcceptedStarts ==
  \A c \in Conns : (owner[c] # NoWorker) ~>
     (shutting_down \/ \A w \in Workers : c \notin posted[w])

\* Once it is asked to stop, run() returns.
StopReturns == (signal = "raised" \/ stopper > 0) ~> (run_pc = "returned")
=============================================================================
