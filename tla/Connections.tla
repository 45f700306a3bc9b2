----------------------------- MODULE Connections -----------------------------
(***************************************************************************)
(* One worker of the HTTP server: the io_context its single thread runs,   *)
(* the connections assigned to it and the task timer that closes those     *)
(* that stay silent.  A handler runs to its end before the next one is     *)
(* taken from the queue; the clients act at any time, also in the middle   *)
(* of a handler.                                                           *)
(*                                                                         *)
(* What a client sends is a stream of parts, three to a request: (1) a     *)
(* first piece of its URL, (2) the rest of the URL, (3) its headers and    *)
(* body.  A read returns any number of the parts that have arrived, so     *)
(* the positions sent, received and parsed count parts.                    *)
(***************************************************************************)
EXTENDS Naturals, Sequences, FiniteSets, Functions

CONSTANTS Conns,      \* the connection objects
          NoConn,     \* no connection
          Kinds,      \* the kinds of requests the clients send
          MaxRequests,\* bound: requests sent on a connection
          MaxAge      \* a task has expired at the latest after this many ticks

AllKinds == { "keep",     \* routed, the connection is kept alive
              "close",    \* routed, asks to close the connection, or HTTP/1.0 not to be kept
              "stream",   \* routed, the answer is a file or above the stream threshold
              "nohost",   \* HTTP/1.1 without a Host header
              "upgrade",  \* asks for another protocol
              "unknown",  \* no route for its URL and method
              "garbled" } \* routed, the parser rejects its headers or its body

ASSUME ConnectionsAssumption ==
  /\ IsFiniteSet(Conns)
  /\ Kinds \subseteq AllKinds
  /\ NoConn \notin Conns
  /\ MaxRequests \in Nat
  /\ MaxAge \in Nat \ {0}

VARIABLES queue,            \* handlers ready to run, in the order they will run
          reading,          \* connections with an async_read_some under way
          running,          \* the connection whose read handler is running, or NoConn
          fed,              \* what HTTPParser::feed will return: "ok" or "error"
          tasks,            \* task_timer::tasks_
          highest_id,       \* task_timer::highest_id_
          task_id,          \* task_id[c]: Connection::task_id_
          close_connection, \* close_connection[c]: Connection::close_connection_
          message_complete, \* message_complete[c]: set, and not cleared by an answer
          sock,             \* sock[c]: "none" before the accept, "open" or "closed"
          peer,             \* peer[c]: "up", "fin" (sent its last byte) or "rst" (gone)
          kind,             \* kind[c]: the requests the client began, in order
          sent,             \* sent[c]: parts the client sent
          received,         \* received[c]: parts the reads returned
          parsed,           \* parsed[c]: parts the parser went through
          answered          \* answered[c]: the statuses written to the client

timer  == <<tasks, highest_id, task_id>>
client == <<peer, kind, sent>>
vars   == <<queue, reading, running, fed, timer, close_connection,
            message_complete, sock, client, received, parsed, answered>>

Part(j)    == ((j - 1) % 3) + 1
Request(j) == ((j - 1) \div 3) + 1

Task == [id : Nat, owner : Conns, age : Nat]

Init ==
  /\ queue = <<>> /\ reading = {} /\ running = NoConn /\ fed = "ok"
  /\ tasks = {} /\ highest_id = 0 /\ task_id = [c \in Conns |-> 0]
  /\ close_connection = [c \in Conns |-> FALSE]
  /\ message_complete = [c \in Conns |-> FALSE]
  /\ sock = [c \in Conns |-> "none"]
  /\ peer = [c \in Conns |-> "up"]
  /\ kind = [c \in Conns |-> <<>>]
  /\ sent = [c \in Conns |-> 0]
  /\ received = [c \in Conns |-> 0]
  /\ parsed = [c \in Conns |-> 0]
  /\ answered = [c \in Conns |-> <<>>]

-----------------------------------------------------------------------------
(* The task timer.  Ids restart at 1 once no task is left; tasks expire in  *)
(* the order of their ids, because all have the same timeout.               *)

Without(c) == {t \in tasks : t.id # task_id[c]}

CancelDeadline(c) == /\ tasks' = Without(c)
                     /\ UNCHANGED <<highest_id, task_id>>

\* Mutant: the old deadline is cancelled, no new one is scheduled.
DeadlineNotStarted(c) == CancelDeadline(c)

StartDeadline(c) ==
  /\ tasks' = Without(c) \cup {[id |-> highest_id + 1, owner |-> c, age |-> 0]}
  /\ highest_id' = highest_id + 1
  /\ task_id' = [task_id EXCEPT ![c] = highest_id + 1]

-----------------------------------------------------------------------------
(* A connection lives as long as something points to it; the destructor of *)
(* its socket closes it.                                                   *)

Queued(op, c) == <<op, c>> \in Range(queue)

Held(c) == \/ c \in reading \/ running = c
           \/ Queued("start", c) \/ Queued("aborted", c)
           \/ \E t \in tasks : t.owner = c

\* The last conjunct of a handler: sockets it closes, or lets go of.
Closing(C) == sock' = [c \in Conns |->
  IF sock[c] = "open" /\ (c \in C \/ ~Held(c)') THEN "closed" ELSE sock[c]]

Take(op, c) == /\ running = NoConn
               /\ queue # <<>>
               /\ Head(queue) = <<op, c>>

-----------------------------------------------------------------------------
(* The server's handlers.                                                  *)

\* The acceptor hands the worker a connection: do_accept's completion posts start.
Accept(c) ==
  /\ sock[c] = "none"
  /\ sock' = [sock EXCEPT ![c] = "open"]
  /\ queue' = Append(queue, <<"start", c>>)
  /\ UNCHANGED <<reading, running, fed, timer, close_connection, message_complete,
                 client, received, parsed, answered>>

Start(c) ==
  /\ Take("start", c)
  /\ queue' = Tail(queue)
  /\ StartDeadline(c)
  /\ reading' = reading \cup {c}
  /\ UNCHANGED <<running, fed, close_connection, message_complete, client,
                 received, parsed, answered>>
  /\ Closing({})

\* The reactor finds bytes, the end of the stream or an error on the socket.
Readable(c) ==
  /\ c \in reading
  /\ received[c] < sent[c] \/ peer[c] # "up"
  /\ ~Queued("ready", c)
  /\ queue' = Append(queue, <<"ready", c>>)
  /\ UNCHANGED <<reading, running, fed, timer, close_connection, message_complete,
                 sock, client, received, parsed, answered>>

\* The socket was closed after it was found readable: its operation is gone.
ReadNothing(c) ==
  /\ Take("ready", c)
  /\ c \notin reading
  /\ queue' = Tail(queue)
  /\ UNCHANGED <<reading, running, fed, timer, close_connection, message_complete,
                 sock, client, received, parsed, answered>>

\* async_read_some fails: the end of the stream, a reset.
ReadFails(c) ==
  /\ Take("ready", c)
  /\ c \in reading
  /\ received[c] = sent[c]
  /\ queue' = Tail(queue)
  /\ reading' = reading \ {c}
  /\ CancelDeadline(c)
  /\ UNCHANGED <<running, fed, close_connection, message_complete, client,
                 received, parsed, answered>>
  /\ Closing({c})

\* It returns what has arrived, and the parser is fed; feed does nothing when
\* the last message is complete and was never answered.
ReadSome(c) ==
  /\ Take("ready", c)
  /\ c \in reading
  /\ \E n \in (received[c] + 1)..sent[c] :
       /\ received' = [received EXCEPT ![c] = n]
       /\ parsed' = IF message_complete[c] THEN [parsed EXCEPT ![c] = n] ELSE parsed
  /\ queue' = Tail(queue)
  /\ reading' = reading \ {c}
  /\ running' = c
  /\ fed' = "ok"
  /\ UNCHANGED <<timer, close_connection, message_complete, sock, client, answered>>

\* The operation a closed socket left behind: the same branch as a failed read.
ReadAborted(c) ==
  /\ Take("aborted", c)
  /\ queue' = Tail(queue)
  /\ CancelDeadline(c)
  /\ UNCHANGED <<reading, running, fed, close_connection, message_complete, client,
                 received, parsed, answered>>
  /\ Closing({c})

-----------------------------------------------------------------------------
(* HTTPParser::feed of the connection whose handler is running, one part    *)
(* at a time.                                                               *)

Current(c) == parsed[c] + 1
Kind(c)  == kind[c][Request(Current(c))]

\* Mutant: the parser goes on past what was read.
FeedingPastEnd(c, p) == running = c /\ fed = "ok" /\ parsed[c] <= received[c]
                        /\ Part(Current(c)) = p

Feeding(c, p) == /\ running = c
                 /\ fed = "ok"
                 /\ parsed[c] < received[c]
                 /\ Part(Current(c)) = p

\* Mutant: an answer is dropped when the client has half-closed its side.
WriteUnlessFin(c, status) == answered' =
  IF peer[c] # "up" THEN answered ELSE [answered EXCEPT ![c] = Append(@, status)]

\* asio::write: an answer to a client that is gone is an error in the log.
Write(c, status) == answered' =
  IF peer[c] = "rst" THEN answered ELSE [answered EXCEPT ![c] = Append(@, status)]

Parse(c) == parsed' = [parsed EXCEPT ![c] = Current(c)]

\* Mutant: the parser is not stopped after a 404.
NoRouteGoesOn(c) ==
  /\ Write(c, 404)
  /\ message_complete' = [message_complete EXCEPT ![c] = FALSE]
  /\ UNCHANGED fed

\* handle_url without a route: answered at once, and parser_.done() inside the
\* callback puts the parser into an error.  With a complete message done() returns
\* at once, but the parser, cleared in the middle of a message, fails at the next
\* byte: that of a next read is left out, as the client is gone by then.
HandleNoRoute(c) ==
  /\ Write(c, 404)
  /\ message_complete' = [message_complete EXCEPT ![c] = FALSE]
  /\ fed' = IF message_complete[c] /\ Current(c) = received[c] THEN "ok" ELSE "error"

\* A read that ends inside the URL: on_url gets the piece that arrived, which
\* may or may not be the URL of a route.
\* Mutant: a piece in the middle of what was read is looked up as well.
UrlPieceAnywhere(c) ==
  /\ Feeding(c, 1)
  /\ Parse(c)
  /\ UNCHANGED <<fed, message_complete, answered>> \/ HandleNoRoute(c)
  /\ UNCHANGED <<queue, reading, running, timer, close_connection, sock, client, received>>

FeedUrlPiece(c) ==
  /\ Feeding(c, 1)
  /\ Parse(c)
  /\ \/ UNCHANGED <<fed, message_complete, answered>>
     \/ Current(c) = received[c] /\ HandleNoRoute(c)
  /\ UNCHANGED <<queue, reading, running, timer, close_connection, sock, client, received>>

\* The whole URL; after a message that was never answered it is appended to
\* that message's.
FeedUrl(c) ==
  /\ Feeding(c, 2)
  /\ Parse(c)
  /\ \/ Kind(c) # "unknown" /\ UNCHANGED <<fed, message_complete, answered>>
     \/ (Kind(c) = "unknown" \/ message_complete[c]) /\ HandleNoRoute(c)
  /\ UNCHANGED <<queue, reading, running, timer, close_connection, sock, client, received>>

FeedGarbled(c) ==
  /\ Feeding(c, 3)
  /\ Kind(c) = "garbled"
  /\ Parse(c)
  /\ fed' = "error"
  /\ UNCHANGED <<queue, reading, running, timer, close_connection, message_complete,
                 sock, client, received, answered>>

\* handle(): the deadline is cancelled, then the peer's address is asked for.
Handling(c) == /\ Feeding(c, 3)
               /\ Kind(c) # "garbled"
               /\ Parse(c)
               /\ CancelDeadline(c)

\* The peer is gone: remote_endpoint() throws through the read handler to the
\* worker's loop, and the connection with it.
HandleThrows(c) ==
  /\ Handling(c)
  /\ peer[c] = "rst"
  /\ running' = NoConn
  /\ UNCHANGED <<queue, reading, fed, close_connection, message_complete, client,
                 received, answered>>
  /\ Closing({})

\* No rule of this program takes an upgrade: BaseRule::handle_upgrade sets a 404
\* that is never written.
HandleUpgrade(c) ==
  /\ Handling(c)
  /\ peer[c] # "rst"
  /\ Kind(c) = "upgrade"
  /\ close_connection' = [close_connection EXCEPT ![c] = TRUE]
  /\ fed' = IF Current(c) = received[c] THEN "ok" ELSE "error"
  /\ UNCHANGED <<queue, reading, running, message_complete, client, received, answered>>
  /\ Closing({})

Status(k) == CASE k = "nohost"  -> 400
               [] k = "unknown" -> 404
               [] OTHER         -> 200

HandleRequest(c) ==
  /\ Handling(c)
  /\ peer[c] # "rst"
  /\ Kind(c) # "upgrade"
  /\ close_connection' = [close_connection EXCEPT ![c] = Kind(c) = "close"]
  /\ Write(c, Status(Kind(c)))
  /\ UNCHANGED <<queue, reading, running, fed, message_complete, client, received>>
  /\ Closing({})

\* do_write_static and the streamed half of do_write_general write without an
\* error code: the exception ends in Router::handle, and the message stays
\* complete and unanswered.
StreamBreaks(c) ==
  /\ Handling(c)
  /\ peer[c] # "rst"
  /\ Kind(c) = "stream"
  /\ peer' = [peer EXCEPT ![c] = "rst"]
  /\ message_complete' = [message_complete EXCEPT ![c] = TRUE]
  /\ close_connection' = [close_connection EXCEPT ![c] = FALSE]
  /\ UNCHANGED <<queue, reading, running, fed, kind, sent, received, answered>>
  /\ Closing({})

-----------------------------------------------------------------------------
(* After feed has returned: the three branches of the read handler that     *)
(* synchronous route handlers leave reachable.                              *)

Fed(c) == running = c /\ running' = NoConn

FinishError(c) ==
  /\ Fed(c)
  /\ fed = "error"
  /\ CancelDeadline(c)
  /\ UNCHANGED <<queue, reading, fed, close_connection, message_complete, client,
                 received, parsed, answered>>
  /\ Closing({c})

\* Nothing reads from the connection any more: it is destroyed.
FinishClose(c) ==
  /\ Fed(c)
  /\ fed = "ok" /\ parsed[c] = received[c]
  /\ close_connection[c]
  /\ CancelDeadline(c)
  /\ UNCHANGED <<queue, reading, fed, close_connection, message_complete, client,
                 received, parsed, answered>>
  /\ Closing({})

\* Mutant: the read handler returns without starting the next read.
FinishForgets(c) ==
  /\ Fed(c)
  /\ fed = "ok" /\ parsed[c] = received[c]
  /\ ~close_connection[c]
  /\ StartDeadline(c)
  /\ UNCHANGED <<queue, reading, fed, close_connection, message_complete, client,
                 received, parsed, answered>>
  /\ Closing({})

\* Mutant: the branch that stops reading is not taken.
ReadsOnAnyway(c) ==
  /\ Fed(c)
  /\ fed = "ok" /\ parsed[c] = received[c]
  /\ StartDeadline(c)
  /\ reading' = reading \cup {c}
  /\ UNCHANGED <<queue, fed, close_connection, message_complete, client,
                 received, parsed, answered>>
  /\ Closing({})

FinishReadOn(c) ==
  /\ Fed(c)
  /\ fed = "ok" /\ parsed[c] = received[c]
  /\ ~close_connection[c]
  /\ StartDeadline(c)
  /\ reading' = reading \cup {c}
  /\ UNCHANGED <<queue, fed, close_connection, message_complete, client,
                 received, parsed, answered>>
  /\ Closing({})

-----------------------------------------------------------------------------
(* The tick of the task timer.  A tick is late when a handler kept the       *)
(* worker busy, so tasks may be found expired at any tick.                   *)

TickExpires ==
  /\ ~Queued("tick", NoConn)
  /\ queue' = Append(queue, <<"tick", NoConn>>)
  /\ UNCHANGED <<reading, running, fed, timer, close_connection, message_complete,
                 sock, client, received, parsed, answered>>

Older(T) == {[t EXCEPT !.age = @ + 1] : t \in T}

\* Mutant: ids start again although tasks are left.
ResetIdsEarly == highest_id' = 0

ResetIds == highest_id' = IF tasks' = {} THEN 0 ELSE highest_id

Aborted(s) == [i \in DOMAIN s |-> <<"aborted", s[i]>>]

\* The deadline task of each expired connection closes its socket, which aborts
\* the read under way; then the tasks are erased, and without tasks the ids
\* start again.
Tick ==
  /\ Take("tick", NoConn)
  /\ \E last \in 0..highest_id :
       LET expired == {t \in tasks : t.id <= last}
           closed  == {c \in Conns : sock[c] = "open" /\ \E t \in expired : t.owner = c}
           aborted == closed \cap reading
       IN /\ \A t \in tasks \ expired : t.age < MaxAge
          /\ \E s \in Bijection(1..Cardinality(aborted), aborted) :
               /\ \A i, j \in DOMAIN s : i < j => task_id[s[i]] < task_id[s[j]]
               /\ queue' = Tail(queue) \o Aborted(s)
          /\ reading' = reading \ closed
          /\ tasks' = Older(tasks \ expired)
          /\ ResetIds
          /\ UNCHANGED <<task_id, running, fed, close_connection, message_complete,
                         client, received, parsed, answered>>
          /\ Closing(closed)

-----------------------------------------------------------------------------
(* The clients.                                                             *)

Talking(c) == sock[c] = "open" /\ peer[c] = "up"

Begin(c, k) ==
  /\ Talking(c)
  /\ sent[c] = 3 * Len(kind[c])
  /\ Len(kind[c]) < MaxRequests
  /\ kind' = [kind EXCEPT ![c] = Append(@, k)]
  /\ sent' = [sent EXCEPT ![c] = @ + 1]
  /\ UNCHANGED <<queue, reading, running, fed, timer, close_connection,
                 message_complete, sock, peer, received, parsed, answered>>

Continue(c) ==
  /\ Talking(c)
  /\ sent[c] < 3 * Len(kind[c])
  /\ sent' = [sent EXCEPT ![c] = @ + 1]
  /\ UNCHANGED <<queue, reading, running, fed, timer, close_connection,
                 message_complete, sock, peer, kind, received, parsed, answered>>

Leave(c, how) ==
  /\ sock[c] = "open"
  /\ <<peer[c], how>> \in {<<"up", "fin">>, <<"up", "rst">>, <<"fin", "rst">>}
  /\ peer' = [peer EXCEPT ![c] = how]
  /\ UNCHANGED <<queue, reading, running, fed, timer, close_connection,
                 message_complete, sock, kind, sent, received, parsed, answered>>

-----------------------------------------------------------------------------
Feed(c) == \/ FeedUrlPiece(c) \/ FeedUrl(c) \/ FeedGarbled(c) \/ HandleThrows(c)
           \/ HandleUpgrade(c) \/ HandleRequest(c) \/ StreamBreaks(c)

Finish(c) == FinishError(c) \/ FinishClose(c) \/ FinishReadOn(c)

Worker == \/ \E c \in Conns : \/ Start(c) \/ ReadNothing(c) \/ ReadFails(c)
                              \/ ReadSome(c) \/ ReadAborted(c)
                              \/ Feed(c) \/ Finish(c)
          \/ Tick

Client == \E c \in Conns : \/ \E k \in Kinds : Begin(c, k)
                          \/ Continue(c)
                          \/ \E how \in {"fin", "rst"} : Leave(c, how)

Next == \/ Worker
        \/ TickExpires
        \/ \E c \in Conns : Accept(c) \/ Readable(c)
        \/ Client

\* The worker's thread runs what is ready, the reactor reports what it finds and
\* the timer expires; clients need never do anything.
Fairness == /\ WF_vars(Worker)
            /\ WF_vars(TickExpires)
            /\ \A c \in Conns : WF_vars(Readable(c))

Spec == Init /\ [][Next]_vars /\ Fairness

-----------------------------------------------------------------------------
(* Properties.                                                              *)

Ops == {"start", "ready", "aborted"} \X Conns \cup {<<"tick", NoConn>>}

TypeOK ==
  /\ queue \in Seq(Ops)
  /\ reading \subseteq Conns
  /\ running \in Conns \cup {NoConn}
  /\ fed \in {"ok", "error"}
  /\ tasks \subseteq Task
  /\ highest_id \in Nat
  /\ task_id \in [Conns -> Nat]
  /\ close_connection \in [Conns -> BOOLEAN]
  /\ message_complete \in [Conns -> BOOLEAN]
  /\ sock \in [Conns -> {"none", "open", "closed"}]
  /\ peer \in [Conns -> {"up", "fin", "rst"}]
  /\ kind \in [Conns -> Seq(Kinds)]
  /\ sent \in [Conns -> Nat] /\ received \in [Conns -> Nat] /\ parsed \in [Conns -> Nat]
  /\ \A c \in Conns : /\ parsed[c] <= received[c] /\ received[c] <= sent[c]
                      /\ sent[c] <= 3 * Len(kind[c])
  /\ answered \in [Conns -> Seq({200, 400, 404})]

\* Every scheduled task is the one its connection knows by task_id_, and no two
\* tasks share an id: schedule never finds its new id taken (its insert would
\* drop the task), although the ids start again when the map runs empty.
TasksOwned ==
  \A t \in tasks : /\ t.id = task_id[t.owner]
                   /\ t.id \in 1..highest_id
                   /\ \A u \in tasks : u.id = t.id => u = t

\* No open connection is forgotten: it waits to be started, is read from or its
\* handler runs.
OpenServed ==
  \A c \in Conns : sock[c] = "open" => Queued("start", c) \/ c \in reading \/ running = c

\* Open between two reads, and its client is there.
Between(c) == sock[c] = "open" /\ running # c /\ peer[c] # "rst"

\* Between two reads every request that was parsed whole has been answered,
\* pipelined or not, unless its client is gone.
AllAnswered ==
  \A c \in Conns :
     Between(c) => Len(answered[c]) = parsed[c] \div 3

\* Requests are answered in order, at most once, with a status their kind allows,
\* and never after the socket is closed.  A piece of a URL that a read ends in is
\* looked up as if it were a URL, hence the 404.
Session == INSTANCE HttpSession WITH Statuses <- LAMBDA k : {Status(k), 404}
KeepsSession == Session!Spec

\* A connection is read from again only if the last request that was parsed whole
\* asked neither to close it nor for another protocol, wherever reads were cut.  So
\* a "close" is lost only to a request that came whole behind it in the same read,
\* which sets close_connection_ anew: the code does lose it then.
CloseHonoured ==
  \A c \in Conns : Between(c) /\ parsed[c] >= 3
                      => kind[c][parsed[c] \div 3] \notin {"close", "upgrade"}

\* Only a request whose URL was cut by the end of a read gets a status that is not
\* its own, and it is the last that its connection parses, reads or answers.
WrongOnlyIfCut ==
  \A c \in Conns : \A i \in DOMAIN answered[c] :
     answered[c][i] # Status(kind[c][i])
        => i = Len(answered[c]) /\ parsed[c] = 3 * i - 2 /\ received[c] = parsed[c]

\* Another connection holds the id of c's task and has a handler to come, which
\* will cancel that task.
Threatened(c) ==
  \E t \in tasks, d \in Conns \ {c} :
     t.owner = c /\ task_id[d] = t.id /\ (d \in reading \/ running = d \/ Queued("aborted", d))

\* A connection whose client does nothing more is closed in the end, unless its
\* deadline falls to another's stale id (DeadlineArmed).  Clients act a bounded
\* number of times here, so every connection ends.
SilentClosed ==
  \A c \in Conns : []~Threatened(c) => ((sock[c] = "open") ~> (sock[c] = "closed"))

\* "Set the connection timeout in seconds (default is 5)": a connection that waits
\* for its client has a deadline.
DeadlineArmed == \A c \in reading : \E t \in tasks : t.owner = c

=============================================================================
