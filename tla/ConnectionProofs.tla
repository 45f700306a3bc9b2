--------------------------- MODULE ConnectionProofs ---------------------------
(***************************************************************************)
(* Theorems about Connections, for any number of connections and requests. *)
(***************************************************************************)
EXTENDS Connections, FiniteSetTheorems, SequenceTheorems, TLAPS

-----------------------------------------------------------------------------
(* The inductive invariant.                                                 *)

\* A connection is started once.
StartOnce == \A i, j \in DOMAIN queue :
               queue[i] = queue[j] /\ queue[i][1] = "start" => i = j

\* A connection is in one place at a time: it waits to be started, or for a
\* read, or its handler runs; what an aborted read left behind is beyond that.
Placed ==
  \A c \in Conns :
    /\ c \in reading => ~Queued("start", c) /\ running # c
    /\ running = c => ~Queued("start", c)
    /\ Queued("aborted", c) => c \notin reading /\ running # c /\ ~Queued("start", c)

\* Exactly the open connections are in one of them.
Served ==
  \A c \in Conns :
    sock[c] = "open" <=> Queued("start", c) \/ c \in reading \/ running = c

\* Before it is accepted a connection has left nothing behind, before it is
\* started it has no deadline.
Fresh ==
  /\ \A c \in Conns : sock[c] = "none" => ~Queued("aborted", c)
  /\ \A t \in tasks : sock[t.owner] # "none" /\ ~Queued("start", t.owner)

Where == TypeOK /\ TasksOwned /\ StartOnce /\ Placed /\ Served /\ Fresh

\* What was parsed is answered, also in the middle of a read handler, until the
\* parser is in an error or the connection is upgraded.
Answering ==
  \A c \in Conns :
    /\ message_complete[c] => peer[c] = "rst"
    /\ sock[c] = "none" => parsed[c] = 0 /\ answered[c] = <<>>
    /\ sock[c] = "open" /\ peer[c] # "rst" /\ (running = c => fed = "ok")
         => \/ Len(answered[c]) = parsed[c] \div 3
            \/ running = c /\ close_connection[c] /\ parsed[c] = received[c]

\* When the last request parsed whole is one to stop after, its handler is still
\* running and will not read on.
Honouring ==
  \A c \in Conns :
    sock[c] = "open" /\ peer[c] # "rst" /\ (running = c => fed = "ok")
      /\ parsed[c] \div 3 >= 1 /\ kind[c][parsed[c] \div 3] \in {"close", "upgrade"}
    => running = c /\ close_connection[c]

\* A wrong status is the last thing a connection said, at the end of what it read,
\* and its handler is about to close it.
WrongLast(c, i) ==
  /\ i = Len(answered[c]) /\ parsed[c] = 3 * i - 2 /\ received[c] = parsed[c]
  /\ sock[c] = "open" => running = c /\ fed = "error"

CutInv ==
  \A c \in Conns :
    /\ Len(answered[c]) <= Len(kind[c])
    /\ \A i \in 1..Len(answered[c]) : answered[c][i] # Status(kind[c][i]) => WrongLast(c, i)

-----------------------------------------------------------------------------
(* The queue.                                                               *)

LEMMA RangeAppend ==
  ASSUME NEW S, NEW q \in Seq(S), NEW x \in S
  PROVE  Append(q, x) \in Seq(S) /\ Range(Append(q, x)) = Range(q) \cup {x}
<1>1. Append(q, x) = q \o <<x>> /\ <<x>> \in Seq(S)
  BY AppendIsConcat
<1>2. Range(<<x>>) = {x}
  BY DEF Range
<1>3. Range(q \o <<x>>) = Range(q) \cup Range(<<x>>)
  BY <1>1, RangeConcatenation, Zenon
<1>4. Append(q, x) \in Seq(S)
  OBVIOUS
<1>5. QED  BY <1>1, <1>2, <1>3, <1>4

LEMMA RangeTail ==
  ASSUME NEW S, NEW q \in Seq(S), q # <<>>
  PROVE  /\ Tail(q) \in Seq(S)
         /\ Range(q) = {Head(q)} \cup Range(Tail(q))
         /\ Head(q) \in Range(Tail(q)) => \E i, j \in DOMAIN q : q[i] = Head(q) /\ q[j] = Head(q) /\ i # j
<1>1. /\ Tail(q) \in Seq(S) /\ Len(Tail(q)) = Len(q) - 1 /\ Len(q) \in Nat \ {0}
      /\ Head(q) = q[1]
      /\ \A i \in 1..(Len(q) - 1) : Tail(q)[i] = q[i + 1]
  BY HeadTailProperties
<1>2. /\ Range(q) = {q[i] : i \in 1..Len(q)}
      /\ Range(Tail(q)) = {Tail(q)[i] : i \in 1..(Len(q) - 1)}
  BY <1>1, RangeEquality
<1>3. Range(Tail(q)) = {q[i + 1] : i \in 1..(Len(q) - 1)}
  BY <1>1, <1>2
<1>4. 1..Len(q) = {1} \cup {i + 1 : i \in 1..(Len(q) - 1)}
  <2>1. ASSUME NEW k \in 1..Len(q), k # 1
        PROVE  k - 1 \in 1..(Len(q) - 1) /\ k = (k - 1) + 1
    BY <1>1, <2>1
  <2>2. ASSUME NEW i \in 1..(Len(q) - 1)
        PROVE  i + 1 \in 1..Len(q)
    BY <1>1
  <2>3. 1 \in 1..Len(q)
    BY <1>1
  <2>4. QED  BY <2>1, <2>2, <2>3
<1>5. Range(q) = {Head(q)} \cup Range(Tail(q))
  BY <1>1, <1>2, <1>3, <1>4
<1>6. ASSUME Head(q) \in Range(Tail(q))
      PROVE  \E i, j \in DOMAIN q : q[i] = Head(q) /\ q[j] = Head(q) /\ i # j
  <2>1. PICK i \in 1..(Len(q) - 1) : q[i + 1] = Head(q)
    BY <1>3, <1>6
  <2>2. 1 \in DOMAIN q /\ i + 1 \in DOMAIN q /\ 1 # i + 1
    BY <1>1
  <2>3. QED  BY <1>1, <2>1, <2>2
<1>7. QED  BY <1>1, <1>5, <1>6

\* A handler is appended to the queue; a connection is started only once.
LEMMA Appended ==
  ASSUME queue \in Seq(Ops), StartOnce, NEW x \in Ops, queue' = Append(queue, x),
         x[1] = "start" => x \notin Range(queue)
  PROVE  /\ queue' \in Seq(Ops) /\ StartOnce'
         /\ Range(queue') = Range(queue) \cup {x}
<1>1. queue' \in Seq(Ops) /\ Range(queue') = Range(queue) \cup {x}
  BY RangeAppend
<1>2. /\ DOMAIN queue = 1..Len(queue) /\ DOMAIN queue' = 1..(Len(queue) + 1)
      /\ Len(queue) \in Nat /\ queue'[Len(queue) + 1] = x
      /\ \A i \in 1..Len(queue) : queue'[i] = queue[i]
  OBVIOUS
<1>3. \A i \in 1..Len(queue) : queue[i] \in Range(queue)
  BY <1>2 DEF Range
<1>4. ASSUME NEW i \in DOMAIN queue', NEW j \in DOMAIN queue',
             queue'[i] = queue'[j], queue'[i][1] = "start"
      PROVE  i = j
  <2>1. CASE i \in 1..Len(queue) /\ j \in 1..Len(queue)
    BY <1>2, <1>4, <2>1 DEF StartOnce
  <2>2. CASE i = Len(queue) + 1 /\ j = Len(queue) + 1
    BY <2>2
  <2>3. CASE i = Len(queue) + 1 /\ j \in 1..Len(queue)
    BY <1>2, <1>3, <1>4, <2>3
  <2>4. CASE i \in 1..Len(queue) /\ j = Len(queue) + 1
    BY <1>2, <1>3, <1>4, <2>4
  <2>5. QED  BY <1>2, <2>1, <2>2, <2>3, <2>4
<1>5. QED  BY <1>1, <1>4 DEF StartOnce

\* The first handler is taken from the queue.
LEMMA Taken ==
  ASSUME queue \in Seq(Ops), StartOnce, queue # <<>>, queue' = Tail(queue)
  PROVE  /\ queue' \in Seq(Ops) /\ StartOnce'
         /\ Range(queue) = {Head(queue)} \cup Range(queue')
         /\ Head(queue)[1] = "start" => Head(queue) \notin Range(queue')
<1>1. /\ queue' \in Seq(Ops)
      /\ Range(queue) = {Head(queue)} \cup Range(queue')
      /\ Head(queue) \in Range(queue') => \E i, j \in DOMAIN queue :
            queue[i] = Head(queue) /\ queue[j] = Head(queue) /\ i # j
  BY RangeTail
<1>2. Head(queue)[1] = "start" => Head(queue) \notin Range(queue')
  BY <1>1 DEF StartOnce
<1>3. /\ DOMAIN queue' \subseteq Nat
      /\ \A i \in DOMAIN queue' : i + 1 \in DOMAIN queue /\ queue'[i] = queue[i + 1]
  OBVIOUS
<1>4. ASSUME NEW i \in DOMAIN queue', NEW j \in DOMAIN queue',
             queue'[i] = queue'[j], queue'[i][1] = "start"
      PROVE  i = j
  <2>1. i + 1 = j + 1
    BY <1>3, <1>4 DEF StartOnce
  <2>2. QED  BY <1>3, <2>1
<1>5. QED  BY <1>1, <1>2, <1>4 DEF StartOnce

\* A tick leaves behind the completions of the reads it aborted.
LEMMA Ticked ==
  ASSUME NEW A \in SUBSET Conns, NEW s \in Bijection(1..Cardinality(A), A),
         queue \in Seq(Ops), StartOnce, queue # <<>>, Head(queue) = <<"tick", NoConn>>,
         NEW t, t = Tail(queue), NEW r, r = Aborted(s), queue' = t \o r
  PROVE  /\ queue' \in Seq(Ops) /\ StartOnce'
         /\ \A c : Queued("start", c)' <=> Queued("start", c)
         /\ \A c : Queued("aborted", c)' <=> Queued("aborted", c) \/ c \in A
<1> DEFINE m == Cardinality(A)
<1>1. m \in Nat
  BY ConnectionsAssumption, FS_Subset, FS_CardinalityType
<1>2. s \in [1..m -> A] /\ \A c \in A : \E i \in 1..m : s[i] = c
  BY DEF Bijection, Injection, Surjection
<1> HIDE DEF m
<1>3. /\ r \in Seq(Ops) /\ Len(r) = m
      /\ \A i \in 1..m : r[i] = <<"aborted", s[i]>> /\ s[i] \in A
  <2>1. \A i \in 1..m : <<"aborted", s[i]>> \in Ops
    BY <1>2 DEF Ops
  <2>2. r = [i \in 1..m |-> <<"aborted", s[i]>>]
    BY <1>2 DEF Aborted
  <2>3. QED  BY <1>1, <1>2, <2>1, <2>2
<1>4. Range(r) = {<<"aborted", c>> : c \in A}
  <2>1. Range(r) = {r[i] : i \in 1..m}
    BY <1>3, RangeEquality
  <2>2. {r[i] : i \in 1..m} = {<<"aborted", s[i]>> : i \in 1..m}
    BY <1>3
  <2>3. QED  BY <1>2, <2>1, <2>2
<1>5. t \in Seq(Ops) /\ Range(queue) = {<<"tick", NoConn>>} \cup Range(t)
  BY RangeTail
<1>6. queue' \in Seq(Ops) /\ Range(queue') = Range(t) \cup Range(r)
  BY <1>3, <1>5, ConcatProperties, RangeConcatenation
<1>7. ASSUME NEW i \in DOMAIN queue', queue'[i][1] = "start"
      PROVE  i \in Nat /\ i + 1 \in DOMAIN queue /\ queue'[i] = queue[i + 1]
  <2>1. /\ DOMAIN queue' = 1..(Len(t) + m) /\ Len(t) \in Nat
        /\ DOMAIN queue = 1..(Len(t) + 1)
    <3>1. Len(queue') = Len(t) + m /\ Len(t) = Len(queue) - 1
      BY <1>3, <1>5, ConcatProperties, HeadTailProperties
    <3>2. /\ DOMAIN queue' = 1..Len(queue') /\ DOMAIN queue = 1..Len(queue)
          /\ Len(queue) \in Nat /\ Len(t) \in Nat
      BY <1>5, <1>6
    <3>3. QED  BY <3>1, <3>2
  <2>2. CASE i <= Len(t)
    <3>1. t[i] = queue[i + 1] /\ i + 1 \in 1..(Len(t) + 1) /\ i \in 1..Len(t)
      BY <2>1, <2>2, <1>5
    <3>2. queue'[i] = t[i]
      BY <1>3, <1>5, <3>1, ConcatProperties
    <3>3. QED  BY <2>1, <3>1, <3>2
  <2>3. CASE i > Len(t)
    <3>1. i - Len(t) \in 1..m /\ queue'[i] = r[i - Len(t)]
      BY <1>1, <1>3, <1>5, <2>1, <2>3
    <3>2. QED  BY <1>3, <1>7, <3>1
  <2>4. QED  BY <2>1, <2>2, <2>3
<1>8. StartOnce'
  <2>1. ASSUME NEW i \in DOMAIN queue', NEW j \in DOMAIN queue',
               queue'[i] = queue'[j], queue'[i][1] = "start"
        PROVE  i = j
    <3>1. i + 1 = j + 1 /\ i \in Nat /\ j \in Nat
      BY <1>7, <2>1 DEF StartOnce
    <3>2. QED  BY <3>1
  <2>2. QED  BY <2>1 DEF StartOnce
<1>9. QED  BY <1>4, <1>5, <1>6, <1>8 DEF Queued

-----------------------------------------------------------------------------
(* Each action preserves the types.                                         *)

LEMMA Counts ==
  ASSUME TypeOK
  PROVE  /\ sent \in [Conns -> Nat] /\ received \in [Conns -> Nat] /\ parsed \in [Conns -> Nat]
         /\ kind \in [Conns -> Seq(Kinds)]
         /\ \A c \in Conns : /\ parsed[c] <= received[c] /\ received[c] <= sent[c]
                             /\ sent[c] <= 3 * Len(kind[c]) /\ Len(kind[c]) \in Nat
BY DEF TypeOK

LEMMA StatusTyped == \A k : Status(k) \in {200, 400, 404}
BY DEF Status

LEMMA WriteTyped ==
  ASSUME TypeOK, NEW c \in Conns, NEW status \in {200, 400, 404}, Write(c, status)
  PROVE  answered' \in [Conns -> Seq({200, 400, 404})]
BY DEF TypeOK, Write

LEMMA DeadlineTyped ==
  ASSUME TypeOK, NEW c \in Conns, CancelDeadline(c) \/ StartDeadline(c)
  PROVE  tasks' \subseteq Task /\ highest_id' \in Nat /\ task_id' \in [Conns -> Nat]
<1>1. Without(c) \subseteq tasks /\ [id |-> highest_id + 1, owner |-> c, age |-> 0] \in Task
  BY DEF TypeOK, Without, Task
<1>2. CASE CancelDeadline(c)
  BY <1>1, <1>2 DEF TypeOK, CancelDeadline
<1>3. CASE StartDeadline(c)
  BY <1>1, <1>3 DEF TypeOK, StartDeadline
<1>4. QED  BY <1>2, <1>3

LEMMA SockTyped ==
  ASSUME TypeOK, NEW C, Closing(C)
  PROVE  sock' \in [Conns -> {"none", "open", "closed"}]
BY DEF TypeOK, Closing

LEMMA ParseTyped ==
  ASSUME TypeOK, NEW c \in Conns, NEW p, Feeding(c, p), Parse(c)
  PROVE  /\ parsed' \in [Conns -> Nat]
         /\ \A d \in Conns : parsed'[d] <= received[d]
BY DEF TypeOK, Feeding, Parse, Current

LEMMA TypeStep ==
  ASSUME TypeOK, StartOnce, [Next]_vars
  PROVE  TypeOK'
<1> USE DEF timer, client
<1>0. CASE UNCHANGED vars
  BY <1>0 DEF TypeOK, vars
<1>1. ASSUME NEW c \in Conns, Accept(c)
      PROVE  TypeOK'
  <2>1. queue' \in Seq(Ops)
    BY <1>1 DEF TypeOK, Accept, Ops
  <2>2. QED  BY <1>1, <2>1 DEF TypeOK, Accept
<1>2. ASSUME NEW c \in Conns, Start(c)
      PROVE  TypeOK'
  BY <1>2, Taken, DeadlineTyped, SockTyped DEF TypeOK, Start, Take
<1>3. ASSUME NEW c \in Conns, Readable(c)
      PROVE  TypeOK'
  <2>1. queue' \in Seq(Ops)
    BY <1>3 DEF TypeOK, Readable, Ops
  <2>2. QED  BY <1>3, <2>1 DEF TypeOK, Readable
<1>4. ASSUME NEW c \in Conns, ReadNothing(c) \/ ReadFails(c) \/ ReadAborted(c)
      PROVE  TypeOK'
  <2>1. CASE ReadNothing(c)
    BY <2>1, Taken DEF TypeOK, ReadNothing, Take
  <2>2. CASE ReadFails(c)
    BY <2>2, Taken, DeadlineTyped, SockTyped DEF TypeOK, ReadFails, Take
  <2>3. CASE ReadAborted(c)
    BY <2>3, Taken, DeadlineTyped, SockTyped DEF TypeOK, ReadAborted, Take
  <2>4. QED  BY <1>4, <2>1, <2>2, <2>3
<1>5. ASSUME NEW c \in Conns, ReadSome(c)
      PROVE  TypeOK'
  <2>1. queue' \in Seq(Ops)
    BY <1>5, Taken DEF TypeOK, ReadSome, Take
  <2>2. PICK n \in (received[c] + 1)..sent[c] :
          /\ received' = [received EXCEPT ![c] = n]
          /\ parsed' = IF message_complete[c] THEN [parsed EXCEPT ![c] = n] ELSE parsed
    BY <1>5 DEF ReadSome
  <2>3. n \in Nat /\ received[c] < n /\ n <= sent[c]
    BY <2>2 DEF TypeOK
  <2>4. /\ received' \in [Conns -> Nat] /\ parsed' \in [Conns -> Nat]
        /\ \A d \in Conns : parsed'[d] <= received'[d] /\ received'[d] <= sent[d]
    <3>1. /\ received' \in [Conns -> Nat]
          /\ \A d \in Conns : received'[d] = IF d = c THEN n ELSE received[d]
      BY <2>2, <2>3 DEF TypeOK
    <3>2. CASE message_complete[c]
      <4>1. /\ parsed' \in [Conns -> Nat]
            /\ \A d \in Conns : parsed'[d] = IF d = c THEN n ELSE parsed[d]
        BY <2>2, <2>3, <3>2, Counts
      <4>2. ASSUME NEW d \in Conns
            PROVE  parsed'[d] <= received'[d] /\ received'[d] <= sent[d]
        <5>1. parsed[d] <= received[d] /\ received[d] <= sent[d] /\ n <= sent[c]
          BY <2>3, Counts
        <5>2. n \in Nat
          BY <2>3
        <5>3. QED  BY <3>1, <4>1, <5>1, <5>2
      <4>3. QED  BY <3>1, <4>1, <4>2
    <3>3. CASE ~message_complete[c]
      <4>1. parsed' = parsed
        BY <2>2, <3>3
      <4>2. ASSUME NEW d \in Conns
            PROVE  parsed'[d] <= received'[d] /\ received'[d] <= sent[d]
        <5>1. /\ parsed[d] <= received[d] /\ received[d] <= sent[d]
              /\ parsed[d] \in Nat /\ received[d] \in Nat
          BY Counts
        <5>2. received[c] < n /\ n <= sent[c] /\ n \in Nat
          BY <2>3
        <5>3. QED  BY <3>1, <4>1, <5>1, <5>2
      <4>3. QED  BY <3>1, <4>1, <4>2, Counts
    <3>4. QED  BY <3>2, <3>3
  <2>5. QED  BY <1>5, <2>1, <2>4 DEF TypeOK, ReadSome
<1>6. ASSUME NEW c \in Conns, FeedUrlPiece(c) \/ FeedUrl(c)
      PROVE  TypeOK'
  <2>1. \E p : Feeding(c, p) /\ Parse(c)
    BY <1>6 DEF FeedUrlPiece, FeedUrl
  <2>2. parsed' \in [Conns -> Nat] /\ \A d \in Conns : parsed'[d] <= received[d]
    BY <2>1, ParseTyped
  <2>3. UNCHANGED <<fed, message_complete, answered>> \/ HandleNoRoute(c)
    BY <1>6 DEF FeedUrlPiece, FeedUrl
  <2>4. /\ answered' \in [Conns -> Seq({200, 400, 404})]
        /\ fed' \in {"ok", "error"} /\ message_complete' \in [Conns -> BOOLEAN]
    <3>1. CASE UNCHANGED <<fed, message_complete, answered>>
      BY <3>1 DEF TypeOK
    <3>2. CASE HandleNoRoute(c)
      <4>1. answered' \in [Conns -> Seq({200, 400, 404})]
        BY <3>2, WriteTyped DEF HandleNoRoute
      <4>2. fed' \in {"ok", "error"} /\ message_complete' \in [Conns -> BOOLEAN]
        BY <3>2 DEF TypeOK, HandleNoRoute
      <4>3. QED  BY <4>1, <4>2
    <3>3. QED  BY <2>3, <3>1, <3>2
  <2>5. UNCHANGED <<queue, reading, running, tasks, highest_id, task_id, close_connection,
                    sock, peer, kind, sent, received>>
    BY <1>6 DEF FeedUrlPiece, FeedUrl
  <2>6. QED  BY <2>2, <2>4, <2>5 DEF TypeOK
<1>7. ASSUME NEW c \in Conns, FeedGarbled(c)
      PROVE  TypeOK'
  BY <1>7, ParseTyped DEF TypeOK, FeedGarbled
<1>8. ASSUME NEW c \in Conns, HandleThrows(c) \/ HandleUpgrade(c)
      PROVE  TypeOK'
  <2>1. /\ parsed' \in [Conns -> Nat] /\ \A d \in Conns : parsed'[d] <= received[d]
    BY <1>8, ParseTyped DEF HandleThrows, HandleUpgrade, Handling
  <2>2. CASE HandleThrows(c)
    BY <2>1, <2>2, DeadlineTyped, SockTyped DEF TypeOK, HandleThrows, Handling
  <2>3. CASE HandleUpgrade(c)
    BY <2>1, <2>3, DeadlineTyped, SockTyped DEF TypeOK, HandleUpgrade, Handling
  <2>4. QED  BY <1>8, <2>2, <2>3
<1>9. ASSUME NEW c \in Conns, HandleRequest(c) \/ StreamBreaks(c)
      PROVE  TypeOK'
  <2>1. /\ parsed' \in [Conns -> Nat] /\ \A d \in Conns : parsed'[d] <= received[d]
    BY <1>9, ParseTyped DEF HandleRequest, StreamBreaks, Handling
  <2>2. CASE HandleRequest(c)
    <3>1. answered' \in [Conns -> Seq({200, 400, 404})]
      BY <2>2, WriteTyped, StatusTyped DEF HandleRequest
    <3>2. close_connection' \in [Conns -> BOOLEAN]
      BY <2>2 DEF TypeOK, HandleRequest
    <3>3. QED  BY <2>1, <2>2, <3>1, <3>2, DeadlineTyped, SockTyped
               DEF TypeOK, HandleRequest, Handling
  <2>3. CASE StreamBreaks(c)
    BY <2>1, <2>3, DeadlineTyped, SockTyped DEF TypeOK, StreamBreaks, Handling
  <2>4. QED  BY <1>9, <2>2, <2>3
<1>10. ASSUME NEW c \in Conns, Finish(c)
       PROVE  TypeOK'
  <2>1. CASE FinishError(c)
    BY <2>1, DeadlineTyped, SockTyped DEF TypeOK, FinishError, Fed
  <2>2. CASE FinishClose(c)
    BY <2>2, DeadlineTyped, SockTyped DEF TypeOK, FinishClose, Fed
  <2>3. CASE FinishReadOn(c)
    BY <2>3, DeadlineTyped, SockTyped DEF TypeOK, FinishReadOn, Fed
  <2>4. QED  BY <1>10, <2>1, <2>2, <2>3 DEF Finish
<1>11. CASE TickExpires
  <2>1. queue' \in Seq(Ops)
    BY <1>11 DEF TypeOK, TickExpires, Ops
  <2>2. QED  BY <1>11, <2>1 DEF TypeOK, TickExpires
<1>12. CASE Tick
  <2>1. PICK last \in 0..highest_id :
          LET expired == {t \in tasks : t.id <= last}
              closed  == {c \in Conns : sock[c] = "open" /\ \E t \in expired : t.owner = c}
              aborted == closed \cap reading
          IN /\ \E s \in Bijection(1..Cardinality(aborted), aborted) :
                  queue' = Tail(queue) \o Aborted(s)
             /\ reading' = reading \ closed
             /\ tasks' = Older(tasks \ expired)
             /\ ResetIds
             /\ Closing(closed)
    BY <1>12 DEF Tick
  <2>2. queue' \in Seq(Ops)
    BY <1>12, <2>1, Ticked DEF TypeOK, Tick, Take
  <2>3. tasks' \subseteq Task
    <3>1. ASSUME NEW t \in tasks
          PROVE  [t EXCEPT !.age = @ + 1] \in Task
      <4>1. t \in Task
        BY DEF TypeOK
      <4>2. QED  BY <4>1 DEF Task
    <3>2. QED  BY <2>1, <3>1 DEF Older
  <2>4. QED  BY <1>12, <2>1, <2>2, <2>3, SockTyped DEF TypeOK, Tick, ResetIds
<1>13. ASSUME NEW c \in Conns, NEW k \in Kinds, Begin(c, k)
       PROVE  TypeOK'
  <2>1. /\ kind' \in [Conns -> Seq(Kinds)] /\ sent' \in [Conns -> Nat]
        /\ kind'[c] = Append(kind[c], k) /\ sent'[c] = sent[c] + 1
        /\ \A d \in Conns : d # c => kind'[d] = kind[d] /\ sent'[d] = sent[d]
    BY <1>13, Counts DEF Begin
  <2>2. sent[c] = 3 * Len(kind[c]) /\ Len(kind'[c]) = Len(kind[c]) + 1 /\ Len(kind[c]) \in Nat
    BY <1>13, <2>1 DEF TypeOK, Begin
  <2>3. ASSUME NEW d \in Conns
        PROVE  received[d] <= sent'[d] /\ sent'[d] <= 3 * Len(kind'[d])
    <3>1. /\ received[d] <= sent[d] /\ sent[d] <= 3 * Len(kind[d])
          /\ received[d] \in Nat /\ sent[d] \in Nat
      BY Counts
    <3>2. QED  BY <2>1, <2>2, <3>1
  <2>4. QED  BY <1>13, <2>1, <2>3 DEF TypeOK, Begin
<1>14. ASSUME NEW c \in Conns, Continue(c)
       PROVE  TypeOK'
  <2>1. /\ sent' \in [Conns -> Nat] /\ sent'[c] = sent[c] + 1
        /\ \A d \in Conns : d # c => sent'[d] = sent[d]
    BY <1>14 DEF TypeOK, Continue
  <2>2. sent[c] < 3 * Len(kind[c]) /\ Len(kind[c]) \in Nat
    BY <1>14 DEF TypeOK, Continue
  <2>3. ASSUME NEW d \in Conns
        PROVE  received[d] <= sent'[d] /\ sent'[d] <= 3 * Len(kind[d])
    <3>1. /\ received[d] <= sent[d] /\ sent[d] <= 3 * Len(kind[d])
          /\ received[d] \in Nat /\ sent[d] \in Nat
      BY Counts
    <3>2. QED  BY <2>1, <2>2, <3>1
  <2>4. QED  BY <1>14, <2>1, <2>3 DEF TypeOK, Continue
<1>15. ASSUME NEW c \in Conns, NEW how \in {"fin", "rst"}, Leave(c, how)
       PROVE  TypeOK'
  BY <1>15 DEF TypeOK, Leave
<1>16. QED
  BY <1>0, <1>1, <1>2, <1>3, <1>4, <1>5, <1>6, <1>7, <1>8, <1>9, <1>10, <1>11, <1>12,
     <1>13, <1>14, <1>15 DEF Next, Worker, Client, Feed

-----------------------------------------------------------------------------
(* What a step does to the places of connections.                           *)

\* One or two operations of the reactor, the timer or the clients.
Notice == /\ \E x \in Ops : x[1] \in {"ready", "tick"} /\ queue' = Append(queue, x)
          /\ UNCHANGED <<reading, running, timer, sock>>

Stays == UNCHANGED <<queue, reading, running, timer, sock>>

\* The handler of c goes on.
GoesOn(c) == /\ running = c
             /\ UNCHANGED <<queue, reading, running>>
             /\ \/ UNCHANGED <<timer, sock>>
                \/ CancelDeadline(c) /\ Closing({})

\* The handler of c ends, and c with it.
Ends(c) == /\ running = c /\ running' = NoConn
           /\ UNCHANGED <<queue, reading>>
           /\ CancelDeadline(c)
           /\ \E C \in {{}, {c}} : Closing(C)

LEMMA Moves ==
  ASSUME [Next]_vars
  PROVE  \/ Notice \/ Stays \/ Tick
         \/ \E c \in Conns : \/ Accept(c) \/ Start(c) \/ ReadNothing(c) \/ ReadFails(c)
                             \/ ReadSome(c) \/ ReadAborted(c)
                             \/ GoesOn(c) \/ Ends(c) \/ FinishReadOn(c)
<1> USE DEF timer, client
<1>0. CASE UNCHANGED vars
  BY <1>0 DEF vars, Stays
<1>1. ASSUME NEW c \in Conns, Readable(c)
      PROVE  Notice
  BY <1>1 DEF Readable, Notice, Ops
<1>2. CASE TickExpires
  BY <1>2 DEF TickExpires, Notice, Ops
<1>3. ASSUME NEW c \in Conns, FeedUrlPiece(c) \/ FeedUrl(c) \/ FeedGarbled(c)
      PROVE  GoesOn(c)
  BY <1>3 DEF FeedUrlPiece, FeedUrl, FeedGarbled, Feeding, GoesOn
<1>4. ASSUME NEW c \in Conns, HandleUpgrade(c) \/ HandleRequest(c) \/ StreamBreaks(c)
      PROVE  GoesOn(c)
  <2>1. Feeding(c, 3) /\ CancelDeadline(c)
    BY <1>4 DEF HandleUpgrade, HandleRequest, StreamBreaks, Handling
  <2>2. UNCHANGED <<queue, reading, running>> /\ Closing({})
    BY <1>4 DEF HandleUpgrade, HandleRequest, StreamBreaks
  <2>3. QED  BY <2>1, <2>2 DEF Feeding, GoesOn
<1>5. ASSUME NEW c \in Conns, HandleThrows(c)
      PROVE  Ends(c)
  BY <1>5 DEF HandleThrows, Handling, Feeding, Ends
<1>6. ASSUME NEW c \in Conns, FinishError(c) \/ FinishClose(c)
      PROVE  Ends(c)
  BY <1>6 DEF FinishError, FinishClose, Fed, Ends
<1>7. ASSUME NEW c \in Conns,
             \/ \E k \in Kinds : Begin(c, k)
             \/ Continue(c)
             \/ \E how \in {"fin", "rst"} : Leave(c, how)
      PROVE  Stays
  BY <1>7 DEF Begin, Continue, Leave, Stays
<1>8. QED
  BY <1>0, <1>1, <1>2, <1>3, <1>4, <1>5, <1>6, <1>7 DEF Next, Worker, Client, Feed, Finish

-----------------------------------------------------------------------------
(* The tasks of the timer.                                                  *)

LEMMA TimerMoves ==
  ASSUME [Next]_vars
  PROVE  \/ UNCHANGED timer \/ Tick
         \/ \E c \in Conns : CancelDeadline(c) \/ StartDeadline(c)
<1> USE DEF timer, client
<1>1. CASE Notice \/ Stays \/ Tick
  BY <1>1 DEF Notice, Stays
<1>2. ASSUME NEW c \in Conns, Accept(c) \/ ReadNothing(c) \/ ReadSome(c)
      PROVE  UNCHANGED timer
  BY <1>2 DEF Accept, ReadNothing, ReadSome
<1>3. ASSUME NEW c \in Conns, Start(c) \/ FinishReadOn(c)
      PROVE  StartDeadline(c)
  BY <1>3 DEF Start, FinishReadOn
<1>4. ASSUME NEW c \in Conns, ReadFails(c) \/ ReadAborted(c) \/ GoesOn(c) \/ Ends(c)
      PROVE  UNCHANGED timer \/ CancelDeadline(c)
  BY <1>4 DEF ReadFails, ReadAborted, GoesOn, Ends
<1>5. QED  BY <1>1, <1>2, <1>3, <1>4, Moves

LEMMA TasksStep ==
  ASSUME TypeOK, TasksOwned, [Next]_vars
  PROVE  TasksOwned'
<1>0. \A t \in tasks : t.id \in Nat /\ t.owner \in Conns /\ t \in Task
  BY DEF TypeOK, Task
<1>1. CASE UNCHANGED timer
  BY <1>1 DEF timer, TasksOwned
<1>2. ASSUME NEW c \in Conns, CancelDeadline(c)
      PROVE  TasksOwned'
  BY <1>2 DEF CancelDeadline, Without, TasksOwned
<1>3. ASSUME NEW c \in Conns, StartDeadline(c)
      PROVE  TasksOwned'
  <2> DEFINE new == [id |-> highest_id + 1, owner |-> c, age |-> 0]
  <2>1. /\ tasks' = Without(c) \cup {new} /\ highest_id' = highest_id + 1
        /\ task_id' = [task_id EXCEPT ![c] = highest_id + 1]
        /\ highest_id \in Nat /\ task_id \in [Conns -> Nat]
    BY <1>3 DEF StartDeadline, TypeOK
  <2>2. new.id = highest_id + 1 /\ new.owner = c
    OBVIOUS
  <2> HIDE DEF new
  <2>3. ASSUME NEW t \in Without(c)
        PROVE  /\ t.id = task_id'[t.owner] /\ t.id \in 1..highest_id
               /\ \A u \in Without(c) : u.id = t.id => u = t
    BY <1>0, <2>1 DEF TasksOwned, Without
  <2>4. \A t \in Without(c) : t.id # highest_id + 1 /\ t.id \in 1..(highest_id + 1)
    BY <2>1, <2>3
  <2>5. task_id'[c] = highest_id + 1 /\ highest_id + 1 \in 1..(highest_id + 1)
    BY <2>1
  <2>6. QED  BY <2>1, <2>2, <2>3, <2>4, <2>5 DEF TasksOwned
<1>4. CASE Tick
  <2>1. PICK T : T \subseteq tasks /\ tasks' = Older(T)
    BY <1>4 DEF Tick
  <2>2. task_id' = task_id /\ ResetIds
    BY <1>4 DEF Tick
  <2>3. \A t \in tasks' : \E u \in T : t = [u EXCEPT !.age = @ + 1] /\ t.id = u.id /\ t.owner = u.owner
    <3>1. \A u \in T : /\ [u EXCEPT !.age = @ + 1].id = u.id
                       /\ [u EXCEPT !.age = @ + 1].owner = u.owner
      BY <1>0, <2>1 DEF Task
    <3>2. QED  BY <2>1, <3>1 DEF Older
  <2>4. tasks' # {} => highest_id' = highest_id
    BY <2>2 DEF ResetIds
  <2>5. QED  BY <2>1, <2>2, <2>3, <2>4 DEF TasksOwned
<1>5. QED  BY <1>1, <1>2, <1>3, <1>4, TimerMoves

-----------------------------------------------------------------------------
(* The places of connections.                                               *)

WherePlaces == StartOnce /\ Placed /\ Served /\ Fresh

LEMMA TaskOwners == ASSUME TypeOK PROVE \A t \in tasks : t.owner \in Conns
BY DEF TypeOK, Task

\* Every task of c is the one it cancels.
LEMMA Cancelled ==
  ASSUME Where, NEW c \in Conns, CancelDeadline(c)
  PROVE  tasks' \subseteq tasks /\ \A t \in tasks' : t.owner # c
BY DEF Where, TasksOwned, CancelDeadline, Without

LEMMA NoticeStep ==
  ASSUME Where, Notice \/ Stays
  PROVE  WherePlaces'
<1> USE DEF timer
<1>1. CASE Stays
  BY <1>1 DEF Stays, Where, WherePlaces, StartOnce, Placed, Served, Fresh, Queued
<1>2. CASE Notice
  <2>1. PICK x \in Ops : x[1] \in {"ready", "tick"} /\ queue' = Append(queue, x)
    BY <1>2 DEF Notice
  <2>2. StartOnce' /\ Range(queue') = Range(queue) \cup {x}
    BY <2>1, Appended DEF Where, TypeOK
  <2>3. \A c : (Queued("start", c)' <=> Queued("start", c))
             /\ (Queued("aborted", c)' <=> Queued("aborted", c))
    BY <2>1, <2>2 DEF Queued
  <2>4. QED  BY <1>2, <2>2, <2>3 DEF Notice, Where, WherePlaces, Placed, Served, Fresh
<1>3. QED  BY <1>1, <1>2

LEMMA AcceptStep ==
  ASSUME Where, NEW c \in Conns, Accept(c)
  PROVE  WherePlaces'
<1> USE DEF timer
<1>1. /\ sock[c] = "none" /\ sock' = [sock EXCEPT ![c] = "open"]
      /\ queue' = Append(queue, <<"start", c>>) /\ <<"start", c>> \in Ops
      /\ UNCHANGED <<reading, running, tasks>>
  BY DEF Accept, Ops
<1>2. ~Queued("start", c) /\ ~Queued("aborted", c) /\ c \notin reading /\ running # c
  BY <1>1 DEF Where, Served, Fresh
<1>3. StartOnce' /\ Range(queue') = Range(queue) \cup {<<"start", c>>}
  BY <1>1, <1>2, Appended DEF Where, TypeOK, Queued
<1>4. \A d : (Queued("start", d)' <=> Queued("start", d) \/ d = c)
            /\ (Queued("aborted", d)' <=> Queued("aborted", d))
  BY <1>3 DEF Queued
<1>5. sock'[c] = "open" /\ \A d \in Conns : d # c => sock'[d] = sock[d]
  BY <1>1 DEF Where, TypeOK
<1>6. Placed'
  BY <1>1, <1>2, <1>4 DEF Where, Placed
<1>7. Served'
  BY <1>1, <1>4, <1>5 DEF Where, Served
<1>8. Fresh'
  BY <1>1, <1>4, <1>5, TaskOwners DEF Where, Fresh
<1>9. QED  BY <1>3, <1>6, <1>7, <1>8 DEF WherePlaces

LEMMA StartStep ==
  ASSUME Where, NEW c \in Conns, Start(c)
  PROVE  WherePlaces' /\ sock' = sock
<1> USE DEF timer
<1>1. /\ queue # <<>> /\ Head(queue) = <<"start", c>> /\ queue' = Tail(queue)
      /\ reading' = reading \cup {c} /\ running' = running /\ running = NoConn
      /\ StartDeadline(c) /\ Closing({})
  BY DEF Start, Take
<1>2. /\ StartOnce' /\ Range(queue) = {<<"start", c>>} \cup Range(queue')
      /\ <<"start", c>> \notin Range(queue')
  <2>1. queue \in Seq(Ops) /\ StartOnce /\ <<"start", c>>[1] = "start"
    BY DEF Where, TypeOK
  <2>2. QED  BY <1>1, <2>1, Taken
<1>3. \A d : (Queued("start", d)' <=> Queued("start", d) /\ d # c)
            /\ (Queued("aborted", d)' <=> Queued("aborted", d))
  BY <1>2 DEF Queued
<1>4. Queued("start", c)
  BY <1>2 DEF Queued
<1>5. sock[c] = "open" /\ c \notin reading /\ ~Queued("aborted", c)
  BY <1>4 DEF Where, Placed, Served
<1>6. ASSUME NEW d \in Conns, sock[d] = "open"
      PROVE  Held(d)'
  BY <1>1, <1>3, <1>6 DEF Where, Served, Held
<1>7. sock' = sock
  BY <1>1, <1>6 DEF Closing, Where, TypeOK
<1>8. Placed'
  BY <1>1, <1>3, <1>5, ConnectionsAssumption DEF Where, Placed
<1>9. Served'
  BY <1>1, <1>3, <1>5, <1>7 DEF Where, Served
<1>10. \A t \in tasks' : t \in tasks \/ t.owner = c
  BY <1>1 DEF StartDeadline, Without
<1>11. Fresh'
  BY <1>3, <1>5, <1>7, <1>10 DEF Where, Fresh
<1>12. QED  BY <1>2, <1>7, <1>8, <1>9, <1>11 DEF WherePlaces

\* A handler other than a start is taken from the queue.
LEMMA TakenFrom ==
  ASSUME Where, NEW op, NEW c, op # "start", Take(op, c), queue' = Tail(queue)
  PROVE  /\ StartOnce' /\ running = NoConn /\ Queued(op, c)
         /\ \A d : Queued("start", d)' <=> Queued("start", d)
         /\ \A d : Queued("aborted", d)' => Queued("aborted", d)
<1>1. /\ queue \in Seq(Ops) /\ StartOnce /\ queue # <<>>
      /\ Head(queue) = <<op, c>> /\ running = NoConn
  BY DEF Where, TypeOK, Take
<1>2. StartOnce' /\ Range(queue) = {<<op, c>>} \cup Range(queue')
  BY <1>1, Taken
<1>3. QED  BY <1>1, <1>2 DEF Queued

LEMMA NothingStep ==
  ASSUME Where, NEW c \in Conns, ReadNothing(c)
  PROVE  WherePlaces'
<1> USE DEF timer
<1>1. /\ Take("ready", c) /\ queue' = Tail(queue)
      /\ UNCHANGED <<reading, running, sock, tasks>>
  BY DEF ReadNothing
<1>2. /\ StartOnce'
      /\ \A d : Queued("start", d)' <=> Queued("start", d)
      /\ \A d : Queued("aborted", d)' => Queued("aborted", d)
  BY <1>1, TakenFrom
<1>3. QED  BY <1>1, <1>2 DEF Where, WherePlaces, Placed, Served, Fresh

LEMMA FailsStep ==
  ASSUME Where, NEW c \in Conns, ReadFails(c)
  PROVE  WherePlaces' /\ sock' = [sock EXCEPT ![c] = "closed"] /\ sock[c] = "open"
<1> USE DEF timer
<1>1. /\ Take("ready", c) /\ queue' = Tail(queue) /\ c \in reading
      /\ reading' = reading \ {c} /\ running' = running
      /\ CancelDeadline(c) /\ Closing({c})
  BY DEF ReadFails
<1>2. /\ StartOnce' /\ running = NoConn
      /\ \A d : Queued("start", d)' <=> Queued("start", d)
      /\ \A d : Queued("aborted", d)' => Queued("aborted", d)
  BY <1>1, TakenFrom
<1>3. sock[c] = "open" /\ ~Queued("start", c)
  BY <1>1 DEF Where, Placed, Served
<1>4. ASSUME NEW d \in Conns, sock[d] = "open", d # c
      PROVE  Held(d)'
  BY <1>1, <1>2, <1>4 DEF Where, Served, Held
<1>5. sock' = [sock EXCEPT ![c] = "closed"]
  BY <1>1, <1>3, <1>4 DEF Closing, Where, TypeOK
<1>6. sock'[c] = "closed" /\ \A d \in Conns : d # c => sock'[d] = sock[d]
  BY <1>5 DEF Where, TypeOK
<1>7. Placed'
  BY <1>1, <1>2 DEF Where, Placed
<1>8. Served'
  BY <1>1, <1>2, <1>3, <1>6, ConnectionsAssumption DEF Where, Served
<1>9. Fresh'
  <2>1. tasks' \subseteq tasks
    BY <1>1, Cancelled
  <2>2. QED  BY <1>2, <1>3, <1>6, <2>1, TaskOwners DEF Where, Fresh
<1>10. QED  BY <1>2, <1>3, <1>5, <1>7, <1>8, <1>9 DEF WherePlaces

LEMMA SomeStep ==
  ASSUME Where, NEW c \in Conns, ReadSome(c)
  PROVE  WherePlaces' /\ sock' = sock
<1> USE DEF timer
<1>1. /\ Take("ready", c) /\ queue' = Tail(queue) /\ c \in reading
      /\ reading' = reading \ {c} /\ running' = c
      /\ UNCHANGED <<sock, tasks>>
  BY DEF ReadSome
<1>2. /\ StartOnce' /\ running = NoConn
      /\ \A d : Queued("start", d)' <=> Queued("start", d)
      /\ \A d : Queued("aborted", d)' => Queued("aborted", d)
  BY <1>1, TakenFrom
<1>3. Placed'
  BY <1>1, <1>2 DEF Where, Placed
<1>4. Served'
  BY <1>1, <1>2, ConnectionsAssumption DEF Where, Served
<1>5. Fresh'
  BY <1>1, <1>2 DEF Where, Fresh
<1>6. QED  BY <1>1, <1>2, <1>3, <1>4, <1>5 DEF WherePlaces

LEMMA AbortedStep ==
  ASSUME Where, NEW c \in Conns, ReadAborted(c)
  PROVE  WherePlaces' /\ sock' = sock
<1> USE DEF timer
<1>1. /\ Take("aborted", c) /\ queue' = Tail(queue)
      /\ UNCHANGED <<reading, running>>
      /\ CancelDeadline(c) /\ Closing({c})
  BY DEF ReadAborted
<1>2. /\ StartOnce' /\ running = NoConn /\ Queued("aborted", c)
      /\ \A d : Queued("start", d)' <=> Queued("start", d)
      /\ \A d : Queued("aborted", d)' => Queued("aborted", d)
  BY <1>1, TakenFrom
<1>3. sock[c] # "open"
  BY <1>2 DEF Where, Placed, Served
<1>4. ASSUME NEW d \in Conns, sock[d] = "open"
      PROVE  Held(d)' /\ d # c
  BY <1>1, <1>2, <1>3, <1>4 DEF Where, Served, Held
<1>5. sock' = sock
  BY <1>1, <1>4 DEF Closing, Where, TypeOK
<1>6. tasks' \subseteq tasks
  BY <1>1, Cancelled
<1>7. QED  BY <1>1, <1>2, <1>5, <1>6 DEF Where, WherePlaces, Placed, Served, Fresh

LEMMA GoesOnStep ==
  ASSUME Where, NEW c \in Conns, GoesOn(c)
  PROVE  WherePlaces' /\ sock' = sock /\ sock[c] = "open"
<1> USE DEF timer
<1>1. running = c /\ UNCHANGED <<queue, reading, running>>
  BY DEF GoesOn
<1>2. \A d : (Queued("start", d)' <=> Queued("start", d))
            /\ (Queued("aborted", d)' <=> Queued("aborted", d))
  BY <1>1 DEF Queued
<1>3. tasks' \subseteq tasks
  BY Cancelled DEF GoesOn
<1>4. ASSUME NEW d \in Conns, sock[d] = "open"
      PROVE  Held(d)'
  BY <1>1, <1>2, <1>4 DEF Where, Served, Held
<1>5. sock' = sock
  BY <1>4 DEF GoesOn, Closing, Where, TypeOK
<1>6. sock[c] = "open"
  BY <1>1 DEF Where, Served
<1>7. StartOnce'
  BY <1>1 DEF Where, StartOnce
<1>8. QED  BY <1>1, <1>2, <1>3, <1>5, <1>6, <1>7 DEF Where, WherePlaces, Placed, Served, Fresh

LEMMA EndsStep ==
  ASSUME Where, NEW c \in Conns, Ends(c)
  PROVE  WherePlaces' /\ sock' = [sock EXCEPT ![c] = "closed"] /\ sock[c] = "open"
<1>1. /\ running = c /\ running' = NoConn /\ UNCHANGED <<queue, reading>>
      /\ CancelDeadline(c) /\ \E C \in {{}, {c}} : Closing(C)
  BY DEF Ends
<1>2. \A d : (Queued("start", d)' <=> Queued("start", d))
            /\ (Queued("aborted", d)' <=> Queued("aborted", d))
  BY <1>1 DEF Queued
<1>3. tasks' \subseteq tasks /\ \A t \in tasks' : t.owner # c
  BY <1>1, Cancelled
<1>4. sock[c] = "open" /\ c \notin reading /\ ~Queued("start", c) /\ ~Queued("aborted", c)
  BY <1>1 DEF Where, Served, Placed
<1>5. ASSUME NEW d \in Conns, sock[d] = "open", d # c
      PROVE  Held(d)'
  BY <1>1, <1>2, <1>5 DEF Where, Served, Held
<1>6. ~Held(c)'
  BY <1>1, <1>2, <1>3, <1>4, ConnectionsAssumption DEF Held
<1>7. sock' = [sock EXCEPT ![c] = "closed"]
  <2>1. PICK C \in {{}, {c}} : Closing(C)
    BY <1>1
  <2>2. sock' = [d \in Conns |->
           IF sock[d] = "open" /\ (d \in C \/ ~Held(d)') THEN "closed" ELSE sock[d]]
    BY <2>1 DEF Closing
  <2>3. \A d \in Conns : sock'[d] = IF d = c THEN "closed" ELSE sock[d]
    BY <1>4, <1>5, <1>6, <2>1, <2>2
  <2>4. QED  BY <2>2, <2>3 DEF Where, TypeOK
<1>8. sock'[c] = "closed" /\ \A d \in Conns : d # c => sock'[d] = sock[d]
  BY <1>7 DEF Where, TypeOK
<1>9. Placed' /\ StartOnce'
  BY <1>1, <1>2, ConnectionsAssumption DEF Where, Placed, StartOnce
<1>10. Served'
  BY <1>1, <1>2, <1>4, <1>8, ConnectionsAssumption DEF Where, Served
<1>11. Fresh'
  BY <1>2, <1>3, <1>4, <1>8, TaskOwners DEF Where, Fresh
<1>12. QED  BY <1>4, <1>7, <1>9, <1>10, <1>11 DEF WherePlaces

LEMMA ReadOnStep ==
  ASSUME Where, NEW c \in Conns, FinishReadOn(c)
  PROVE  WherePlaces' /\ sock' = sock /\ sock[c] = "open"
<1>1. /\ running = c /\ running' = NoConn /\ queue' = queue
      /\ reading' = reading \cup {c}
      /\ StartDeadline(c) /\ Closing({})
  BY DEF FinishReadOn, Fed
<1>2. \A d : (Queued("start", d)' <=> Queued("start", d))
            /\ (Queued("aborted", d)' <=> Queued("aborted", d))
  BY <1>1 DEF Queued
<1>3. sock[c] = "open" /\ c \notin reading /\ ~Queued("start", c) /\ ~Queued("aborted", c)
  BY <1>1 DEF Where, Served, Placed
<1>4. ASSUME NEW d \in Conns, sock[d] = "open"
      PROVE  Held(d)'
  BY <1>1, <1>2, <1>4 DEF Where, Served, Held
<1>5. sock' = sock
  BY <1>1, <1>4 DEF Closing, Where, TypeOK
<1>6. \A t \in tasks' : t \in tasks \/ t.owner = c
  BY <1>1 DEF StartDeadline, Without
<1>7. Placed' /\ StartOnce'
  BY <1>1, <1>2, <1>3, ConnectionsAssumption DEF Where, Placed, StartOnce
<1>8. Served'
  BY <1>1, <1>2, <1>3, <1>5, ConnectionsAssumption DEF Where, Served
<1>9. Fresh'
  BY <1>2, <1>3, <1>5, <1>6 DEF Where, Fresh
<1>10. QED  BY <1>3, <1>5, <1>7, <1>8, <1>9 DEF WherePlaces

LEMMA TickStep ==
  ASSUME Where, Tick
  PROVE  /\ WherePlaces'
         /\ \E C \in SUBSET Conns :
               sock' = [c \in Conns |-> IF c \in C THEN "closed" ELSE sock[c]]
<1> USE DEF timer
<1>1. PICK last \in 0..highest_id :
        LET expired == {t \in tasks : t.id <= last}
            closed  == {c \in Conns : sock[c] = "open" /\ \E t \in expired : t.owner = c}
            aborted == closed \cap reading
        IN /\ \E s \in Bijection(1..Cardinality(aborted), aborted) :
                queue' = Tail(queue) \o Aborted(s)
           /\ reading' = reading \ closed
           /\ tasks' = Older(tasks \ expired)
           /\ Closing(closed)
  BY DEF Tick
<1> DEFINE expired == {t \in tasks : t.id <= last}
           closed  == {c \in Conns : sock[c] = "open" /\ \E t \in expired : t.owner = c}
           aborted == closed \cap reading
<1>2. /\ aborted \in SUBSET Conns
      /\ \A c \in closed : sock[c] = "open" /\ ~Queued("start", c)
  BY TaskOwners DEF Where, Fresh
<1>3. /\ StartOnce'
      /\ \A c : Queued("start", c)' <=> Queued("start", c)
      /\ \A c : Queued("aborted", c)' <=> Queued("aborted", c) \/ c \in aborted
  <2>1. PICK s \in Bijection(1..Cardinality(aborted), aborted) :
          queue' = Tail(queue) \o Aborted(s)
    BY <1>1
  <2>2. /\ queue \in Seq(Ops) /\ StartOnce /\ queue # <<>>
        /\ Head(queue) = <<"tick", NoConn>>
    BY DEF Where, TypeOK, Tick, Take
  <2> HIDE DEF aborted
  <2>3. QED  BY <1>2, <2>1, <2>2, Ticked
<1>4. \A t \in tasks' : \E u \in tasks : t.owner = u.owner
  <2>1. \A u \in tasks : [u EXCEPT !.age = @ + 1].owner = u.owner
    BY DEF Where, TypeOK, Task
  <2>2. QED  BY <1>1, <2>1 DEF Older
<1>5. /\ reading' = reading \ closed /\ closed \subseteq Conns /\ Closing(closed)
      /\ running' = running /\ running = NoConn
  BY <1>1 DEF Tick, Take
<1> HIDE DEF closed, expired
<1>6. ASSUME NEW d \in Conns, sock[d] = "open", d \notin closed
      PROVE  Held(d)'
  BY <1>3, <1>5, <1>6 DEF Where, Served, Held
<1>7. sock' = [c \in Conns |-> IF c \in closed THEN "closed" ELSE sock[c]]
  BY <1>2, <1>5, <1>6 DEF Closing
<1>8. Placed'
  BY <1>2, <1>3, <1>5, ConnectionsAssumption DEF Where, Placed
<1>9. Served'
  BY <1>2, <1>3, <1>5, <1>7, ConnectionsAssumption DEF Where, Served
<1>10. Fresh'
  BY <1>2, <1>3, <1>4, <1>7, TaskOwners DEF Where, Fresh
<1>11. QED  BY <1>3, <1>5, <1>7, <1>8, <1>9, <1>10 DEF WherePlaces

LEMMA WhereStep ==
  ASSUME Where, [Next]_vars
  PROVE  Where'
<1>1. TypeOK' /\ TasksOwned'
  BY TypeStep, TasksStep DEF Where
<1>2. CASE Notice \/ Stays
  BY <1>1, <1>2, NoticeStep DEF Where, WherePlaces
<1>3. CASE Tick
  BY <1>1, <1>3, TickStep DEF Where, WherePlaces
<1>4. ASSUME NEW c \in Conns, Accept(c) \/ Start(c) \/ ReadNothing(c) \/ ReadFails(c)
      PROVE  Where'
  BY <1>1, <1>4, AcceptStep, StartStep, NothingStep, FailsStep DEF Where, WherePlaces
<1>5. ASSUME NEW c \in Conns, ReadSome(c) \/ ReadAborted(c) \/ GoesOn(c)
      PROVE  Where'
  BY <1>1, <1>5, SomeStep, AbortedStep, GoesOnStep DEF Where, WherePlaces
<1>6. ASSUME NEW c \in Conns, Ends(c) \/ FinishReadOn(c)
      PROVE  Where'
  BY <1>1, <1>6, EndsStep, ReadOnStep DEF Where, WherePlaces
<1>7. QED  BY <1>2, <1>3, <1>4, <1>5, <1>6, Moves

LEMMA WhereInit == Init => Where
<1> SUFFICES ASSUME Init PROVE Where
  OBVIOUS
<1>1. TypeOK
  BY DEF Init, TypeOK
<1>2. Range(queue) = {}
  BY DEF Init, Range
<1>3. StartOnce /\ TasksOwned
  BY DEF Init, StartOnce, TasksOwned
<1>4. Placed /\ Served /\ Fresh
  BY <1>2, ConnectionsAssumption DEF Init, Placed, Served, Fresh, Queued
<1>5. QED  BY <1>1, <1>3, <1>4 DEF Where

-----------------------------------------------------------------------------
(* What was parsed is answered.                                             *)

LEMMA Thirds ==
  ASSUME NEW n \in Nat
  PROVE  /\ Part(n + 1) \in {1, 2} => (n + 1) \div 3 = n \div 3
         /\ Part(n + 1) = 3 => (n + 1) \div 3 = (n \div 3) + 1
BY DEF Part

\* The part that is fed, and what it does to the count of requests.
LEMMA Fed1 ==
  ASSUME Where, NEW c \in Conns, NEW p \in 1..3, Feeding(c, p), Parse(c)
  PROVE  /\ running = c /\ fed = "ok" /\ sock[c] = "open"
         /\ parsed[c] < received[c] /\ parsed[c] \in Nat
         /\ parsed' = [parsed EXCEPT ![c] = parsed[c] + 1]
         /\ parsed'[c] = parsed[c] + 1 /\ \A d \in Conns : d # c => parsed'[d] = parsed[d]
         /\ p \in {1, 2} => parsed'[c] \div 3 = parsed[c] \div 3
         /\ p = 3 => parsed'[c] \div 3 = (parsed[c] \div 3) + 1
<1>1. parsed \in [Conns -> Nat]
  BY DEF Where, TypeOK
<1>2. /\ running = c /\ fed = "ok" /\ parsed[c] < received[c]
      /\ Part(parsed[c] + 1) = p /\ parsed' = [parsed EXCEPT ![c] = parsed[c] + 1]
  BY DEF Feeding, Parse, Current
<1>3. sock[c] = "open"
  BY <1>2 DEF Where, Served
<1>4. parsed'[c] = parsed[c] + 1 /\ \A d \in Conns : d # c => parsed'[d] = parsed[d]
  BY <1>1, <1>2
<1>5. QED  BY <1>1, <1>2, <1>3, <1>4, Thirds

\* An answer to a client that is there.
LEMMA Written ==
  ASSUME Where, NEW c \in Conns, NEW status, Write(c, status)
  PROVE  /\ peer[c] # "rst" => Len(answered'[c]) = Len(answered[c]) + 1
         /\ \A d \in Conns : d # c => answered'[d] = answered[d]
<1>1. answered \in [Conns -> Seq({200, 400, 404})]
  BY DEF Where, TypeOK
<1>2. Len(Append(answered[c], status)) = Len(answered[c]) + 1
  BY <1>1
<1>3. QED  BY <1>1, <1>2 DEF Write

LEMMA QuietStep ==
  ASSUME Answering,
         UNCHANGED <<parsed, answered, message_complete, fed, close_connection, received,
                     running>>,
         \A d \in Conns : /\ sock'[d] = "open" => sock[d] = "open"
                          /\ sock'[d] = "none" => sock[d] = "none"
                          /\ peer[d] = "rst" => peer'[d] = "rst"
  PROVE  Answering'
BY DEF Answering

LEMMA AnsweringStep ==
  ASSUME Where, Answering, [Next]_vars
  PROVE  Answering'
<1> USE DEF timer, client
<1>1. CASE UNCHANGED vars
  BY <1>1, QuietStep DEF vars
<1>2. ASSUME NEW c \in Conns, Accept(c)
      PROVE  Answering'
  <2>1. /\ sock[c] = "none" /\ sock'[c] = "open"
        /\ \A d \in Conns : d # c => sock'[d] = sock[d]
        /\ UNCHANGED <<parsed, answered, message_complete, fed, close_connection, received,
                       running, peer>>
    BY <1>2 DEF Accept, Where, TypeOK
  <2>2. Len(answered[c]) = parsed[c] \div 3
    BY <2>1 DEF Answering
  <2>3. QED  BY <2>1, <2>2 DEF Answering
<1>3. ASSUME NEW c \in Conns, Start(c) \/ ReadAborted(c) \/ ReadFails(c)
      PROVE  Answering'
  <2>1. sock' = sock \/ sock' = [sock EXCEPT ![c] = "closed"]
    BY <1>3, StartStep, AbortedStep, FailsStep
  <2>2. UNCHANGED <<parsed, answered, message_complete, fed, close_connection, received,
                    running, peer>>
    BY <1>3 DEF Start, ReadAborted, ReadFails
  <2>3. \A d \in Conns : sock'[d] = sock[d] \/ sock'[d] = "closed"
    BY <2>1 DEF Where, TypeOK
  <2>4. QED  BY <2>2, <2>3, QuietStep
<1>4. CASE Tick
  <2>1. \A d \in Conns : sock'[d] = sock[d] \/ sock'[d] = "closed"
    BY <1>4, TickStep
  <2>2. UNCHANGED <<parsed, answered, message_complete, fed, close_connection, received,
                    running, peer>>
    BY <1>4 DEF Tick
  <2>3. QED  BY <2>1, <2>2, QuietStep
<1>5. ASSUME TickExpires \/ \E c \in Conns : Readable(c) \/ ReadNothing(c)
      PROVE  Answering'
  BY <1>5, QuietStep DEF TickExpires, Readable, ReadNothing
<1>6. ASSUME NEW c \in Conns,
             (\E k \in Kinds : Begin(c, k)) \/ Continue(c) \/ \E how \in {"fin", "rst"} : Leave(c, how)
      PROVE  Answering'
  <2>1. UNCHANGED <<parsed, answered, message_complete, fed, close_connection, received,
                    running, sock>>
    BY <1>6 DEF Begin, Continue, Leave
  <2>2. \A d \in Conns : peer[d] = "rst" => peer'[d] = "rst"
    BY <1>6 DEF Begin, Continue, Leave, Where, TypeOK
  <2>3. QED  BY <2>1, <2>2, QuietStep
<1>7. ASSUME NEW c \in Conns, ReadSome(c)
      PROVE  Answering'
  <2>1. /\ sock' = sock /\ sock[c] = "open" /\ running = NoConn /\ running' = c /\ fed' = "ok"
        /\ UNCHANGED <<answered, message_complete, close_connection, peer>>
    BY <1>7 DEF ReadSome, Take, Where, Served
  <2>2. ~message_complete[c] => parsed' = parsed
    BY <1>7 DEF ReadSome
  <2>3. \A d \in Conns : d # c => parsed'[d] = parsed[d]
    BY <1>7 DEF ReadSome, Where, TypeOK
  <2>4. QED  BY <2>1, <2>2, <2>3, ConnectionsAssumption DEF Answering
<1>8. ASSUME NEW c \in Conns, FeedUrlPiece(c) \/ FeedUrl(c) \/ FeedGarbled(c)
      PROVE  Answering'
  <2>1. \E p \in 1..3 : Feeding(c, p) /\ Parse(c) /\ (p \in {1, 2} \/ FeedGarbled(c))
    BY <1>8 DEF FeedUrlPiece, FeedUrl, FeedGarbled
  <2>2. /\ running = c /\ fed = "ok" /\ sock[c] = "open" /\ parsed[c] < received[c]
        /\ parsed[c] \in Nat /\ received[c] \in Nat
        /\ \A d \in Conns : d # c => parsed'[d] = parsed[d]
        /\ parsed'[c] \div 3 = parsed[c] \div 3 \/ FeedGarbled(c)
    BY <2>1, Fed1, Counts DEF Where
  <2>3. UNCHANGED <<running, close_connection, sock, peer, received>>
    BY <1>8 DEF FeedUrlPiece, FeedUrl, FeedGarbled
  <2>4. \/ UNCHANGED <<fed, message_complete, answered>> /\ ~FeedGarbled(c)
        \/ fed' = "error" /\ UNCHANGED <<message_complete, answered>>
        \/ HandleNoRoute(c)
    BY <1>8 DEF FeedUrlPiece, FeedUrl, FeedGarbled, Feeding
  <2>5. /\ \/ fed' = "error" \/ message_complete[c]
           \/ UNCHANGED <<fed, answered>> /\ ~FeedGarbled(c)
        /\ \A d \in Conns : d # c => answered'[d] = answered[d]
        /\ \A d \in Conns : message_complete'[d] => message_complete[d]
    BY <2>4, Written DEF HandleNoRoute, Where, TypeOK
  <2>6. QED  BY <2>2, <2>3, <2>5 DEF Answering
<1>9. ASSUME NEW c \in Conns, HandleUpgrade(c) \/ HandleRequest(c) \/ StreamBreaks(c)
      PROVE  Answering'
  <2>1. Feeding(c, 3) /\ Parse(c) /\ UNCHANGED <<running, received>> /\ GoesOn(c) /\ peer[c] # "rst"
    BY <1>9 DEF HandleUpgrade, HandleRequest, StreamBreaks, Handling, GoesOn, Feeding
  <2>2. /\ running = c /\ fed = "ok" /\ sock[c] = "open" /\ sock' = sock
        /\ parsed[c] < received[c] /\ parsed[c] \in Nat /\ received[c] \in Nat
        /\ parsed'[c] = parsed[c] + 1
        /\ parsed'[c] \div 3 = (parsed[c] \div 3) + 1
        /\ \A d \in Conns : d # c => parsed'[d] = parsed[d]
    BY <2>1, Fed1, GoesOnStep, Counts DEF Where
  <2>3. Len(answered[c]) = parsed[c] \div 3
    BY <2>1, <2>2 DEF Answering
  <2>4. CASE HandleUpgrade(c)
    <3>1. /\ UNCHANGED <<message_complete, peer, answered>>
          /\ close_connection'[c]
          /\ fed' = "ok" => parsed'[c] = received[c]
      BY <2>2, <2>4 DEF HandleUpgrade, Where, TypeOK, Current
    <3>2. QED  BY <2>1, <2>2, <3>1 DEF Answering
  <2>5. CASE HandleRequest(c)
    <3>1. /\ UNCHANGED <<message_complete, peer, fed>>
          /\ Len(answered'[c]) = Len(answered[c]) + 1
          /\ \A d \in Conns : d # c => answered'[d] = answered[d]
      BY <2>1, <2>5, Written DEF HandleRequest
    <3>2. QED  BY <2>1, <2>2, <2>3, <3>1 DEF Answering
  <2>6. CASE StreamBreaks(c)
    <3>1. /\ UNCHANGED <<fed, answered>> /\ peer'[c] = "rst"
          /\ \A d \in Conns : d # c => /\ peer'[d] = peer[d]
                                     /\ message_complete'[d] = message_complete[d]
      BY <2>6 DEF StreamBreaks, Where, TypeOK
    <3>2. QED  BY <2>1, <2>2, <3>1 DEF Answering
  <2>7. QED  BY <1>9, <2>4, <2>5, <2>6
<1>10. ASSUME NEW c \in Conns, HandleThrows(c) \/ FinishError(c) \/ FinishClose(c)
       PROVE  Answering'
  <2>1. Ends(c)
    BY <1>10 DEF HandleThrows, Handling, Feeding, FinishError, FinishClose, Fed, Ends
  <2>2. /\ sock'[c] = "closed" /\ \A d \in Conns : d # c => sock'[d] = sock[d]
        /\ running = c /\ running' = NoConn
    <3>1. sock' = [sock EXCEPT ![c] = "closed"]
      BY <2>1, EndsStep
    <3>2. QED  BY <2>1, <3>1 DEF Where, TypeOK, Ends
  <2>3. /\ UNCHANGED <<answered, message_complete, fed, close_connection, received, peer>>
        /\ \A d \in Conns : d # c => parsed'[d] = parsed[d]
    BY <1>10 DEF HandleThrows, Handling, Parse, FinishError, FinishClose, Where, TypeOK
  <2>4. QED  BY <2>2, <2>3, ConnectionsAssumption DEF Answering
<1>11. ASSUME NEW c \in Conns, FinishReadOn(c)
       PROVE  Answering'
  <2>1. /\ running = c /\ running' = NoConn /\ fed = "ok" /\ ~close_connection[c]
        /\ UNCHANGED <<parsed, answered, message_complete, fed, close_connection, received, peer>>
    BY <1>11 DEF FinishReadOn, Fed
  <2>2. sock' = sock
    BY <1>11, ReadOnStep
  <2>3. QED  BY <2>1, <2>2, ConnectionsAssumption DEF Answering
<1>12. QED
  BY <1>1, <1>2, <1>3, <1>4, <1>5, <1>6, <1>7, <1>8, <1>9, <1>10, <1>11
     DEF Next, Worker, Client, Feed, Finish

-----------------------------------------------------------------------------
(* Which requests are read on after, and which get a status not their own.  *)

\* A step that neither reads, parses, answers nor ends a handler.
Idle == /\ UNCHANGED <<parsed, received, answered, message_complete, fed, close_connection,
                       running>>
        /\ \A d \in Conns : /\ sock'[d] = "open" => sock[d] = "open"
                            /\ peer[d] = "rst" => peer'[d] = "rst"

LEMMA ParserMoves ==
  ASSUME Where, [Next]_vars
  PROVE  Idle \/ \E c \in Conns : Accept(c) \/ ReadSome(c) \/ Feed(c) \/ Finish(c)
<1> USE DEF timer, client
<1>1. CASE UNCHANGED vars
  BY <1>1 DEF vars, Idle
<1>2. ASSUME NEW c \in Conns, Start(c) \/ ReadAborted(c) \/ ReadFails(c)
      PROVE  Idle
  <2>1. sock' = sock \/ sock' = [sock EXCEPT ![c] = "closed"]
    BY <1>2, StartStep, AbortedStep, FailsStep
  <2>2. UNCHANGED <<parsed, answered, message_complete, fed, close_connection, received,
                    running, peer>>
    BY <1>2 DEF Start, ReadAborted, ReadFails
  <2>3. QED  BY <2>1, <2>2 DEF Idle, Where, TypeOK
<1>3. CASE Tick
  <2>1. \A d \in Conns : sock'[d] = sock[d] \/ sock'[d] = "closed"
    BY <1>3, TickStep
  <2>2. UNCHANGED <<parsed, answered, message_complete, fed, close_connection, received,
                    running, peer>>
    BY <1>3 DEF Tick
  <2>3. QED  BY <2>1, <2>2 DEF Idle
<1>4. ASSUME TickExpires \/ \E c \in Conns : Readable(c) \/ ReadNothing(c)
      PROVE  Idle
  BY <1>4 DEF TickExpires, Readable, ReadNothing, Idle
<1>5. ASSUME NEW c \in Conns,
             (\E k \in Kinds : Begin(c, k)) \/ Continue(c) \/ \E how \in {"fin", "rst"} : Leave(c, how)
      PROVE  Idle
  <2>1. UNCHANGED <<parsed, answered, message_complete, fed, close_connection, received,
                    running, sock>>
    BY <1>5 DEF Begin, Continue, Leave
  <2>2. \A d \in Conns : peer[d] = "rst" => peer'[d] = "rst"
    BY <1>5 DEF Begin, Continue, Leave, Where, TypeOK
  <2>3. QED  BY <2>1, <2>2 DEF Idle
<1>6. QED  BY <1>1, <1>2, <1>3, <1>4, <1>5 DEF Next, Worker, Client

\* A request keeps its kind.
LEMMA KindStays ==
  ASSUME Where, [Next]_vars
  PROVE  \A c \in Conns : /\ Len(kind[c]) <= Len(kind'[c])
                          /\ \A i \in 1..Len(kind[c]) : kind'[c][i] = kind[c][i]
<1> USE DEF timer, client
<1>1. kind \in [Conns -> Seq(Kinds)]
  BY DEF Where, TypeOK
<1>2. CASE \E c \in Conns, k \in Kinds : Begin(c, k)
  <2>1. PICK c \in Conns, k \in Kinds : kind' = [kind EXCEPT ![c] = Append(@, k)]
    BY <1>2 DEF Begin
  <2>2. /\ Len(Append(kind[c], k)) = Len(kind[c]) + 1 /\ Len(kind[c]) \in Nat
        /\ \A i \in 1..Len(kind[c]) : Append(kind[c], k)[i] = kind[c][i]
    BY <1>1
  <2>3. \A d \in Conns : kind'[d] = IF d = c THEN Append(kind[c], k) ELSE kind[d]
    BY <1>1, <2>1
  <2>4. ASSUME NEW d \in Conns
        PROVE  /\ Len(kind[d]) <= Len(kind'[d])
               /\ \A i \in 1..Len(kind[d]) : kind'[d][i] = kind[d][i]
    <3>1. CASE d = c
      <4>1. kind'[c] = Append(kind[c], k)
        BY <2>3
      <4>2. Len(kind'[c]) = Len(kind[c]) + 1 /\ \A i \in 1..Len(kind[c]) : kind'[c][i] = kind[c][i]
        BY <2>2, <4>1
      <4>3. QED  BY <2>2, <3>1, <4>2
    <3>2. CASE d # c
      <4>1. kind'[d] = kind[d] /\ Len(kind[d]) \in Nat
        BY <1>1, <2>3, <3>2
      <4>2. QED  BY <4>1
    <3>3. QED  BY <3>1, <3>2
  <2>5. QED  BY <2>4
<1>3. CASE ~\E c \in Conns, k \in Kinds : Begin(c, k)
  <2>1. kind' = kind
    BY <1>3 DEF Next, vars, Worker, Client, Feed, Finish, Accept, Start, Readable, ReadNothing,
       ReadFails, ReadSome, ReadAborted, FeedUrlPiece, FeedUrl, FeedGarbled, HandleThrows,
       HandleUpgrade, HandleRequest, StreamBreaks, FinishError, FinishClose, FinishReadOn,
       TickExpires, Tick, Continue, Leave
  <2>2. \A c \in Conns : Len(kind[c]) \in Nat
    BY <1>1
  <2>3. QED  BY <2>1, <2>2
<1>4. QED  BY <1>2, <1>3

\* The next answer on a connection whose client is there is the one to the request
\* being parsed.
LEMMA NextAnswer ==
  ASSUME Where, Answering, NEW c \in Conns, NEW p \in 1..3, Feeding(c, p), peer[c] # "rst"
  PROVE  /\ running = c /\ fed = "ok" /\ sock[c] = "open" /\ ~message_complete[c]
         /\ parsed[c] \in Nat /\ Len(answered[c]) = parsed[c] \div 3
         /\ Request(Current(c)) = Len(answered[c]) + 1
         /\ Len(answered[c]) < Len(kind[c])
         /\ Kind(c) = kind[c][Len(answered[c]) + 1]
<1>1. running = c /\ fed = "ok" /\ sock[c] = "open" /\ parsed[c] < received[c]
  BY DEF Feeding, Where, Served
<1>2. /\ parsed[c] \in Nat /\ received[c] \in Nat /\ sent[c] \in Nat
      /\ received[c] <= sent[c] /\ sent[c] <= 3 * Len(kind[c]) /\ Len(kind[c]) \in Nat
  BY Counts DEF Where
<1>3. Len(answered[c]) = parsed[c] \div 3 /\ ~message_complete[c]
  BY <1>1, <1>2 DEF Answering
<1>4. parsed[c] \div 3 < Len(kind[c]) /\ Request(Current(c)) = (parsed[c] \div 3) + 1
  BY <1>1, <1>2 DEF Request, Current
<1>5. QED  BY <1>1, <1>2, <1>3, <1>4 DEF Kind

LEMMA HonouringStep ==
  ASSUME Where, Answering, Honouring, [Next]_vars
  PROVE  Honouring'
<1> USE DEF timer, client
<1>1. SUFFICES ASSUME NEW d \in Conns, sock'[d] = "open", peer'[d] # "rst",
                      running' = d => fed' = "ok", parsed'[d] \div 3 >= 1,
                      kind'[d][parsed'[d] \div 3] \in {"close", "upgrade"}
               PROVE  running' = d /\ close_connection'[d]
  BY DEF Honouring
<1>2. /\ parsed[d] \in Nat /\ parsed[d] \div 3 <= Len(kind[d]) /\ Len(kind[d]) \in Nat
      /\ parsed[d] \div 3 >= 1 => kind'[d][parsed[d] \div 3] = kind[d][parsed[d] \div 3]
  <2>1. /\ parsed[d] \in Nat /\ received[d] \in Nat /\ sent[d] \in Nat /\ Len(kind[d]) \in Nat
        /\ parsed[d] <= received[d] /\ received[d] <= sent[d] /\ sent[d] <= 3 * Len(kind[d])
    BY Counts DEF Where
  <2>2. parsed[d] \div 3 <= Len(kind[d]) /\ parsed[d] \div 3 \in Nat
    BY <2>1
  <2>3. QED  BY <2>1, <2>2, KindStays
<1>3. CASE Idle
  BY <1>1, <1>2, <1>3 DEF Idle, Honouring
<1>4. ASSUME NEW c \in Conns, Accept(c)
      PROVE  running' = d /\ close_connection'[d]
  <2>1. /\ sock[c] = "none" /\ \A e \in Conns : e # c => sock'[e] = sock[e]
        /\ UNCHANGED <<parsed, fed, close_connection, running, peer>>
    BY <1>4 DEF Accept, Where, TypeOK
  <2>2. d # c
    BY <1>1, <2>1 DEF Answering
  <2>3. QED  BY <1>1, <1>2, <2>1, <2>2 DEF Honouring
<1>5. ASSUME NEW c \in Conns, ReadSome(c)
      PROVE  running' = d /\ close_connection'[d]
  <2>1. /\ sock' = sock /\ running = NoConn /\ UNCHANGED <<close_connection, peer>>
        /\ ~message_complete[c] => parsed' = parsed
        /\ \A e \in Conns : e # c => parsed'[e] = parsed[e]
    BY <1>5 DEF ReadSome, Take, Where, TypeOK
  <2>2. parsed'[d] = parsed[d]
    BY <1>1, <2>1 DEF Answering
  <2>3. QED  BY <1>1, <1>2, <2>1, <2>2, ConnectionsAssumption DEF Honouring
<1>6. ASSUME NEW c \in Conns, FeedUrlPiece(c) \/ FeedUrl(c) \/ FeedGarbled(c)
      PROVE  running' = d /\ close_connection'[d]
  <2>1. /\ UNCHANGED <<running, close_connection, sock, peer>>
        /\ \E p \in 1..3 : Feeding(c, p) /\ Parse(c) /\ (p \in {1, 2} \/ FeedGarbled(c))
    BY <1>6 DEF FeedUrlPiece, FeedUrl, FeedGarbled
  <2>2. /\ running = c /\ fed = "ok"
        /\ \A e \in Conns : e # c => parsed'[e] = parsed[e]
        /\ parsed'[c] \div 3 = parsed[c] \div 3 \/ FeedGarbled(c)
    BY <2>1, Fed1
  <2>3. FeedGarbled(c) => fed' = "error"
    BY DEF FeedGarbled
  <2>4. parsed'[d] \div 3 = parsed[d] \div 3
    BY <1>1, <2>1, <2>2, <2>3
  <2>5. QED  BY <1>1, <1>2, <2>1, <2>2, <2>4 DEF Honouring
<1>7. ASSUME NEW c \in Conns, HandleUpgrade(c) \/ HandleRequest(c) \/ StreamBreaks(c)
      PROVE  running' = d /\ close_connection'[d]
  <2>1. /\ Feeding(c, 3) /\ Parse(c) /\ UNCHANGED <<running, kind>> /\ GoesOn(c)
        /\ peer[c] # "rst"
        /\ \A e \in Conns : e # c => close_connection'[e] = close_connection[e]
    BY <1>7 DEF HandleUpgrade, HandleRequest, StreamBreaks, Handling, GoesOn, Feeding,
       Where, TypeOK
  <2>2. /\ running = c /\ fed = "ok" /\ sock' = sock
        /\ parsed'[c] \div 3 = (parsed[c] \div 3) + 1
        /\ \A e \in Conns : e # c => parsed'[e] = parsed[e]
    BY <2>1, Fed1, GoesOnStep
  <2>3. parsed'[c] \div 3 = Len(answered[c]) + 1 /\ Kind(c) = kind'[c][parsed'[c] \div 3]
    BY <2>1, <2>2, NextAnswer
  <2>4. CASE d # c
    <3>1. peer[d] # "rst"
      BY <1>1, <1>7, <2>4 DEF HandleUpgrade, HandleRequest, StreamBreaks, Where, TypeOK
    <3>2. QED  BY <1>1, <1>2, <2>1, <2>2, <2>4, <3>1 DEF Honouring
  <2>5. CASE d = c
    <3>1. HandleUpgrade(c) \/ (HandleRequest(c) /\ Kind(c) # "upgrade")
      BY <1>1, <1>7, <2>5 DEF StreamBreaks, HandleRequest, Where, TypeOK
    <3>2. close_connection'[c] = (Kind(c) = "close") \/ close_connection'[c] = TRUE
      BY <3>1 DEF HandleUpgrade, HandleRequest, Where, TypeOK
    <3>3. HandleUpgrade(c) \/ close_connection'[c] = (Kind(c) = "close")
      BY <3>1 DEF HandleRequest, Where, TypeOK
    <3>4. HandleUpgrade(c) => close_connection'[c]
      BY DEF HandleUpgrade, Where, TypeOK
    <3>5. QED  BY <1>1, <2>1, <2>2, <2>3, <2>5, <3>1, <3>3, <3>4
  <2>6. QED  BY <2>4, <2>5
<1>8. ASSUME NEW c \in Conns, HandleThrows(c) \/ FinishError(c) \/ FinishClose(c)
      PROVE  running' = d /\ close_connection'[d]
  <2>1. Ends(c)
    BY <1>8 DEF HandleThrows, Handling, Feeding, FinishError, FinishClose, Fed, Ends
  <2>2. sock' = [sock EXCEPT ![c] = "closed"] /\ running = c
    BY <2>1, EndsStep DEF Ends
  <2>3. /\ d # c /\ sock[d] = "open" /\ parsed'[d] = parsed[d] /\ peer' = peer
    BY <1>1, <1>8, <2>2 DEF HandleThrows, Handling, Parse, FinishError, FinishClose, Where, TypeOK
  <2>4. QED  BY <1>1, <1>2, <2>2, <2>3 DEF Honouring
<1>9. ASSUME NEW c \in Conns, FinishReadOn(c)
      PROVE  running' = d /\ close_connection'[d]
  <2>1. /\ running = c /\ fed = "ok" /\ ~close_connection[c] /\ sock' = sock
        /\ UNCHANGED <<parsed, peer>>
    BY <1>9, ReadOnStep DEF FinishReadOn, Fed
  <2>2. QED  BY <1>1, <1>2, <2>1 DEF Honouring
<1>10. QED
  BY <1>3, <1>4, <1>5, <1>6, <1>7, <1>8, <1>9, ParserMoves DEF Feed, Finish

LEMMA CutStep ==
  ASSUME Where, Answering, CutInv, [Next]_vars
  PROVE  CutInv'
<1> USE DEF timer, client
<1>0. answered \in [Conns -> Seq({200, 400, 404})] /\ kind \in [Conns -> Seq(Kinds)]
  BY DEF Where, TypeOK
<1>1. \A d \in Conns : /\ Len(answered[d]) \in Nat /\ Len(kind[d]) \in Nat
                       /\ Len(answered[d]) <= Len(kind'[d])
                       /\ \A i \in 1..Len(answered[d]) : kind'[d][i] = kind[d][i]
  <2>1. ASSUME NEW d \in Conns
        PROVE  /\ Len(answered[d]) \in Nat /\ Len(kind[d]) \in Nat
               /\ Len(answered[d]) <= Len(kind'[d])
               /\ \A i \in 1..Len(answered[d]) : kind'[d][i] = kind[d][i]
    <3>1. Len(answered[d]) \in Nat /\ Len(kind[d]) \in Nat /\ Len(answered[d]) <= Len(kind[d])
      BY <1>0 DEF CutInv
    <3>2. Len(kind'[d]) \in Nat
      BY WhereStep DEF Where, TypeOK
    <3>3. QED  BY <3>1, <3>2, KindStays
  <2>2. QED  BY <2>1
\* What a connection said stays so: a wrong status is last until another is given.
<1>2. ASSUME NEW d \in Conns, answered'[d] = answered[d],
             \A i \in 1..Len(answered[d]) : WrongLast(d, i) => WrongLast(d, i)'
      PROVE  /\ Len(answered'[d]) <= Len(kind'[d])
             /\ \A i \in 1..Len(answered'[d]) :
                   answered'[d][i] # Status(kind'[d][i]) => WrongLast(d, i)'
  BY <1>1, <1>2 DEF CutInv
<1>3. CASE Idle
  <2>1. \A d \in Conns : \A i \in 1..Len(answered[d]) : WrongLast(d, i) => WrongLast(d, i)'
    BY <1>3 DEF Idle, WrongLast
  <2>2. QED  BY <1>2, <1>3, <2>1 DEF Idle, CutInv
<1>4. ASSUME NEW c \in Conns, Accept(c)
      PROVE  CutInv'
  <2>1. /\ sock[c] = "none" /\ \A e \in Conns : e # c => sock'[e] = sock[e]
        /\ UNCHANGED <<parsed, received, answered, fed, running>>
    BY <1>4 DEF Accept, Where, TypeOK
  <2>2. Len(answered[c]) = 0
    BY <2>1 DEF Answering
  <2>3. \A d \in Conns : \A i \in 1..Len(answered[d]) : WrongLast(d, i) => WrongLast(d, i)'
    BY <2>1, <2>2 DEF WrongLast
  <2>4. QED  BY <1>2, <2>1, <2>3 DEF CutInv
<1>5. ASSUME NEW c \in Conns, ReadSome(c)
      PROVE  CutInv'
  <2>1. /\ sock' = sock /\ sock[c] = "open" /\ running = NoConn /\ answered' = answered
        /\ \A e \in Conns : e # c => parsed'[e] = parsed[e] /\ received'[e] = received[e]
    BY <1>5 DEF ReadSome, Take, Where, TypeOK, Served
  <2>2. \A d \in Conns : \A i \in 1..Len(answered[d]) : WrongLast(d, i) => WrongLast(d, i)'
    BY <2>1, ConnectionsAssumption DEF WrongLast
  <2>3. QED  BY <1>2, <2>1, <2>2 DEF CutInv
<1>6. ASSUME NEW c \in Conns, Finish(c)
      PROVE  CutInv'
  <2>1. /\ UNCHANGED <<parsed, received, answered, fed>> /\ running = c
        /\ \A e \in Conns : sock'[e] = sock[e] \/ sock'[e] = "closed"
        /\ fed = "ok" \/ sock'[c] = "closed"
    <3>1. CASE FinishReadOn(c)
      BY <3>1, ReadOnStep DEF FinishReadOn, Fed
    <3>2. CASE FinishError(c) \/ FinishClose(c)
      <4>1. Ends(c) /\ UNCHANGED <<parsed, received, answered, fed>>
        BY <3>2 DEF FinishError, FinishClose, Fed, Ends
      <4>2. sock' = [sock EXCEPT ![c] = "closed"]
        BY <4>1, EndsStep
      <4>3. sock \in [Conns -> {"none", "open", "closed"}]
        BY DEF Where, TypeOK
      <4>4. /\ \A e \in Conns : sock'[e] = sock[e] \/ sock'[e] = "closed"
            /\ sock'[c] = "closed"
        BY <4>2, <4>3
      <4>5. running = c
        BY <4>1 DEF Ends
      <4>6. QED  BY <4>1, <4>4, <4>5
    <3>3. QED  BY <1>6, <3>1, <3>2 DEF Finish
  <2>2. \A d \in Conns : \A i \in 1..Len(answered[d]) : WrongLast(d, i) => WrongLast(d, i)'
    BY <2>1 DEF WrongLast
  <2>3. QED  BY <1>2, <2>1, <2>2 DEF CutInv
<1>7. ASSUME NEW c \in Conns, Feed(c)
      PROVE  CutInv'
  <2>1. PICK p \in 1..3 : Feeding(c, p) /\ Parse(c)
    BY <1>7 DEF Feed, FeedUrlPiece, FeedUrl, FeedGarbled, HandleThrows, HandleUpgrade,
       HandleRequest, StreamBreaks, Handling
  <2>2. /\ running = c /\ fed = "ok" /\ sock[c] = "open" /\ received' = received
        /\ parsed[c] \in Nat /\ parsed'[c] = parsed[c] + 1 /\ Part(Current(c)) = p
        /\ \A e \in Conns : e # c => parsed'[e] = parsed[e]
    BY <1>7, <2>1, Fed1 DEF Feeding, Feed, FeedUrlPiece, FeedUrl, FeedGarbled, HandleThrows,
       HandleUpgrade, HandleRequest, StreamBreaks
  <2>3. \A e \in Conns : e # c => sock'[e] = sock[e] /\ answered'[e] = answered[e]
    <3>1. GoesOn(c) \/ Ends(c)
      BY <1>7 DEF Feed, FeedUrlPiece, FeedUrl, FeedGarbled, HandleThrows, HandleUpgrade,
         HandleRequest, StreamBreaks, Handling, Feeding, GoesOn, Ends
    <3>2. \A e \in Conns : e # c => sock'[e] = sock[e]
      BY <3>1, GoesOnStep, EndsStep DEF Where, TypeOK
    <3>3. answered' = answered \/ \E status : Write(c, status)
      BY <1>7 DEF Feed, FeedUrlPiece, FeedUrl, FeedGarbled, HandleThrows, HandleUpgrade,
         HandleRequest, StreamBreaks, HandleNoRoute
    <3>4. QED  BY <3>2, <3>3, Written
  <2>4. ASSUME NEW d \in Conns, d # c
        PROVE  /\ Len(answered'[d]) <= Len(kind'[d])
               /\ \A i \in 1..Len(answered'[d]) :
                     answered'[d][i] # Status(kind'[d][i]) => WrongLast(d, i)'
    BY <1>2, <2>2, <2>3, <2>4 DEF WrongLast
  <2>5. \A i \in 1..Len(answered[c]) : ~WrongLast(c, i) /\ answered[c][i] = Status(kind'[c][i])
    BY <1>1, <2>2 DEF CutInv, WrongLast
  <2>6. \/ answered'[c] = answered[c]
        \/ /\ peer[c] # "rst"
           /\ \E status : /\ answered'[c] = Append(answered[c], status)
                          /\ \/ status = Status(Kind(c))
                             \/ p = 1 /\ parsed'[c] = received[c] /\ fed' = "error" /\ running' = c
    <3>1. CASE peer[c] = "rst" \/ answered' = answered
      <4>1. answered' = answered
        BY <1>7, <3>1 DEF Feed, FeedUrlPiece, FeedUrl, FeedGarbled, HandleThrows, HandleUpgrade,
           HandleRequest, StreamBreaks, HandleNoRoute, Write
      <4>2. QED  BY <4>1
    <3>2. CASE peer[c] # "rst" /\ answered' # answered
      <4>1. CASE FeedUrlPiece(c)
        <5>1. /\ Write(c, 404) /\ Current(c) = received[c] /\ UNCHANGED running
              /\ fed' = IF message_complete[c] /\ Current(c) = received[c] THEN "ok" ELSE "error"
          BY <3>2, <4>1 DEF FeedUrlPiece, HandleNoRoute
        <5>2. p = 1 /\ ~message_complete[c]
          BY <2>1, <3>2, <4>1, NextAnswer DEF FeedUrlPiece, Feeding
        <5>3. answered'[c] = Append(answered[c], 404) /\ parsed'[c] = received[c]
          BY <1>0, <2>2, <3>2, <5>1 DEF Write, Current
        <5>4. QED  BY <2>2, <3>2, <5>1, <5>2, <5>3
      <4>2. CASE FeedUrl(c)
        <5>1. Write(c, 404) /\ (Kind(c) = "unknown" \/ message_complete[c])
          BY <3>2, <4>2 DEF FeedUrl, HandleNoRoute
        <5>2. ~message_complete[c]
          BY <2>1, <3>2, NextAnswer
        <5>3. answered'[c] = Append(answered[c], 404) /\ Status(Kind(c)) = 404
          BY <1>0, <3>2, <5>1, <5>2 DEF Write, Status
        <5>4. QED  BY <3>2, <5>3
      <4>3. CASE HandleRequest(c)
        <5>1. answered'[c] = Append(answered[c], Status(Kind(c)))
          BY <1>0, <3>2, <4>3 DEF HandleRequest, Write
        <5>2. QED  BY <3>2, <5>1
      <4>4. QED
        BY <1>7, <3>2, <4>1, <4>2, <4>3
           DEF Feed, FeedGarbled, HandleThrows, HandleUpgrade, StreamBreaks
    <3>3. QED  BY <3>1, <3>2
  <2>7. /\ Len(answered'[c]) <= Len(kind'[c])
        /\ \A i \in 1..Len(answered'[c]) :
              answered'[c][i] # Status(kind'[c][i]) => WrongLast(c, i)'
    <3>1. CASE answered'[c] = answered[c]
      BY <1>1, <2>5, <3>1
    <3>2. ASSUME peer[c] # "rst",
                 NEW status, answered'[c] = Append(answered[c], status),
                 \/ status = Status(Kind(c))
                 \/ p = 1 /\ parsed'[c] = received[c] /\ fed' = "error" /\ running' = c
          PROVE  /\ Len(answered'[c]) <= Len(kind'[c])
                 /\ \A i \in 1..Len(answered'[c]) :
                       answered'[c][i] # Status(kind'[c][i]) => WrongLast(c, i)'
      <4>0. PICK n \in Nat : n = Len(answered[c])
        BY <1>0
      <4>1. /\ Len(answered'[c]) = n + 1 /\ answered'[c][n + 1] = status /\ n \in Nat
            /\ \A i \in 1..n : answered'[c][i] = answered[c][i]
        BY <1>0, <3>2, <4>0
      <4>2. /\ n = parsed[c] \div 3 /\ n < Len(kind[c]) /\ Kind(c) = kind[c][n + 1]
            /\ ~message_complete[c]
        BY <2>1, <3>2, <4>0, NextAnswer
      <4>3. n + 1 <= Len(kind[c]) /\ Len(kind[c]) \in Nat /\ kind'[c][n + 1] = kind[c][n + 1]
            /\ Len(kind[c]) <= Len(kind'[c]) /\ Len(kind'[c]) \in Nat
        <5>1. n + 1 <= Len(kind[c]) /\ Len(kind[c]) \in Nat /\ n + 1 \in 1..Len(kind[c])
          BY <1>0, <4>1, <4>2
        <5>2. Len(kind'[c]) \in Nat
          BY WhereStep DEF Where, TypeOK
        <5>3. QED  BY <5>1, <5>2, KindStays
      <4>4. status # Status(kind'[c][n + 1]) => WrongLast(c, n + 1)'
        <5>1. ASSUME status # Status(kind'[c][n + 1])
              PROVE  p = 1 /\ parsed'[c] = received[c] /\ fed' = "error" /\ running' = c
          BY <3>2, <4>2, <4>3, <5>1
        <5>2. p = 1 => parsed[c] = 3 * (parsed[c] \div 3)
          BY <2>2 DEF Part, Current
        <5>3. p = 1 => parsed'[c] = 3 * (n + 1) - 2
          BY <2>2, <4>1, <4>2, <5>2
        <5>4. ASSUME status # Status(kind'[c][n + 1])
              PROVE  WrongLast(c, n + 1)'
          <6>1. /\ n + 1 = Len(answered'[c]) /\ parsed'[c] = 3 * (n + 1) - 2
                /\ received'[c] = parsed'[c] /\ running' = c /\ fed' = "error"
            BY <2>2, <4>1, <5>1, <5>3, <5>4
          <6>2. QED  BY <6>1 DEF WrongLast
        <5>5. QED  BY <5>4
      <4>5. \A i \in 1..n : answered'[c][i] = Status(kind'[c][i])
        BY <2>5, <4>0, <4>1
      <4>6. ASSUME NEW i \in 1..Len(answered'[c]), answered'[c][i] # Status(kind'[c][i])
            PROVE  WrongLast(c, i)'
        <5>1. i = n + 1
          <6>1. i \in 1..(n + 1) /\ i \notin 1..n
            BY <4>1, <4>5, <4>6
          <6>2. QED  BY <6>1, <4>0
        <5>2. status # Status(kind'[c][n + 1])
          BY <4>1, <4>6, <5>1
        <5>3. QED  BY <4>4, <5>1, <5>2
      <4>7. QED  BY <4>1, <4>3, <4>6
    <3>3. QED  BY <2>6, <3>1, <3>2
  <2>8. QED  BY <2>4, <2>7 DEF CutInv
<1>8. QED  BY <1>3, <1>4, <1>5, <1>6, <1>7, ParserMoves

LEMMA AnsweringInit == Init => Answering
BY DEF Init, Answering

\* Every variable keeps its type: nothing is parsed that was not received, nothing
\* received that was not sent, whatever the interleaving of reads, ticks and clients.
THEOREM ConnectionsTyped == Spec => []TypeOK
<1>1. Where => TypeOK
  BY DEF Where
<1>2. QED  BY <1>1, WhereInit, WhereStep, PTL DEF Spec

\* task_timer never drops a task for want of a free id, although ids start again:
\* the tasks have the ids their connections know them by, and no two the same.
THEOREM TasksAlwaysOwned == Spec => []TasksOwned
<1>1. Where => TasksOwned
  BY DEF Where
<1>2. QED  BY <1>1, WhereInit, WhereStep, PTL DEF Spec

\* No connection is left open without a start, a read or a handler to serve it.
THEOREM OpenAlwaysServed == Spec => []OpenServed
<1>1. Where => OpenServed
  BY DEF Where, Served, OpenServed
<1>2. QED  BY <1>1, WhereInit, WhereStep, PTL DEF Spec

\* Between two reads every request that was parsed whole is answered, pipelined or
\* not, unless its client is gone.
THEOREM EveryRequestAnswered == Spec => []AllAnswered
<1>1. Where /\ Answering => AllAnswered
  BY DEF Answering, AllAnswered, Between
<1>2. QED  BY <1>1, WhereInit, WhereStep, AnsweringInit, AnsweringStep, PTL DEF Spec

LEMMA ToldInit == Init => Honouring /\ CutInv
BY DEF Init, Honouring, CutInv

\* After a "close" or an upgrade as the last request of a read, nothing more is read:
\* the handler lets the connection go, however the requests were cut and pipelined.
THEOREM CloseAlwaysHonoured == Spec => []CloseHonoured
<1>1. Where /\ Honouring => CloseHonoured
  <2>1. ASSUME Where, NEW c \in Conns, parsed[c] >= 3
        PROVE  parsed[c] \div 3 >= 1
    BY <2>1, Counts DEF Where
  <2>2. QED  BY <2>1 DEF Honouring, CloseHonoured, Between
<1>2. QED  BY <1>1, WhereInit, WhereStep, AnsweringInit, AnsweringStep, ToldInit,
              HonouringStep, PTL DEF Spec

\* A request with a route is refused as one without only when a read ended inside its
\* URL, and the connection says nothing after that.
THEOREM WrongAnswersWereCut == Spec => []WrongOnlyIfCut
<1>1. Where /\ CutInv => WrongOnlyIfCut
  <2>1. ASSUME Where, NEW c \in Conns
        PROVE  DOMAIN answered[c] = 1..Len(answered[c])
    BY <2>1 DEF Where, TypeOK
  <2>2. QED  BY <2>1 DEF CutInv, WrongOnlyIfCut, WrongLast
<1>2. QED  BY <1>1, WhereInit, WhereStep, AnsweringInit, AnsweringStep, ToldInit,
              CutStep, PTL DEF Spec

-----------------------------------------------------------------------------
(* Connections implement HttpSession.                                       *)

\* The request that is being answered, and the step of HttpSession that is.
LEMMA AnswerStep ==
  ASSUME Where, Answering, NEW c \in Conns, NEW p \in 1..3, Feeding(c, p),
         NEW status \in {Status(Kind(c)), 404}, Write(c, status),
         UNCHANGED <<sock, kind>>
  PROVE  Session!Answer(c) \/ UNCHANGED Session!vars
<1>1. CASE peer[c] = "rst"
  BY <1>1 DEF Write, Session!vars
<1>2. CASE peer[c] # "rst"
  <2>1. /\ sock[c] = "open" /\ Len(answered[c]) < Len(kind[c])
        /\ Kind(c) = kind[c][Len(answered[c]) + 1]
    BY <1>2, NextAnswer
  <2>2. answered' = [answered EXCEPT ![c] = Append(@, status)]
    BY <1>2 DEF Write
  <2>3. QED  BY <2>1, <2>2 DEF Session!Answer
<1>3. QED  BY <1>1, <1>2

LEMMA SessionStep ==
  ASSUME Where, Answering, [Next]_vars
  PROVE  [Session!Next]_(Session!vars)
<1> USE DEF timer, client
<1>0. TypeOK'
  BY WhereStep DEF Where
<1>1. CASE UNCHANGED vars
  BY <1>1 DEF vars, Session!vars
<1>2. ASSUME NEW c \in Conns, Accept(c)
      PROVE  Session!Connect(c)
  BY <1>2 DEF Accept, Session!Connect
<1>3. ASSUME NEW c \in Conns, Start(c) \/ ReadAborted(c) \/ ReadSome(c) \/ FinishReadOn(c)
      PROVE  UNCHANGED Session!vars
  <2>1. sock' = sock
    BY <1>3, StartStep, AbortedStep, SomeStep, ReadOnStep
  <2>2. QED  BY <1>3, <2>1 DEF Start, ReadAborted, ReadSome, FinishReadOn, Session!vars
<1>4. ASSUME NEW c \in Conns, ReadFails(c) \/ HandleThrows(c) \/ FinishError(c) \/ FinishClose(c)
      PROVE  Session!Close
  <2>1. ReadFails(c) \/ Ends(c)
    BY <1>4 DEF HandleThrows, Handling, Feeding, FinishError, FinishClose, Fed, Ends
  <2>2. sock' = [sock EXCEPT ![c] = "closed"]
    BY <2>1, FailsStep, EndsStep
  <2>3. UNCHANGED <<kind, answered>>
    BY <1>4 DEF ReadFails, HandleThrows, FinishError, FinishClose
  <2>4. \A d \in Conns : sock'[d] = IF d \in {c} THEN "closed" ELSE sock[d]
    BY <2>2 DEF Where, TypeOK
  <2>5. sock' \in [Conns -> {"none", "open", "closed"}]
    BY <1>0 DEF TypeOK
  <2>6. sock' = [d \in Conns |-> IF d \in {c} THEN "closed" ELSE sock[d]]
    BY <2>4, <2>5
  <2>7. QED  BY <2>3, <2>6 DEF Session!Close
<1>5. CASE Tick
  <2>1. PICK C \in SUBSET Conns : sock' = [c \in Conns |-> IF c \in C THEN "closed" ELSE sock[c]]
    BY <1>5, TickStep
  <2>2. UNCHANGED <<kind, answered>>
    BY <1>5 DEF Tick
  <2>3. Session!Close
    BY <2>1, <2>2 DEF Session!Close
  <2>4. QED  BY <2>3 DEF Session!Next
<1>6. ASSUME TickExpires \/ \E c \in Conns : Readable(c) \/ ReadNothing(c)
      PROVE  UNCHANGED Session!vars
  BY <1>6 DEF TickExpires, Readable, ReadNothing, Session!vars
<1>7. ASSUME NEW c \in Conns, NEW k \in Kinds, Begin(c, k)
      PROVE  Session!Send(c, k)
  BY <1>7 DEF Begin, Session!Send
<1>8. ASSUME NEW c \in Conns, Continue(c) \/ \E how \in {"fin", "rst"} : Leave(c, how)
      PROVE  UNCHANGED Session!vars
  BY <1>8 DEF Continue, Leave, Session!vars
<1>9. ASSUME NEW c \in Conns, FeedUrlPiece(c) \/ FeedUrl(c) \/ FeedGarbled(c)
      PROVE  Session!Answer(c) \/ UNCHANGED Session!vars
  <2>1. UNCHANGED <<sock, kind>> /\ \E p \in 1..3 : Feeding(c, p)
    BY <1>9 DEF FeedUrlPiece, FeedUrl, FeedGarbled
  <2>2. UNCHANGED answered \/ Write(c, 404)
    BY <1>9 DEF FeedUrlPiece, FeedUrl, FeedGarbled, HandleNoRoute
  <2>3. CASE UNCHANGED answered
    BY <2>1, <2>3 DEF Session!vars
  <2>4. CASE Write(c, 404)
    BY <2>1, <2>4, AnswerStep
  <2>5. QED  BY <2>2, <2>3, <2>4
<1>10. ASSUME NEW c \in Conns, HandleUpgrade(c) \/ HandleRequest(c) \/ StreamBreaks(c)
       PROVE  Session!Answer(c) \/ UNCHANGED Session!vars
  <2>1. GoesOn(c) /\ Feeding(c, 3) /\ UNCHANGED kind
    BY <1>10 DEF HandleUpgrade, HandleRequest, StreamBreaks, Handling, Feeding, GoesOn
  <2>2. sock' = sock
    BY <2>1, GoesOnStep
  <2>3. CASE HandleUpgrade(c) \/ StreamBreaks(c)
    BY <2>1, <2>2, <2>3 DEF HandleUpgrade, StreamBreaks, Session!vars
  <2>4. CASE HandleRequest(c)
    <3>1. Write(c, Status(Kind(c)))
      BY <2>4 DEF HandleRequest
    <3>2. QED  BY <2>1, <2>2, <3>1, AnswerStep
  <2>5. QED  BY <1>10, <2>3, <2>4
<1>11. QED
  BY <1>1, <1>2, <1>3, <1>4, <1>5, <1>6, <1>7, <1>8, <1>9, <1>10
     DEF Next, Worker, Client, Feed, Finish, Session!Next

\* Whatever the reads, ticks, resets and exceptions, a client gets its answers in the
\* order of its requests, each at most once, with a status its kind allows, and none
\* on a closed connection.
THEOREM ImplementsSession == Spec => KeepsSession
<1>1. Init => Session!Init
  BY DEF Init, Session!Init
<1>2. QED  BY <1>1, WhereInit, WhereStep, AnsweringInit, AnsweringStep, SessionStep, PTL
           DEF Spec, KeepsSession, Session!Spec
=============================================================================
