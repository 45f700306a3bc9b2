----------------------------- MODULE HttpSession -----------------------------
(***************************************************************************)
(* What an HTTP connection of the server promises its client: the requests *)
(* a client sends are answered one at a time, in the order they were sent, *)
(* each at most once and with a status its kind allows, and nothing is     *)
(* answered once the connection is closed.  The server may close a         *)
(* connection at any time.                                                 *)
(***************************************************************************)
EXTENDS Naturals, Sequences

CONSTANTS Conns,          \* connections
          Kinds,          \* kinds of requests
          Statuses(_)     \* the statuses a request of a kind may be answered with

VARIABLES sock,           \* "none", "open" or "closed"
          kind,           \* kind[c]: the requests sent on c, in order
          answered        \* answered[c]: the statuses sent back on c, in order

vars == <<sock, kind, answered>>

Init == /\ sock = [c \in Conns |-> "none"]
        /\ kind = [c \in Conns |-> <<>>]
        /\ answered = [c \in Conns |-> <<>>]

Connect(c) == /\ sock[c] = "none"
              /\ sock' = [sock EXCEPT ![c] = "open"]
              /\ UNCHANGED <<kind, answered>>

Send(c, k) == /\ kind' = [kind EXCEPT ![c] = Append(@, k)]
              /\ UNCHANGED <<sock, answered>>

Answer(c) ==
  /\ sock[c] = "open"
  /\ Len(answered[c]) < Len(kind[c])
  /\ \E s \in Statuses(kind[c][Len(answered[c]) + 1]) :
        answered' = [answered EXCEPT ![c] = Append(@, s)]
  /\ UNCHANGED <<sock, kind>>

\* Closed by the server; a deadline closes several connections at once.
Close == /\ \E C \in SUBSET Conns :
              sock' = [c \in Conns |-> IF c \in C THEN "closed" ELSE sock[c]]
         /\ UNCHANGED <<kind, answered>>

Next == \/ \E c \in Conns : Connect(c)
        \/ \E c \in Conns, k \in Kinds : Send(c, k)
        \/ \E c \in Conns : Answer(c)
        \/ Close

Spec == Init /\ [][Next]_vars
=============================================================================
