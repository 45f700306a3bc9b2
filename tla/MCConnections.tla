---------------------------- MODULE MCConnections ----------------------------
(***************************************************************************)
(* Instances of Connections for TLC.                                       *)
(***************************************************************************)
EXTENDS Connections, TLC

CONSTANTS c1, c2

(* Bound: two connections that are there together send three parts of      *)
(* ordinary requests between them, in any way; all else is sent on c1      *)
(* while it is alone.  c2 comes second, which only names the connections.  *)
Small ==
  sock[c2] # "none" =>
    /\ sock[c1] # "none"
    /\ sent[c1] + sent[c2] <= 3
    /\ \A c \in Conns : kind[c] \in {<<>>, <<"keep">>}

SmallSpec == Init /\ [][Next /\ Small']_vars /\ Fairness

=============================================================================
