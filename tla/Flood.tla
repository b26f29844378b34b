------------------------------- MODULE Flood -------------------------------
(***************************************************************************)
(* What a network of nodes does with messages, without goroutines, seen    *)
(* maps and TTLs: a node holds a message because it was posted there, or   *)
(* because a node that holds it sent it over a link; and a private message *)
(* is sent only by a node whose operator pushed it on.  Once held it stays *)
(* held.  Gossip implements this (ImplementsFlood), whatever is lost,      *)
(* doubled, overtaken, forgotten or cut off by a crash on the way.         *)
(***************************************************************************)
CONSTANTS
  Node, Msg,
  Private, \* the messages that only an operator sends on
  Author,  \* Author[m]: the node m is posted to
  Link     \* pairs of nodes: the first sends to the second

VARIABLES
  has,     \* has[m]: the nodes that hold m
  pushed   \* <<n, m>>: n's operator sent the private m on

vars == <<has, pushed>>

Init == has = [m \in Msg |-> {}] /\ pushed = {}

\* Node u sends m to its neighbours.
Sends(u, m) == u \in has[m] /\ (m \in Private => <<u, m>> \in pushed)

\* What n's operator pushes on by sending m.
Pushes(n, m) == {n} \X ({m} \cap Private)

\* Node n comes to hold m; it may be its operator who hands it in.
Take(n, m) ==
  /\ n = Author[m] \/ \E u \in Node : <<u, n>> \in Link /\ Sends(u, m)
  /\ has' = [has EXCEPT ![m] = @ \cup {n}]
  /\ pushed' \in {pushed, pushed \cup Pushes(n, m)}

\* The operator of n sends on what n holds.
Push(n, m) ==
  /\ n \in has[m]
  /\ pushed' = pushed \cup Pushes(n, m)
  /\ UNCHANGED has

Next == \E n \in Node, m \in Msg : Take(n, m) \/ Push(n, m)

Spec == Init /\ [][Next]_vars
=============================================================================
