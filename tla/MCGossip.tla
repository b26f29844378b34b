------------------------------ MODULE MCGossip ------------------------------
(* Gossip on four nodes: a reaches c directly and through b, c and d are
   neighbours of each other, and d closes a circle. *)
EXTENDS Gossip, TLC

CONSTANTS a, b, c, d, pub, priv, odd, web, kab, kac, kbc, kcd, kda

MCAuthor == [m \in Msg |-> IF m = priv THEN c ELSE a]
MCTTL0 == [m \in Msg |-> IF m = odd THEN 251 ELSE IF m = priv THEN 3 ELSE 4]
MCNextloop == (a :> <<b, c>>) @@ (b :> <<c>>) @@ (c :> <<d>>) @@ (d :> <<c, a>>)
Link == {<<a, b, kab>>, <<a, c, kac>>, <<b, c, kbc>>, <<c, d, kcd>>, <<d, a, kda>>}
MCAuth == [u \in Node |-> [v \in Node |->
             IF \E l \in Link : {l[1], l[2]} = {u, v}
             THEN (CHOOSE l \in Link : {l[1], l[2]} = {u, v})[3] ELSE Skip]]

Linked(u, v) == \E i \in DOMAIN MCNextloop[u] : MCNextloop[u][i] = v
MCDist == [u \in Node |-> [v \in Node |->
             IF u = v THEN 0
             ELSE IF Linked(u, v) THEN 1
             ELSE IF \E w \in Node : Linked(u, w) /\ Linked(w, v) THEN 2 ELSE 3]]

\* The network is one that Delivered and its theorem are about.
ASSUME MCNetwork == Network
=============================================================================
