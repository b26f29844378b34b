------------------------------- MODULE Gossip -------------------------------
(***************************************************************************)
(* How messages travel between nodes: checkAndVeify_kep (server.go) at     *)
(* every node that receives one, the seen map, the TTL byte that           *)
(* change_Packet (send/send.go) counts down, Nextmsg's loop over the       *)
(* neighbours, and the operator's resend of a stored message.              *)
(*                                                                         *)
(* A goroutine is a task in a bag: there may be two alike.  Its buffer is  *)
(* its own, so what it does to the buffer is part of the step before.      *)
(*                                                                         *)
(* Abstracted: what a message says.  A verdict of the limiters, the deny   *)
(* list, the lookups, the parent check or the disk is a Drop that may or   *)
(* may not happen, and a neighbour that is skipped, does not answer or     *)
(* does not accept the request is a Lose; Ingest, Health and Limits have   *)
(* the details.                                                            *)
(***************************************************************************)
EXTENDS Integers, Sequences, FiniteSets, Bags

CONSTANTS
  Node,      \* the nodes
  Msg,       \* the messages, one t_hash each
  Private,   \* those with tag 65535
  Author,    \* Author[m]: the node m is posted to
  TTL0,      \* TTL0[m]: the TTL byte it is posted with
  Key,       \* tokens
  Client,    \* those of clients, the operator's among them
  Skip,      \* the token of a node's own operator (Skip_token)
  Nextloop,  \* Nextloop[n]: its neighbours, in the order of nextloop
  Auth,      \* Auth[u][v]: the token u presents to v
  Dist,      \* Dist[u][v]: at most one more than that of a node linked to v
  MaxPost,   \* bound on posts
  MaxEvent   \* bound on resends, crashes, resets and messages that grow old

Byte == 0..255
Task == [node : Node, msg : Msg, ttl : Byte, key : Key,
         stage : {"check", "mark", "store", "send"}, next : Nat]

ASSUME GossipAssumption ==
  /\ Private \subseteq Msg /\ Author \in [Msg -> Node] /\ TTL0 \in [Msg -> Byte]
  /\ Client \subseteq Key /\ Skip \in Key /\ Auth \in [Node -> [Node -> Key]]
  /\ Nextloop \in [Node -> Seq(Node)]
  /\ Dist \in [Node -> [Node -> Nat]] /\ \A n \in Node : Dist[n][n] = 0
  /\ \A a, u \in Node : \A i \in 1..Len(Nextloop[u]) :
       Dist[a][Nextloop[u][i]] <= Dist[a][u] + 1
  /\ MaxPost \in Nat /\ MaxEvent \in Nat

VARIABLES
  tasks,     \* the goroutines handling a message, at all nodes: a bag
  seen,      \* seen[n]: ttlMap
  disk,      \* disk[n][m]: the TTL byte in the file of m, 0 if there is none
  old,       \* messages outside the time window of every node
  pushed,    \* history: <<n, m>>, n's operator sent on the private m
  disturbed, \* history: something was lost, dropped, forgotten or too late
  posts, events

vars == <<tasks, seen, disk, old, pushed, disturbed, posts, events>>

Init == /\ tasks = EmptyBag
        /\ seen = [n \in Node |-> {}]
        /\ disk = [n \in Node |-> [m \in Msg |-> 0]]
        /\ old = {} /\ pushed = {} /\ disturbed = FALSE
        /\ posts = 0 /\ events = 0

\* A message as node n receives it (handleMsg).
Received(n, m, ttl, key) ==
  [node |-> n, msg |-> m, ttl |-> ttl, key |-> key, stage |-> "check", next |-> 0]

\* Goroutine t goes on as the tasks of the set new.
Become(t, new) == tasks' = (tasks (-) SetToBag({t})) (+) SetToBag(new)
Ends(t) == Become(t, {})

\* What the receiver accepts (ParseAndVerify).
TTLOK(ttl) == ttl # 0 /\ ttl <= 250

\* Mutant: the byte is compared before it is counted down.
LateByte(ttl) == IF ttl = 0 \/ ttl > 250 THEN 0 ELSE ttl

\* Mutant: a message with one hop left goes no further.
EarlyByte(ttl) ==
  LET t == (ttl + 255) % 256 IN IF t <= 1 \/ t > 250 THEN 0 ELSE t

\* change_Packet: the byte counted down, 0 if the message goes no further.
NextByte(ttl) ==
  LET t == (ttl + 255) % 256 IN IF t = 0 \/ t > 250 THEN 0 ELSE t

\* Nextmsg's loop from position i of nextloop on: the neighbour the message
\* came from is passed over, by its token; empty when nobody is left.
IsTarget(t, i) == Auth[t.node][Nextloop[t.node][i]] # t.key
Loop(t, i) ==
  {[t EXCEPT !.stage = "send", !.next = j] :
     j \in {k \in i..Len(Nextloop[t.node]) :
              IsTarget(t, k) /\ \A l \in i..(k - 1) : ~IsTarget(t, l)}}

\* Nextmsg begins, if the message goes further.
Nextmsg(n, m, ttl, key) ==
  IF NextByte(ttl) = 0 THEN {} ELSE Loop(Received(n, m, NextByte(ttl), key), 1)

Pushing(n, m) == IF m \in Private THEN pushed \cup {<<n, m>>} ELSE pushed

-----------------------------------------------------------------------------
(* Where messages come from.                                               *)

\* The author hands a message to a node, as its operator or another client.
Post(m, key) ==
  /\ posts < MaxPost /\ posts' = posts + 1
  /\ tasks' = tasks (+) SetToBag({Received(Author[m], m, TTL0[m], key)})
  /\ UNCHANGED <<seen, disk, old, pushed, disturbed, events>>

\* resend: the file's bytes go to Nextmsg, whatever tag they have.
Resend(n, m) ==
  /\ events < MaxEvent /\ events' = events + 1
  /\ disk[n][m] # 0
  /\ tasks' = tasks (+) SetToBag(Nextmsg(n, m, disk[n][m], Skip))
  /\ pushed' = Pushing(n, m)
  /\ UNCHANGED <<seen, disk, old, disturbed, posts>>

-----------------------------------------------------------------------------
(* checkAndVeify_kep.                                                      *)

\* The TTL, the time window and the seen map.
Check(t) ==
  /\ t.stage = "check"
  /\ IF TTLOK(t.ttl) /\ t.msg \notin old /\ t.msg \notin seen[t.node]
     THEN Become(t, {[t EXCEPT !.stage = "mark"]})
     ELSE Ends(t)
  /\ UNCHANGED <<seen, disk, old, pushed, disturbed, posts, events>>

\* After the lookups the message is marked as seen.
Mark(t) ==
  /\ t.stage = "mark"
  /\ seen' = [seen EXCEPT ![t.node] = @ \cup {t.msg}]
  /\ Become(t, {[t EXCEPT !.stage = "store"]})
  /\ UNCHANGED <<disk, old, pushed, disturbed, posts, events>>

\* Mutant: private messages are sent on like the others.
StoreAll(t) ==
  /\ t.stage = "store"
  /\ disk' = [disk EXCEPT ![t.node][t.msg] = t.ttl]
  /\ Become(t, Nextmsg(t.node, t.msg, t.ttl, t.key))
  /\ pushed' = IF t.key = Skip THEN Pushing(t.node, t.msg) ELSE pushed
  /\ UNCHANGED <<seen, old, disturbed, posts, events>>

\* WriteMDB writes the bytes as they came; a private message of somebody else
\* stops here, any other goes on to Nextmsg.
Store(t) ==
  /\ t.stage = "store"
  /\ disk' = [disk EXCEPT ![t.node][t.msg] = t.ttl]
  /\ IF t.msg \in Private /\ t.key # Skip
     THEN Ends(t)
     ELSE Become(t, Nextmsg(t.node, t.msg, t.ttl, t.key))
  /\ pushed' = IF t.key = Skip THEN Pushing(t.node, t.msg) ELSE pushed
  /\ UNCHANGED <<seen, old, disturbed, posts, events>>

\* Mutant: a message whose check or write failed is sent on all the same.
SendUnstored(t) ==
  /\ t.stage \in {"mark", "store"}
  /\ Become(t, Nextmsg(t.node, t.msg, t.ttl, t.key))
  /\ disturbed' = TRUE
  /\ UNCHANGED <<seen, disk, old, pushed, posts, events>>

\* A lookup, the parent check, a limiter or a write ends the goroutine.
Drop(t) ==
  /\ t.stage \in {"mark", "store"}
  /\ Ends(t)
  /\ disturbed' = TRUE
  /\ UNCHANGED <<seen, disk, old, pushed, posts, events>>

-----------------------------------------------------------------------------
(* Nextmsg, one neighbour after the other.                                 *)

\* Mutant: the loop does not end with the last neighbour.
OnwardPast(t) == {[t EXCEPT !.next = @ + 1]}

\* The rest of the loop.
Onward(t) == Loop(t, t.next + 1)

\* The neighbour receives it, and answers before it does anything with it.
Send(t) ==
  LET v == Nextloop[t.node][t.next] IN
  /\ t.stage = "send"
  /\ Become(t, Onward(t) \cup {Received(v, t.msg, t.ttl, Auth[t.node][v])})
  /\ UNCHANGED <<seen, disk, old, pushed, disturbed, posts, events>>

\* Mutant: after a failure the loop begins again.
TryAgain(t) ==
  /\ t.stage = "send"
  /\ Become(t, Loop(t, 1))
  /\ disturbed' = TRUE
  /\ UNCHANGED <<seen, disk, old, pushed, posts, events>>

\* Or it does not: it is believed dead, its breaker is open, it is not
\* reached, or it refuses the request.
Lose(t) ==
  /\ t.stage = "send"
  /\ Become(t, Onward(t))
  /\ disturbed' = TRUE
  /\ UNCHANGED <<seen, disk, old, pushed, posts, events>>

-----------------------------------------------------------------------------
(* Time and failures.                                                      *)

\* The hourly reset of a node's seen map.
Reset(n) ==
  /\ seen' = [seen EXCEPT ![n] = {}]
  /\ disturbed' = TRUE
  /\ UNCHANGED <<tasks, disk, old, pushed, posts, events>>

\* A quarter of an hour after its timestamp a message is refused.
GrowOld(m) ==
  /\ events < MaxEvent /\ events' = events + 1
  /\ old' = old \cup {m}
  /\ disturbed' = TRUE
  /\ UNCHANGED <<tasks, seen, disk, pushed, posts>>

\* A node's process ends with its goroutines and starts again.
Crash(n) ==
  /\ events < MaxEvent /\ events' = events + 1
  /\ LET gone == {t \in BagToSet(tasks) : t.node = n}
     IN  tasks' = [t \in BagToSet(tasks) \ gone |-> tasks[t]]
  /\ seen' = [seen EXCEPT ![n] = {}]
  /\ disturbed' = TRUE
  /\ UNCHANGED <<disk, old, pushed, posts>>

Work(t) == Check(t) \/ Mark(t) \/ Store(t) \/ Drop(t) \/ Send(t) \/ Lose(t)

Next == \/ \E m \in Msg : \/ \E k \in Client : Post(m, k)
                           \/ \E n \in Node : Resend(n, m)
                           \/ GrowOld(m)
        \/ \E t \in BagToSet(tasks) : Work(t)
        \/ \E n \in Node : Reset(n) \/ Crash(n)

Spec == Init /\ [][Next]_vars

\* The scheduler runs goroutines, and every lookup, write and request in them
\* has a time limit or returns by itself.
FairSpec == Spec /\ WF_vars(\E t \in BagToSet(tasks) : Work(t))

-----------------------------------------------------------------------------
(* Properties.                                                             *)

\* The variables have their types (the one type invariant of this module).
TypeOK ==
  /\ IsABag(tasks) /\ BagToSet(tasks) \subseteq Task
  /\ \A t \in BagToSet(tasks) : t.stage = "send" => t.next \in 1..Len(Nextloop[t.node])
  /\ seen \in [Node -> SUBSET Msg] /\ disk \in [Node -> [Msg -> Byte]]
  /\ old \subseteq Msg /\ pushed \subseteq Node \X Private /\ disturbed \in BOOLEAN
  /\ posts \in Nat /\ events \in Nat

\* Every hop costs one of the TTL: whatever is resent, forgotten or delivered
\* twice, a copy stored d hops from its author has a TTL of at most TTL0 - d,
\* so no message gets TTL0 hops away, and nobody stores one with a bad TTL.
HopBudget ==
  \A n \in Node, m \in Msg : disk[n][m] # 0 =>
    Dist[Author[m]][n] + disk[n][m] <= TTL0[m] /\ TTLOK(disk[n][m])

\* server.go 208: a message with tag 65535 is private and not forwarded to the
\* next hop.  So only the node it was posted to ever hands it to a neighbour.
\* Resend breaks this.
PrivateNotForwarded ==
  \A t \in BagToSet(tasks) :
    t.msg \in Private /\ t.stage = "send" => t.node = Author[t.msg]

\* What is left of it with Resend: a private message is stored by the node it
\* was posted to and by neighbours of nodes whose operator sent it on, nowhere
\* else.  No goroutine sends on what a neighbour delivered.
PrivateSpread ==
  \A n \in Node, m \in Private : disk[n][m] # 0 =>
    \/ n = Author[m]
    \/ \E u \in Node : /\ <<u, m>> \in pushed
                       /\ \E i \in 1..Len(Nextloop[u]) : Nextloop[u][i] = n

\* Messages do not travel for ever, even round a circle of nodes that forget
\* them: some day every goroutine has ended.
Stops == <>[](tasks = EmptyBag)

\* A TTL that can take message m to every node.
Sufficient(m) == Cardinality(Node) <= TTL0[m] /\ TTLOK(TTL0[m])

\* When nothing is lost, dropped or forgotten and every goroutine has ended, a
\* public message with a TTL of at least the number of nodes is stored by all
\* or not even by its author, whatever order the copies overtook each other in:
\* no node marks it as seen on a path whose TTL runs out while the nodes behind
\* still count on that node to send it on.
Delivered ==
  ~disturbed /\ tasks = EmptyBag =>
    \A m \in Msg \ Private : Sufficient(m) /\ disk[Author[m]][m] # 0 =>
      \A n \in Node : disk[n][m] # 0

\* And so, in the end, it reaches them all.
Reaches ==
  \A m \in Msg \ Private : Sufficient(m) =>
    (disk[Author[m]][m] # 0 ~> disturbed \/ \A n \in Node : disk[n][m] # 0)

-----------------------------------------------------------------------------
(* The networks Delivered and Reaches are true of.                         *)

\* The nodes u sends to.
Neighbours(u) == {Nextloop[u][i] : i \in 1..Len(Nextloop[u])}

\* There is a way from the author of every message to every node.
Connected ==
  \A m \in Msg : \A S \in SUBSET Node :
    Author[m] \in S /\ (\A u \in S : Neighbours(u) \subseteq S) => S = Node

\* The token that u presents to v is no client's, and no other node presents it
\* to u: whoever u passes over for it is v.
TokensTell ==
  \A u \in Node : \A v \in Neighbours(u) :
    /\ Auth[u][v] \notin Client \cup {Skip}
    /\ \A w \in Node : u \in Neighbours(w) /\ Auth[w][u] = Auth[u][v] => w = v

Network == IsFiniteSet(Node) /\ Connected /\ TokensTell

-----------------------------------------------------------------------------
(* The abstract specification.                                             *)

\* A message spreads only from nodes that have it in their files, over links
\* and, if it is private, from operators who sent it on: no goroutine carries
\* a message out of a node that did not store it, before a crash or after.
Spreading == INSTANCE Flood WITH
  Link <- {l \in Node \X Node : l[2] \in Neighbours(l[1])},
  has <- [m \in Msg |-> {n \in Node : disk[n][m] # 0}]
ImplementsFlood == Spreading!Spec
=============================================================================
