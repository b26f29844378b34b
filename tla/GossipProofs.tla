---------------------------- MODULE GossipProofs ----------------------------
(***************************************************************************)
(* Proofs about Gossip for any network of nodes, any messages and TTLs.    *)
(*                                                                         *)
(* What is stored comes from a goroutine, so the invariant speaks of both: *)
(* a goroutine's TTL is within the budget of its node (Paid), and a        *)
(* private message in it is where it may be (Near); a message being sent   *)
(* on costs one more hop.  FInv, for the abstract Flood, says where a      *)
(* goroutine's message comes from.                                         *)
(***************************************************************************)
EXTENDS Gossip, TLAPS

\* The hops task t has made and the TTL it has left are within the budget.
Paid(t) ==
  /\ t.stage = "check" => Dist[Author[t.msg]][t.node] + t.ttl <= TTL0[t.msg]
  /\ t.stage \in {"mark", "store"} =>
       TTLOK(t.ttl) /\ Dist[Author[t.msg]][t.node] + t.ttl <= TTL0[t.msg]
  /\ t.stage = "send" => Dist[Author[t.msg]][t.node] + t.ttl + 1 <= TTL0[t.msg]

\* Node n may store the private message m.
MayStore(n, m) ==
  \/ n = Author[m]
  \/ \E u \in Node : /\ <<u, m>> \in pushed
                     /\ \E i \in 1..Len(Nextloop[u]) : Nextloop[u][i] = n

\* A private message in task t is where it may be.
Near(t) ==
  t.msg \in Private => /\ MayStore(t.node, t.msg)
                       /\ t.stage = "send" => <<t.node, t.msg>> \in pushed

\* A task as it should be.
Good(t) ==
  /\ t \in Task /\ Paid(t) /\ Near(t)
  /\ t.stage = "send" => t.next \in 1..Len(Nextloop[t.node])

GoodTasks == \A t \in BagToSet(tasks) : Good(t)

GInv == TypeOK /\ HopBudget /\ PrivateSpread /\ GoodTasks

-----------------------------------------------------------------------------
(* Bags.                                                                   *)

\* Nothing is in the bag that was not there or is new.
LEMMA Became ==
  ASSUME IsABag(tasks), NEW t, NEW new, Become(t, new)
  PROVE  IsABag(tasks') /\ BagToSet(tasks') \subseteq BagToSet(tasks) \cup new
  <1>. DEFINE S == tasks (-) SetToBag({t})
  <1>1. IsABag(S) /\ DOMAIN S \subseteq DOMAIN tasks
    BY DEF IsABag, SetToBag, (-)
  <1>. HIDE DEF S
  <1>2. tasks' = S (+) SetToBag(new)
    BY DEF Become, S
  <1>. QED
    BY <1>1, <1>2 DEF IsABag, SetToBag, BagToSet, (+)

LEMMA Added ==
  ASSUME IsABag(tasks), NEW new, tasks' = tasks (+) SetToBag(new)
  PROVE  IsABag(tasks') /\ BagToSet(tasks') \subseteq BagToSet(tasks) \cup new
  BY DEF IsABag, SetToBag, BagToSet, (+)

LEMMA Removed ==
  ASSUME IsABag(tasks), NEW gone, tasks' = [t \in BagToSet(tasks) \ gone |-> tasks[t]]
  PROVE  IsABag(tasks') /\ BagToSet(tasks') \subseteq BagToSet(tasks)
  BY DEF IsABag, BagToSet

\* When more private messages are pushed, a task stays as good as it was.
LEMMA StaysGood ==
  ASSUME NEW t, Good(t), pushed \subseteq pushed'
  PROVE  Good(t)'
  BY DEF Good, Paid, Near, MayStore

\* The constants at a node and a message.
LEMMA Constants ==
  ASSUME NEW n \in Node, NEW m \in Msg
  PROVE  /\ Author[m] \in Node /\ TTL0[m] \in Byte /\ TTL0[m] \in Nat
         /\ Dist[Author[m]][n] \in Nat /\ Dist[n][n] = 0
  <1>1. /\ Author \in [Msg -> Node] /\ TTL0 \in [Msg -> Byte]
        /\ Dist \in [Node -> [Node -> Nat]]
    BY GossipAssumption
  <1>2. Author[m] \in Node /\ TTL0[m] \in Byte
    BY <1>1
  <1>3. Dist[n][n] = 0
    BY GossipAssumption
  <1>4. Dist[Author[m]] \in [Node -> Nat]
    BY <1>1, <1>2
  <1>. QED
    BY <1>2, <1>3, <1>4 DEF Byte

-----------------------------------------------------------------------------
(* Nextmsg.                                                                *)

LEMMA NextByteLess ==
  ASSUME NEW ttl \in Byte, NextByte(ttl) # 0
  PROVE  NextByte(ttl) \in Byte /\ NextByte(ttl) \in 1..250
         /\ (ttl # 0 => NextByte(ttl) = ttl - 1)
  BY DEF NextByte, Byte

\* The loop over the neighbours keeps to nextloop.
LEMMA LoopTasks ==
  ASSUME NEW t \in Task, NEW i \in Nat, NEW x \in Loop(t, i), i >= 1
  PROVE  /\ x \in Task /\ x.stage = "send" /\ x.next \in 1..Len(Nextloop[x.node])
         /\ x.node = t.node /\ x.msg = t.msg /\ x.ttl = t.ttl /\ x.key = t.key
  <1>1. PICK j \in i..Len(Nextloop[t.node]) : x = [t EXCEPT !.stage = "send", !.next = j]
    BY DEF Loop
  <1>2. t.node \in Node
    BY DEF Task
  <1>3. Nextloop[t.node] \in Seq(Node)
    BY <1>2, GossipAssumption
  <1>4. j \in Nat /\ j \in 1..Len(Nextloop[t.node])
    BY <1>1, <1>3
  <1>5. /\ x = [node |-> t.node, msg |-> t.msg, ttl |-> t.ttl, key |-> t.key,
                stage |-> "send", next |-> j]
    BY <1>1 DEF Task
  <1>. QED
    BY <1>4, <1>5 DEF Task

\* What Nextmsg sends on from a node that has the message within the budget.
LEMMA NextmsgTasks ==
  ASSUME NEW n \in Node, NEW m \in Msg, NEW ttl \in Byte, NEW k \in Key,
         NEW x \in Nextmsg(n, m, ttl, k),
         ttl # 0, Dist[Author[m]][n] + ttl <= TTL0[m],
         m \in Private => <<n, m>> \in pushed' /\ MayStore(n, m)'
  PROVE  Good(x)'
  <1>. DEFINE r == Received(n, m, NextByte(ttl), k)
  <1>1. NextByte(ttl) # 0 /\ x \in Loop(r, 1)
    BY DEF Nextmsg
  <1>2. NextByte(ttl) \in Byte /\ NextByte(ttl) = ttl - 1
    BY <1>1, NextByteLess
  <1>3. r \in Task /\ r.node = n /\ r.msg = m /\ r.ttl = NextByte(ttl)
    BY <1>2 DEF Received, Task
  <1>. HIDE DEF r
  <1>4. /\ x \in Task /\ x.stage = "send" /\ x.next \in 1..Len(Nextloop[x.node])
        /\ x.node = n /\ x.msg = m /\ x.ttl = ttl - 1
    BY <1>1, <1>2, <1>3, LoopTasks
  <1>5. Dist[Author[m]][n] \in Nat /\ TTL0[m] \in Nat
    BY Constants
  <1>6. Paid(x)'
    BY <1>4, <1>5 DEF Paid, Byte
  <1>7. Near(x)'
    BY <1>4 DEF Near, MayStore
  <1>. QED
    BY <1>4, <1>6, <1>7 DEF Good

-----------------------------------------------------------------------------
(* The steps.                                                              *)

LEMMA GInit == Init => GInv
  <1>. SUFFICES ASSUME Init PROVE GInv
    OBVIOUS
  <1>1. IsABag(tasks) /\ BagToSet(tasks) = {}
    BY DEF Init, EmptyBag, SetToBag, IsABag, BagToSet
  <1>2. TypeOK
    <2>1. disk \in [Node -> [Msg -> Byte]] /\ seen \in [Node -> SUBSET Msg]
      BY DEF Init, Byte
    <2>. QED
      BY <1>1, <2>1 DEF Init, TypeOK
  <1>3. HopBudget /\ PrivateSpread
    BY GossipAssumption DEF Init, HopBudget, PrivateSpread
  <1>. QED
    BY <1>1, <1>2, <1>3 DEF GInv, GoodTasks

\* A step that leaves the files alone and takes no operator's push away.
Frame ==
  /\ disk' = disk /\ pushed \subseteq pushed' /\ pushed' \subseteq Node \X Private
  /\ seen' \in [Node -> SUBSET Msg] /\ old' \subseteq Msg /\ disturbed' \in BOOLEAN
  /\ posts' \in Nat /\ events' \in Nat

\* Of such a step it remains to show that the new tasks are good.
LEMMA TasksFrame ==
  ASSUME GInv, Frame, IsABag(tasks'),
         \A x \in BagToSet(tasks') : x \in BagToSet(tasks) \/ Good(x)'
  PROVE  GInv'
  <1>. USE DEF Frame
  <1>1. GoodTasks'
    BY StaysGood DEF GInv, GoodTasks
  <1>2. TypeOK'
    BY <1>1 DEF GInv, TypeOK, GoodTasks, Good
  <1>3. HopBudget' /\ PrivateSpread'
    BY DEF GInv, HopBudget, PrivateSpread
  <1>. QED
    BY <1>1, <1>2, <1>3 DEF GInv

\* A received message that is within the budget.
LEMMA ReceivedGood ==
  ASSUME NEW n \in Node, NEW m \in Msg, NEW ttl \in Byte, NEW k \in Key,
         Dist[Author[m]][n] + ttl <= TTL0[m], m \in Private => MayStore(n, m)'
  PROVE  Good(Received(n, m, ttl, k))'
  <1>. DEFINE r == Received(n, m, ttl, k)
  <1>1. /\ r \in Task /\ r.node = n /\ r.msg = m /\ r.ttl = ttl /\ r.stage = "check"
    BY DEF Received, Task
  <1>. HIDE DEF r
  <1>2. Good(r)'
    BY <1>1 DEF Good, Paid, Near, MayStore
  <1>. QED
    BY <1>2 DEF r

LEMMA PostStep ==
  ASSUME GInv, NEW m \in Msg, NEW k \in Client, Post(m, k)
  PROVE  GInv'
  <1>. DEFINE r == Received(Author[m], m, TTL0[m], k)
  <1>1. Author[m] \in Node /\ TTL0[m] \in Byte /\ TTL0[m] \in Nat
    BY Constants, GossipAssumption
  <1>4. k \in Key /\ Dist[Author[m]][Author[m]] = 0
    BY <1>1, Constants, GossipAssumption
  <1>5. MayStore(Author[m], m)'
    BY DEF MayStore
  <1>2. Good(r)'
    BY <1>1, <1>4, <1>5, ReceivedGood
  <1>3. IsABag(tasks') /\ BagToSet(tasks') \subseteq BagToSet(tasks) \cup {r}
    BY Added DEF Post, GInv, TypeOK
  <1>. HIDE DEF r
  <1>20. Frame
    BY DEF Frame, Post, GInv, TypeOK
  <1>. QED
    BY <1>2, <1>3, <1>20, TasksFrame

LEMMA ResendStep ==
  ASSUME GInv, NEW n \in Node, NEW m \in Msg, Resend(n, m)
  PROVE  GInv'
  <1>1. disk[n][m] \in Byte /\ disk[n][m] # 0 /\ Dist[Author[m]][n] + disk[n][m] <= TTL0[m]
    BY DEF GInv, TypeOK, HopBudget, Resend
  <1>2. pushed \subseteq pushed' /\ pushed' \subseteq Node \X Private
    BY DEF Resend, Pushing, GInv, TypeOK
  <1>3. m \in Private => <<n, m>> \in pushed' /\ MayStore(n, m)'
    <2>1. m \in Private => MayStore(n, m)
      BY <1>1 DEF GInv, PrivateSpread, MayStore
    <2>. QED
      BY <1>2, <2>1 DEF Resend, Pushing, MayStore
  <1>4. \A x \in Nextmsg(n, m, disk[n][m], Skip) : Good(x)'
    BY <1>1, <1>3, NextmsgTasks, GossipAssumption
  <1>5. /\ IsABag(tasks')
        /\ BagToSet(tasks') \subseteq BagToSet(tasks) \cup Nextmsg(n, m, disk[n][m], Skip)
    BY Added DEF Resend, GInv, TypeOK
  <1>20. Frame
    BY <1>2 DEF Frame, Resend, GInv, TypeOK
  <1>. QED
    BY <1>2, <1>4, <1>5, <1>20, TasksFrame

\* Check and Mark pass the message on within the node, or end.
LEMMA CheckStep ==
  ASSUME GInv, NEW t \in BagToSet(tasks), Check(t)
  PROVE  GInv'
  <1>. DEFINE x == [t EXCEPT !.stage = "mark"]
  <1>1. Good(t) /\ t \in Task /\ t.stage = "check"
    BY DEF GInv, GoodTasks, Good, Check
  <1>20. Frame
    BY DEF Frame, Check, GInv, TypeOK
  <1>2. CASE TTLOK(t.ttl) /\ t.msg \notin old /\ t.msg \notin seen[t.node]
    <2>1. /\ x \in Task /\ x.stage = "mark" /\ x.node = t.node /\ x.msg = t.msg /\ x.ttl = t.ttl
      BY <1>1 DEF Task
    <2>2. Good(x)'
      BY <1>1, <1>2, <2>1 DEF Good, Paid, Near, MayStore, Check
    <2>3. IsABag(tasks') /\ BagToSet(tasks') \subseteq BagToSet(tasks) \cup {x}
      BY <1>2, Became DEF Check, GInv, TypeOK
    <2>. HIDE DEF x
    <2>. QED
      BY <2>2, <2>3, <1>20, TasksFrame
  <1>3. CASE ~(TTLOK(t.ttl) /\ t.msg \notin old /\ t.msg \notin seen[t.node])
    <2>1. IsABag(tasks') /\ BagToSet(tasks') \subseteq BagToSet(tasks) \cup {}
      BY <1>3, Became DEF Check, Ends, GInv, TypeOK
    <2>. QED
      BY <2>1, <1>20, TasksFrame
  <1>. QED
    BY <1>2, <1>3

LEMMA MarkStep ==
  ASSUME GInv, NEW t \in BagToSet(tasks), Mark(t)
  PROVE  GInv'
  <1>. DEFINE x == [t EXCEPT !.stage = "store"]
  <1>1. Good(t) /\ t \in Task /\ t.stage = "mark" /\ t.node \in Node /\ t.msg \in Msg
    BY DEF GInv, GoodTasks, Good, Mark, Task
  <1>2. /\ x \in Task /\ x.stage = "store" /\ x.node = t.node /\ x.msg = t.msg /\ x.ttl = t.ttl
    BY <1>1 DEF Task
  <1>3. Good(x)'
    BY <1>1, <1>2 DEF Good, Paid, Near, MayStore, Mark
  <1>4. IsABag(tasks') /\ BagToSet(tasks') \subseteq BagToSet(tasks) \cup {x}
    BY Became DEF Mark, GInv, TypeOK
  <1>5. seen' \in [Node -> SUBSET Msg]
    BY <1>1 DEF Mark, GInv, TypeOK
  <1>. HIDE DEF x
  <1>20. Frame
    BY <1>5 DEF Frame, Mark, GInv, TypeOK
  <1>. QED
    BY <1>3, <1>4, <1>5, <1>20, TasksFrame

\* The file gets a TTL within the budget; a private message that goes on was
\* pushed by its operator.
LEMMA StoreStep ==
  ASSUME GInv, NEW t \in BagToSet(tasks), Store(t)
  PROVE  GInv'
  <1>1. /\ Good(t) /\ t \in Task /\ t.stage = "store" /\ t.node \in Node /\ t.msg \in Msg
        /\ t.ttl \in Byte /\ t.key \in Key /\ TTLOK(t.ttl)
        /\ Dist[Author[t.msg]][t.node] + t.ttl <= TTL0[t.msg]
        /\ t.msg \in Private => MayStore(t.node, t.msg)
    BY DEF GInv, GoodTasks, Good, Paid, Near, Store, Task
  <1>2. pushed \subseteq pushed' /\ pushed' \subseteq Node \X Private
    BY <1>1 DEF Store, Pushing, GInv, TypeOK
  <1>3. \A n \in Node, m \in Private : MayStore(n, m) => MayStore(n, m)'
    BY <1>2 DEF MayStore
  <1>4. PICK new : /\ Become(t, new) /\ \A x \in new : Good(x)'
    <2>1. CASE t.msg \in Private /\ t.key # Skip
      BY <2>1 DEF Store, Ends
    <2>2. CASE ~(t.msg \in Private /\ t.key # Skip)
      <3>1. Become(t, Nextmsg(t.node, t.msg, t.ttl, t.key))
        BY <2>2 DEF Store
      <3>2. t.msg \in Private => <<t.node, t.msg>> \in pushed' /\ MayStore(t.node, t.msg)'
        BY <1>1, <1>3, <2>2 DEF Store, Pushing
      <3>3. t.ttl # 0
        BY <1>1 DEF TTLOK
      <3>4. \A x \in Nextmsg(t.node, t.msg, t.ttl, t.key) : Good(x)'
        BY <1>1, <3>2, <3>3, NextmsgTasks
      <3>. QED
        BY <3>1, <3>4
    <2>. QED
      BY <2>1, <2>2
  <1>5. IsABag(tasks') /\ BagToSet(tasks') \subseteq BagToSet(tasks) \cup new
    BY <1>4, Became DEF GInv, TypeOK
  <1>6. GoodTasks'
    BY <1>2, <1>4, <1>5, StaysGood DEF GInv, GoodTasks
  <1>7. disk' \in [Node -> [Msg -> Byte]]
    BY <1>1 DEF Store, GInv, TypeOK
  <1>8. TypeOK'
    BY <1>2, <1>5, <1>6, <1>7 DEF Store, GInv, TypeOK, GoodTasks, Good
  <1>9. ASSUME NEW n \in Node, NEW m \in Msg
        PROVE  disk'[n][m] = IF n = t.node /\ m = t.msg THEN t.ttl ELSE disk[n][m]
    BY <1>1 DEF Store, GInv, TypeOK
  <1>10. HopBudget'
    BY <1>1, <1>9 DEF GInv, HopBudget
  <1>11. PrivateSpread'
    <2>. SUFFICES ASSUME NEW n \in Node, NEW m \in Private, disk'[n][m] # 0
                  PROVE  MayStore(n, m)'
      BY DEF PrivateSpread, MayStore
    <2>1. m \in Msg
      BY GossipAssumption
    <2>2. MayStore(n, m)
      <3>1. CASE n = t.node /\ m = t.msg
        BY <1>1, <3>1
      <3>2. CASE ~(n = t.node /\ m = t.msg)
        BY <1>9, <2>1, <3>2, SMTT(30) DEF GInv, PrivateSpread, MayStore
      <3>. QED
        BY <3>1, <3>2
    <2>. QED
      BY <1>3, <2>2
  <1>. QED
    BY <1>6, <1>8, <1>10, <1>11 DEF GInv

LEMMA DropStep ==
  ASSUME GInv, NEW t \in BagToSet(tasks), Drop(t)
  PROVE  GInv'
  <1>1. IsABag(tasks') /\ BagToSet(tasks') \subseteq BagToSet(tasks) \cup {}
    BY Became DEF Drop, Ends, GInv, TypeOK
  <1>20. Frame
    BY DEF Frame, Drop, GInv, TypeOK
  <1>. QED
    BY <1>1, <1>20, TasksFrame

\* The rest of a loop is as good as the loop.
LEMMA OnwardGood ==
  ASSUME GInv, NEW t \in BagToSet(tasks), t.stage = "send", pushed' = pushed,
         NEW x \in Onward(t)
  PROVE  Good(x)'
  <1>1. Good(t) /\ t \in Task /\ t.next \in Nat
    BY DEF GInv, GoodTasks, Good, Task
  <1>2. /\ x \in Task /\ x.stage = "send" /\ x.next \in 1..Len(Nextloop[x.node])
        /\ x.node = t.node /\ x.msg = t.msg /\ x.ttl = t.ttl
    BY <1>1, LoopTasks DEF Onward
  <1>. QED
    BY <1>1, <1>2 DEF Good, Paid, Near, MayStore

\* The neighbour is one hop further and the TTL has been counted down.
LEMMA SendStep ==
  ASSUME GInv, NEW t \in BagToSet(tasks), Send(t)
  PROVE  GInv'
  <1>. DEFINE v == Nextloop[t.node][t.next]
              r == Received(v, t.msg, t.ttl, Auth[t.node][v])
  <1>1. /\ Good(t) /\ t \in Task /\ t.stage = "send" /\ t.node \in Node /\ t.msg \in Msg
        /\ t.ttl \in Byte /\ t.next \in 1..Len(Nextloop[t.node])
        /\ Dist[Author[t.msg]][t.node] + t.ttl + 1 <= TTL0[t.msg]
        /\ t.msg \in Private => <<t.node, t.msg>> \in pushed
    BY DEF GInv, GoodTasks, Good, Paid, Near, Send, Task
  <1>2. v \in Node /\ Author[t.msg] \in Node
    <2>1. Nextloop[t.node] \in Seq(Node)
      BY <1>1, GossipAssumption
    <2>. QED
      BY <1>1, <2>1, Constants
  <1>3. Auth[t.node][v] \in Key
    <2>1. Auth \in [Node -> [Node -> Key]]
      BY GossipAssumption
    <2>. QED
      BY <1>1, <1>2, <2>1
  <1>4. Dist[Author[t.msg]][v] + t.ttl <= TTL0[t.msg]
    <2>1. Dist[Author[t.msg]][v] <= Dist[Author[t.msg]][t.node] + 1
      BY <1>1, <1>2, GossipAssumption
    <2>2. Dist[Author[t.msg]][v] \in Nat /\ Dist[Author[t.msg]][t.node] \in Nat
      BY <1>1, <1>2, Constants
    <2>3. t.ttl \in Nat /\ TTL0[t.msg] \in Nat
      <3>1. TTL0[t.msg] \in Nat
        BY <1>1, Constants
      <3>2. t.ttl \in Nat
        <4>1. t.ttl \in Byte
          BY <1>1
        <4>. QED
          BY <4>1 DEF Byte
      <3>. QED
        BY <3>1, <3>2
    <2>4. Dist[Author[t.msg]][t.node] + t.ttl + 1 <= TTL0[t.msg]
      BY <1>1
    <2>. HIDE DEF v
    <2>. QED
      BY <2>1, <2>2, <2>3, <2>4
  <1>5. pushed' = pushed
    BY DEF Send
  <1>6. t.msg \in Private => MayStore(v, t.msg)'
    BY <1>1, <1>5 DEF MayStore
  <1>7. Good(r)'
    BY <1>1, <1>2, <1>3, <1>4, <1>6, ReceivedGood
  <1>8. /\ IsABag(tasks')
        /\ BagToSet(tasks') \subseteq BagToSet(tasks) \cup (Onward(t) \cup {r})
    BY Became DEF Send, GInv, TypeOK
  <1>. HIDE DEF r
  <1>9. \A x \in Onward(t) \cup {r} : Good(x)'
    BY <1>1, <1>5, <1>7, OnwardGood
  <1>20. Frame
    BY DEF Frame, Send, GInv, TypeOK
  <1>. QED
    BY <1>8, <1>9, <1>20, TasksFrame

LEMMA LoseStep ==
  ASSUME GInv, NEW t \in BagToSet(tasks), Lose(t)
  PROVE  GInv'
  <1>1. t.stage = "send" /\ pushed' = pushed
    BY DEF Lose
  <1>2. IsABag(tasks') /\ BagToSet(tasks') \subseteq BagToSet(tasks) \cup Onward(t)
    BY Became DEF Lose, GInv, TypeOK
  <1>3. \A x \in Onward(t) : Good(x)'
    BY <1>1, OnwardGood
  <1>20. Frame
    BY DEF Frame, Lose, GInv, TypeOK
  <1>. QED
    BY <1>2, <1>3, <1>20, TasksFrame

\* Resets, time and crashes take tasks and marks away.
LEMMA FaultStep ==
  ASSUME GInv, (\E n \in Node : Reset(n) \/ Crash(n)) \/ (\E m \in Msg : GrowOld(m))
               \/ UNCHANGED vars
  PROVE  GInv'
  <1>1. IsABag(tasks') /\ BagToSet(tasks') \subseteq BagToSet(tasks) \cup {}
    <2>1. CASE \E n \in Node : Crash(n)
      BY <2>1, Removed DEF Crash, GInv, TypeOK
    <2>2. CASE tasks' = tasks
      BY <2>2 DEF GInv, TypeOK
    <2>. QED
      BY <2>1, <2>2 DEF Reset, GrowOld, vars
  <1>2. CASE (\E n \in Node : Reset(n) \/ Crash(n)) \/ \E m \in Msg : GrowOld(m)
    <2>1. seen' \in [Node -> SUBSET Msg] /\ old' \subseteq Msg
      BY <1>2 DEF Reset, Crash, GrowOld, GInv, TypeOK
    <2>2. disk' = disk /\ pushed' = pushed /\ disturbed' \in BOOLEAN /\ posts' = posts
      BY <1>2 DEF Reset, Crash, GrowOld
    <2>4. events' \in Nat
      <3>1. events \in Nat
        BY DEF GInv, TypeOK
      <3>2. events' = events \/ events' = events + 1
        BY <1>2 DEF Reset, Crash, GrowOld
      <3>. QED
        BY <3>1, <3>2
    <2>3. Frame
      BY <2>1, <2>2, <2>4 DEF Frame, GInv, TypeOK
    <2>. QED
      BY <1>1, <2>3, TasksFrame
  <1>3. CASE UNCHANGED vars
    <2>1. Frame
      BY <1>3 DEF Frame, vars, GInv, TypeOK
    <2>. QED
      BY <1>1, <2>1, TasksFrame
  <1>. QED
    BY <1>2, <1>3

LEMMA GNext == GInv /\ [Next]_vars => GInv'
  BY PostStep, ResendStep, CheckStep, MarkStep, StoreStep, DropStep, SendStep, LoseStep,
     FaultStep DEF Next, Work

LEMMA GAlways == Spec => []GInv
  BY GInit, GNext, PTL DEF Spec

\* Type correctness of the network, for any constants.
THEOREM GossipTypes == Spec => []TypeOK
  <1>1. GInv => TypeOK
    BY DEF GInv
  <1>. QED
    BY <1>1, GAlways, PTL

\* The TTL bounds how far any copy gets, in every network.
THEOREM HopsAreBounded == Spec => []HopBudget
  <1>1. GInv => HopBudget
    BY DEF GInv
  <1>. QED
    BY <1>1, GAlways, PTL

\* Private messages stay next to those whose operator sends them on.
THEOREM PrivateStays == Spec => []PrivateSpread
  <1>1. GInv => PrivateSpread
    BY DEF GInv
  <1>. QED
    BY <1>1, GAlways, PTL
-----------------------------------------------------------------------------
(* The abstract specification: from whom a message comes.                  *)

\* Node u, which has the public or pushed message m, is linked to n.
From(u, n, m) ==
  /\ n \in Neighbours(u) /\ disk[u][m] # 0
  /\ m \in Private => <<u, m>> \in pushed

\* A goroutine sends on only what its own node has, and handles only what was
\* posted to its node or came from a node that has it.
Sourced(t) ==
  IF t.stage = "send" THEN disk[t.node][t.msg] # 0
  ELSE t.node = Author[t.msg] \/ \E u \in Node : From(u, t.node, t.msg)

FInv == \A t \in BagToSet(tasks) : Sourced(t)

\* Files and pushes stay, so that what came from a node still does.
Lasting == /\ \A n \in Node, m \in Msg : disk[n][m] # 0 => disk'[n][m] # 0
           /\ pushed \subseteq pushed'

LEMMA SourcedFrame ==
  ASSUME GInv, FInv, Lasting,
         \A x \in BagToSet(tasks') : x \in BagToSet(tasks) \/ Sourced(x)'
  PROVE  FInv'
  <1>1. ASSUME NEW t \in BagToSet(tasks)
        PROVE  Sourced(t)'
    <2>1. t.node \in Node /\ t.msg \in Msg /\ Sourced(t)
      BY DEF GInv, GoodTasks, Good, Task, FInv
    <2>2. \A u \in Node : From(u, t.node, t.msg) => From(u, t.node, t.msg)'
      BY <2>1 DEF From, Lasting, Neighbours
    <2>. QED
      BY <2>1, <2>2 DEF Sourced, Lasting
  <1>. QED
    BY <1>1 DEF FInv

\* What Nextmsg sends on is at its node.
LEMMA NextmsgSourced ==
  ASSUME NEW n \in Node, NEW m \in Msg, NEW ttl \in Byte, NEW k \in Key,
         NEW x \in Nextmsg(n, m, ttl, k), disk'[n][m] # 0
  PROVE  Sourced(x)'
  <1>. DEFINE r == Received(n, m, NextByte(ttl), k)
  <1>1. NextByte(ttl) # 0 /\ x \in Loop(r, 1)
    BY DEF Nextmsg
  <1>2. r \in Task /\ r.node = n /\ r.msg = m
    BY <1>1, NextByteLess DEF Received, Task
  <1>. HIDE DEF r
  <1>3. x.node = n /\ x.msg = m /\ x.stage = "send"
    BY <1>1, <1>2, LoopTasks
  <1>. QED
    BY <1>3 DEF Sourced

LEMMA PostSourced ==
  ASSUME GInv, FInv, NEW m \in Msg, NEW k \in Client, Post(m, k)
  PROVE  FInv' /\ [Spreading!Next]_(Spreading!vars)
  <1>. DEFINE r == Received(Author[m], m, TTL0[m], k)
  <1>1. r.node = Author[m] /\ r.msg = m /\ r.stage = "check"
    BY DEF Received
  <1>2. BagToSet(tasks') \subseteq BagToSet(tasks) \cup {r}
    BY Added DEF Post, GInv, TypeOK
  <1>. HIDE DEF r
  <1>3. Sourced(r)'
    BY <1>1 DEF Sourced
  <1>4. Lasting /\ UNCHANGED <<disk, pushed>>
    BY DEF Post, Lasting
  <1>. QED
    BY <1>2, <1>3, <1>4, SourcedFrame DEF Spreading!vars

\* A resend is a push of what the node has.
LEMMA ResendSourced ==
  ASSUME GInv, FInv, NEW n \in Node, NEW m \in Msg, Resend(n, m)
  PROVE  FInv' /\ [Spreading!Next]_(Spreading!vars)
  <1>1. disk[n][m] \in Byte /\ disk'[n][m] # 0 /\ Skip \in Key
    BY GossipAssumption DEF GInv, TypeOK, Resend
  <1>2. \A x \in Nextmsg(n, m, disk[n][m], Skip) : Sourced(x)'
    BY <1>1, NextmsgSourced
  <1>3. BagToSet(tasks') \subseteq BagToSet(tasks) \cup Nextmsg(n, m, disk[n][m], Skip)
    BY Added DEF Resend, GInv, TypeOK
  <1>4. Lasting
    BY DEF Resend, Lasting, Pushing
  <1>5. Spreading!Push(n, m)
    BY DEF Resend, Pushing, Spreading!Push, Spreading!Pushes
  <1>. QED
    BY <1>2, <1>3, <1>4, <1>5, SourcedFrame DEF Spreading!Next

\* Within its node a message has the source it had.
LEMMA StageSourced ==
  ASSUME GInv, FInv, NEW t \in BagToSet(tasks), Check(t) \/ Mark(t) \/ Drop(t)
  PROVE  FInv' /\ [Spreading!Next]_(Spreading!vars)
  <1>1. t \in Task /\ t.stage # "send" /\ Sourced(t)
    BY DEF GInv, GoodTasks, Good, FInv, Check, Mark, Drop
  <1>2. ASSUME NEW s \in {"mark", "store"}, Become(t, {[t EXCEPT !.stage = s]})
        PROVE  \A x \in BagToSet(tasks') : x \in BagToSet(tasks) \/ Sourced(x)'
    <2>. DEFINE y == [t EXCEPT !.stage = s]
    <2>1. y.node = t.node /\ y.msg = t.msg /\ y.stage # "send"
      BY <1>1 DEF Task
    <2>2. BagToSet(tasks') \subseteq BagToSet(tasks) \cup {y}
      BY <1>2, Became DEF GInv, TypeOK
    <2>. HIDE DEF y
    <2>3. Sourced(y)'
      BY <1>1, <2>1 DEF Sourced, From, Check, Mark, Drop
    <2>. QED
      BY <2>2, <2>3
  <1>3. ASSUME Ends(t)
        PROVE  \A x \in BagToSet(tasks') : x \in BagToSet(tasks) \/ Sourced(x)'
    BY <1>3, Became DEF Ends, GInv, TypeOK
  <1>4. Lasting /\ UNCHANGED <<disk, pushed>>
    BY DEF Check, Mark, Drop, Lasting
  <1>. QED
    BY <1>2, <1>3, <1>4, SourcedFrame DEF Check, Mark, Drop, Spreading!vars

\* Storing is taking the message, and a push if it is the operator's own.
LEMMA StoreSourced ==
  ASSUME GInv, FInv, NEW t \in BagToSet(tasks), Store(t)
  PROVE  FInv' /\ [Spreading!Next]_(Spreading!vars)
  <1>1. /\ t \in Task /\ t.node \in Node /\ t.msg \in Msg /\ t.ttl \in Byte /\ t.key \in Key
        /\ t.ttl # 0 /\ t.stage = "store" /\ Sourced(t)
    BY DEF GInv, GoodTasks, Good, Paid, TTLOK, FInv, Store, Task
  <1>2. ASSUME NEW n \in Node, NEW m \in Msg
        PROVE  disk'[n][m] = IF n = t.node /\ m = t.msg THEN t.ttl ELSE disk[n][m]
    BY <1>1 DEF Store, GInv, TypeOK
  <1>3. Lasting
    BY <1>1, <1>2 DEF Lasting, Store, Pushing
  <1>4. disk'[t.node][t.msg] # 0
    BY <1>1, <1>2
  <1>5. FInv'
    <2>1. \A x \in Nextmsg(t.node, t.msg, t.ttl, t.key) : Sourced(x)'
      BY <1>1, <1>4, NextmsgSourced
    <2>2. BagToSet(tasks') \subseteq BagToSet(tasks) \cup Nextmsg(t.node, t.msg, t.ttl, t.key)
      BY Became DEF Store, Ends, GInv, TypeOK
    <2>. QED
      BY <1>3, <2>1, <2>2, SourcedFrame
  <1>6. Spreading!Take(t.node, t.msg)
    <2>. DEFINE has == [m \in Msg |-> {n \in Node : disk[n][m] # 0}]
    <2>1. \/ t.node = Author[t.msg]
          \/ \E u \in Node : /\ <<u, t.node>> \in {l \in Node \X Node : l[2] \in Neighbours(l[1])}
                             /\ Spreading!Sends(u, t.msg)
      <3>1. CASE t.node = Author[t.msg]
        BY <3>1
      <3>2. ASSUME NEW u \in Node, From(u, t.node, t.msg)
            PROVE  /\ <<u, t.node>> \in {l \in Node \X Node : l[2] \in Neighbours(l[1])}
                   /\ Spreading!Sends(u, t.msg)
        BY <1>1, <3>2 DEF From, Spreading!Sends
      <3>. QED
        BY <1>1, <3>1, <3>2 DEF Sourced
    <2>2. has' = [has EXCEPT ![t.msg] = @ \cup {t.node}]
      <3>1. \A m \in Msg : {n \in Node : disk'[n][m] # 0} =
              IF m = t.msg THEN {n \in Node : disk[n][m] # 0} \cup {t.node}
              ELSE {n \in Node : disk[n][m] # 0}
        BY <1>1, <1>2
      <3>. QED
        BY <1>1, <3>1
    <2>3. pushed' \in {pushed, pushed \cup Spreading!Pushes(t.node, t.msg)}
      BY DEF Store, Pushing, Spreading!Pushes
    <2>. QED
      BY <2>1, <2>2, <2>3 DEF Spreading!Take
  <1>. QED
    BY <1>1, <1>5, <1>6 DEF Spreading!Next

\* What a neighbour receives comes from the node that sends it.
LEMMA SendSourced ==
  ASSUME GInv, FInv, NEW t \in BagToSet(tasks), Send(t) \/ Lose(t)
  PROVE  FInv' /\ [Spreading!Next]_(Spreading!vars)
  <1>. DEFINE v == Nextloop[t.node][t.next]
              r == Received(v, t.msg, t.ttl, Auth[t.node][v])
  <1>1. /\ t \in Task /\ t.node \in Node /\ t.msg \in Msg /\ t.next \in Nat
        /\ t.next \in 1..Len(Nextloop[t.node]) /\ disk[t.node][t.msg] # 0
        /\ t.msg \in Private => <<t.node, t.msg>> \in pushed
    BY DEF GInv, GoodTasks, Good, Near, FInv, Sourced, Send, Lose, Task
  <1>2. r.node = v /\ r.msg = t.msg /\ r.stage = "check"
    BY DEF Received
  <1>3. Lasting /\ UNCHANGED <<disk, pushed>>
    BY DEF Send, Lose, Lasting
  <1>4. From(t.node, v, t.msg)'
    BY <1>1, <1>3 DEF From, Neighbours
  <1>5. BagToSet(tasks') \subseteq BagToSet(tasks) \cup (Onward(t) \cup {r})
    BY Became DEF Send, Lose, GInv, TypeOK
  <1>. HIDE DEF v, r
  <1>6. Sourced(r)'
    BY <1>1, <1>2, <1>4 DEF Sourced
  <1>7. ASSUME NEW x \in Onward(t)
        PROVE  Sourced(x)'
    <2>1. x.node = t.node /\ x.msg = t.msg /\ x.stage = "send"
      BY <1>1, LoopTasks DEF Onward
    <2>. QED
      BY <1>1, <1>3, <2>1 DEF Sourced
  <1>8. FInv'
    BY <1>3, <1>5, <1>6, <1>7, SourcedFrame
  <1>. QED
    BY <1>3, <1>8 DEF Spreading!vars

\* Resets, time and crashes add no goroutine.
LEMMA FaultSourced ==
  ASSUME GInv, FInv, (\E n \in Node : Reset(n) \/ Crash(n)) \/ (\E m \in Msg : GrowOld(m))
                     \/ UNCHANGED vars
  PROVE  FInv' /\ [Spreading!Next]_(Spreading!vars)
  <1>1. BagToSet(tasks') \subseteq BagToSet(tasks)
    BY Removed DEF Reset, Crash, GrowOld, vars, GInv, TypeOK
  <1>2. Lasting /\ UNCHANGED <<disk, pushed>>
    BY DEF Reset, Crash, GrowOld, vars, Lasting
  <1>. QED
    BY <1>1, <1>2, SourcedFrame DEF Spreading!vars

\* Whatever is lost, doubled, overtaken, forgotten or cut off, messages spread
\* over links from nodes that have them in their files, and private ones from
\* nodes whose operator sent them on.
THEOREM FloodRefinement == Spec => ImplementsFlood
  <1>1. Init => FInv /\ Spreading!Init
    <2>1. Init => FInv
      BY DEF Init, FInv, EmptyBag, SetToBag, BagToSet
    <2>2. Init => Spreading!Init
      BY DEF Init, Spreading!Init
    <2>. QED
      BY <2>1, <2>2
  <1>2. GInv /\ FInv /\ [Next]_vars => FInv' /\ [Spreading!Next]_(Spreading!vars)
    BY PostSourced, ResendSourced, StageSourced, StoreSourced, SendSourced, FaultSourced
    DEF Next, Work
  <1>. QED
    BY <1>1, <1>2, GAlways, PTL DEF Spec, ImplementsFlood, Spreading!Spec
=============================================================================
