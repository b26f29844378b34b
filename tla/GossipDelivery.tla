--------------------------- MODULE GossipDelivery ---------------------------
(***************************************************************************)
(* Proof that an undisturbed network delivers: Delivered of Gossip, for    *)
(* any finite network, and from it that Reaches needs nothing but Stops.   *)
(*                                                                         *)
(* The TTL is the hard part.  A node that has marked a message ignores     *)
(* every later copy, also one with more hops left, so a copy with few hops *)
(* left may win the race to a node and stop behind it.  But each hop of a  *)
(* copy was at a node of its own, which has the message marked: a copy     *)
(* whose TTL runs out has been at as many nodes as there are (Travelled),  *)
(* and while it has not, whatever a node owes its neighbours is on its way *)
(* (Owed).                                                                 *)
(***************************************************************************)
EXTENDS GossipProofs, FiniteSetTheorems, WellFoundedInduction

\* The nodes that ignore further copies of m.
Marked(m) == {n \in Node : m \in seen[n]}

\* A copy of m that has ttl hops left has been at as many nodes of S as it
\* has made hops, and at as many more as the last argument says.
Spent(m, ttl, S, more) ==
  \E P \in SUBSET S : Cardinality(P) + ttl = TTL0[m] + more

\* Task t got its message from a client, or from a node that has it marked.
FromMarked(t) ==
  \/ t.key \in Client \cup {Skip}
  \/ \E w \in Marked(t.msg) : t.node \in Neighbours(w) /\ t.key = Auth[w][t.node]

\* Every hop of t was at another node.
Travelled(t) ==
  /\ TTLOK(t.ttl) /\ FromMarked(t)
  /\ t.stage \in {"check", "send"} => Spent(t.msg, t.ttl, Marked(t.msg), 0)
  /\ t.stage = "mark" => Spent(t.msg, t.ttl, Marked(t.msg) \ {t.node}, 0)
  /\ t.stage = "store" => Spent(t.msg, t.ttl, Marked(t.msg), 1)
  /\ t.stage \in {"store", "send"} => t.node \in Marked(t.msg)

\* So was every hop of a stored copy, the node itself included.
Stored(n, m) ==
  disk[n][m] # 0 => /\ TTLOK(disk[n][m]) /\ n \in Marked(m)
                    /\ Spent(m, disk[n][m], Marked(m), 1)

\* Whoever has marked m has it or is about to store it.
Kept(n, m) ==
  n \in Marked(m) => \/ disk[n][m] # 0
                     \/ \E t \in BagToSet(tasks) : t.node = n /\ t.msg = m /\ t.stage = "store"

\* Message m is on its way to node v.
Arriving(v, m) ==
  \E t \in BagToSet(tasks) : t.node = v /\ t.msg = m /\ t.stage \in {"check", "mark"}

\* A loop at u has still to come to its i-th neighbour.
ToSend(u, m, i) ==
  \E t \in BagToSet(tasks) : t.node = u /\ t.msg = m /\ t.stage = "send" /\ t.next <= i

\* What a node that has m owes its i-th neighbour is done or on its way.
Owed(u, m, i) ==
  disk[u][m] # 0 => \/ Nextloop[u][i] \in Marked(m) \/ Arriving(Nextloop[u][i], m)
                    \/ ToSend(u, m, i) \/ Marked(m) = Node

\* What an undisturbed network keeps of message m.
Flowing(m) ==
  /\ \A t \in BagToSet(tasks) : t.msg = m => Travelled(t)
  /\ \A n \in Node : Stored(n, m) /\ Kept(n, m)
  /\ \A u \in Node : \A i \in 1..Len(Nextloop[u]) : Owed(u, m, i)

DInv == ~disturbed => old = {} /\ \A m \in Msg \ Private : Sufficient(m) => Flowing(m)

-----------------------------------------------------------------------------
(* Sets, and bags that keep what was in them.                              *)

\* A set of naturals has a least member.
LEMMA LeastNat ==
  ASSUME NEW S \in SUBSET Nat, S # {}
  PROVE  \E x \in S : \A y \in S : x <= y
  <1>. DEFINE R == OpToRel(<, Nat)
  <1>1. \A x, y \in Nat : x < y => <<x, y>> \in R
    BY DEF OpToRel
  <1>2. IsWellFoundedOn(R, Nat)
    BY NatLessThanWellFounded
  <1>. HIDE DEF R
  <1>3. PICK x \in S : \A y \in S : ~ (<<y, x>> \in R)
    BY <1>2, WFMin
  <1>4. \A y \in S : ~ (y < x)
    BY <1>1, <1>3
  <1>. QED
    BY <1>4

\* All tasks but t, and the new ones, are there afterwards.
LEMMA BecameKeeps ==
  ASSUME IsABag(tasks), NEW t, NEW new, Become(t, new)
  PROVE  (BagToSet(tasks) \ {t}) \cup new \subseteq BagToSet(tasks')
  <1>. DEFINE S == tasks (-) SetToBag({t})
  <1>1. IsABag(S) /\ DOMAIN tasks \ {t} \subseteq DOMAIN S
    BY DEF IsABag, SetToBag, (-)
  <1>. HIDE DEF S
  <1>2. tasks' = S (+) SetToBag(new)
    BY DEF Become, S
  <1>. QED
    BY <1>1, <1>2 DEF IsABag, SetToBag, BagToSet, (+)

LEMMA AddedKeeps ==
  ASSUME IsABag(tasks), NEW new, tasks' = tasks (+) SetToBag(new)
  PROVE  BagToSet(tasks) \cup new \subseteq BagToSet(tasks')
  BY DEF IsABag, SetToBag, BagToSet, (+)

-----------------------------------------------------------------------------
(* Hops and nodes.                                                         *)

LEMMA SpentMonotone ==
  ASSUME NEW m, NEW ttl, NEW more, NEW S, NEW U, S \subseteq U, Spent(m, ttl, S, more)
  PROVE  Spent(m, ttl, U, more)
  BY DEF Spent

\* Nothing is spent on a message that has made no hop.
LEMMA SpentNone ==
  ASSUME NEW m \in Msg, NEW S
  PROVE  Spent(m, TTL0[m], S, 0)
  <1>1. Cardinality({}) = 0 /\ TTL0[m] \in Nat
    BY FS_EmptySet, Constants, GossipAssumption
  <1>2. {} \in SUBSET S /\ Cardinality({}) + TTL0[m] = TTL0[m] + 0
    BY <1>1
  <1>. QED
    BY <1>2 DEF Spent

\* Marking the message at a new node pays for one more hop.
LEMMA SpentMark ==
  ASSUME IsFiniteSet(Node), NEW S \in SUBSET Node, NEW n \in Node, NEW m \in Msg,
         NEW ttl \in Byte, Spent(m, ttl, S \ {n}, 0)
  PROVE  Spent(m, ttl, S \cup {n}, 1)
  <1>1. PICK P \in SUBSET (S \ {n}) : Cardinality(P) + ttl = TTL0[m] + 0
    BY DEF Spent
  <1>2. IsFiniteSet(P) /\ Cardinality(P) \in Nat
    <2>1. P \subseteq Node
      OBVIOUS
    <2>. QED
      BY <2>1, FS_Subset, FS_CardinalityType
  <1>3. Cardinality(P \cup {n}) = Cardinality(P) + 1
    <2>1. n \notin P
      OBVIOUS
    <2>. QED
      BY <1>2, <2>1, FS_AddElement
  <1>4. P \cup {n} \in SUBSET (S \cup {n})
    OBVIOUS
  <1>5. TTL0[m] \in Nat /\ ttl \in Nat
    BY Constants, GossipAssumption DEF Byte
  <1>6. Cardinality(P \cup {n}) + ttl = TTL0[m] + 1
    BY <1>1, <1>2, <1>3, <1>5
  <1>. QED
    BY <1>4, <1>6 DEF Spent

\* Counting down uses the hop that was paid for.
LEMMA SpentNext ==
  ASSUME NEW m \in Msg, NEW S \in SUBSET Node, IsFiniteSet(Node), NEW ttl \in Byte,
         ttl # 0, Spent(m, ttl, S, 1)
  PROVE  Spent(m, ttl - 1, S, 0)
  <1>1. PICK P \in SUBSET S : Cardinality(P) + ttl = TTL0[m] + 1
    BY DEF Spent
  <1>2. Cardinality(P) \in Nat
    <2>1. P \subseteq Node
      OBVIOUS
    <2>. QED
      BY <2>1, FS_Subset, FS_CardinalityType
  <1>3. TTL0[m] \in Nat /\ ttl \in Nat
    BY Constants, GossipAssumption DEF Byte
  <1>4. Cardinality(P) + (ttl - 1) = TTL0[m] + 0
    <2>. DEFINE c == Cardinality(P)
                b == TTL0[m]
    <2>1. c \in Nat /\ b \in Nat /\ ttl \in Nat /\ c + ttl = b + 1
      BY <1>1, <1>2, <1>3
    <2>. HIDE DEF c, b
    <2>2. c + (ttl - 1) = b + 0
      BY <2>1
    <2>. QED
      BY <2>2 DEF c, b
  <1>. SUFFICES \E Q \in SUBSET S : Cardinality(Q) + (ttl - 1) = TTL0[m] + 0
    BY Zenon DEF Spent
  <1>. WITNESS P \in SUBSET S
  <1>. QED
    BY <1>4

\* A copy with a last hop left has been at all nodes.
LEMMA SpentAll ==
  ASSUME NEW m \in Msg, NEW S \in SUBSET Node, IsFiniteSet(Node), Sufficient(m),
         Spent(m, 1, S, 1)
  PROVE  S = Node
  <1>1. PICK P \in SUBSET S : Cardinality(P) + 1 = TTL0[m] + 1
    BY DEF Spent
  <1>2. P \subseteq Node
    OBVIOUS
  <1>3. /\ Cardinality(P) \in Nat /\ Cardinality(Node) \in Nat
        /\ Cardinality(P) = Cardinality(Node) => P = Node
        /\ Cardinality(P) <= Cardinality(Node)
    BY <1>2, FS_Subset, FS_CardinalityType
  <1>4. TTL0[m] \in Nat /\ Cardinality(Node) <= TTL0[m]
    BY Constants, GossipAssumption DEF Sufficient
  <1>5. Cardinality(P) = Cardinality(Node)
    BY <1>1, <1>3, <1>4
  <1>. QED
    BY <1>3, <1>5
-----------------------------------------------------------------------------
(* What the loop over the neighbours leaves out.                           *)

\* From position i on, every neighbour is passed over or still to come.
LEMMA LoopCovers ==
  ASSUME NEW t \in Task, NEW i \in Nat, i >= 1, NEW j \in i..Len(Nextloop[t.node]),
         IsTarget(t, j)
  PROVE  \E x \in Loop(t, i) : x.node = t.node /\ x.msg = t.msg /\ x.stage = "send" /\ x.next <= j
  <1>1. Nextloop[t.node] \in Seq(Node)
    BY GossipAssumption DEF Task
  <1>. DEFINE S == {l \in i..Len(Nextloop[t.node]) : IsTarget(t, l)}
  <1>2. S \in SUBSET Nat /\ j \in S
    BY <1>1
  <1>3. PICK k \in S : \A l \in S : k <= l
    <2>. HIDE DEF S
    <2>. QED
      BY <1>2, LeastNat
  <1>4. k \in i..Len(Nextloop[t.node]) /\ k \in Nat /\ k <= j /\ IsTarget(t, k)
    BY <1>1, <1>2, <1>3
  <1>5. \A l \in i..(k - 1) : ~IsTarget(t, l)
    BY <1>1, <1>3, <1>4
  <1>. DEFINE x == [t EXCEPT !.stage = "send", !.next = k]
  <1>6. x \in Loop(t, i)
    BY <1>4, <1>5 DEF Loop
  <1>7. x.node = t.node /\ x.msg = t.msg /\ x.stage = "send" /\ x.next = k
    BY DEF Task
  <1>. QED
    BY <1>4, <1>6, <1>7

\* A neighbour that is passed over is the one the message came from, and has
\* it marked.
LEMMA PassedOver ==
  ASSUME Network, NEW t \in Task, FromMarked(t), NEW i \in 1..Len(Nextloop[t.node]),
         ~IsTarget(t, i)
  PROVE  Nextloop[t.node][i] \in Marked(t.msg)
  <1>. DEFINE v == Nextloop[t.node][i]
  <1>1. t.node \in Node /\ v \in Neighbours(t.node) /\ Auth[t.node][v] = t.key
    BY DEF Task, Neighbours, IsTarget
  <1>. HIDE DEF v
  <1>2. t.key \notin Client \cup {Skip}
    BY <1>1 DEF Network, TokensTell
  <1>3. PICK w \in Marked(t.msg) : t.node \in Neighbours(w) /\ t.key = Auth[w][t.node]
    BY <1>2 DEF FromMarked
  <1>4. w \in Node
    BY <1>3 DEF Marked
  <1>5. w = v
    BY <1>1, <1>3, <1>4 DEF Network, TokensTell
  <1>. QED
    BY <1>3, <1>5 DEF v

\* What Nextmsg sends on from a node that has the message marked has paid for
\* its hops.
LEMMA NextmsgTravelled ==
  ASSUME Network, NEW n \in Node, NEW m \in Msg, NEW ttl \in Byte, NEW k \in Key,
         NEW x \in Nextmsg(n, m, ttl, k), ttl # 0, n \in Marked(m), Spent(m, ttl, Marked(m), 1),
         \/ k \in Client \cup {Skip}
         \/ \E w \in Marked(m) : n \in Neighbours(w) /\ k = Auth[w][n]
  PROVE  Travelled(x)
  <1>. DEFINE r == Received(n, m, NextByte(ttl), k)
  <1>1. NextByte(ttl) # 0 /\ x \in Loop(r, 1)
    BY DEF Nextmsg
  <1>2. NextByte(ttl) \in Byte /\ NextByte(ttl) \in 1..250 /\ NextByte(ttl) = ttl - 1
    BY <1>1, NextByteLess
  <1>3. r \in Task /\ r.node = n /\ r.msg = m /\ r.ttl = NextByte(ttl) /\ r.key = k
    BY <1>2 DEF Received, Task
  <1>. HIDE DEF r
  <1>4. /\ x.stage = "send" /\ x.node = n /\ x.msg = m /\ x.ttl = ttl - 1 /\ x.key = k
    BY <1>1, <1>2, <1>3, LoopTasks
  <1>5. Spent(m, ttl - 1, Marked(m), 0)
    <2>1. Marked(m) \in SUBSET Node /\ IsFiniteSet(Node)
      BY DEF Marked, Network
    <2>. QED
      BY <2>1, SpentNext
  <1>6. TTLOK(x.ttl)
    BY <1>2, <1>4 DEF TTLOK
  <1>7. FromMarked(x)
    BY <1>4 DEF FromMarked
  <1>. QED
    BY <1>4, <1>5, <1>6, <1>7 DEF Travelled

\* And it covers every neighbour that has not the message marked, unless all
\* nodes have.
LEMMA NextmsgCovers ==
  ASSUME Network, NEW n \in Node, NEW m \in Msg, NEW ttl \in Byte, NEW k \in Key,
         TTLOK(ttl), Sufficient(m), Spent(m, ttl, Marked(m), 1),
         \/ k \in Client \cup {Skip}
         \/ \E w \in Marked(m) : n \in Neighbours(w) /\ k = Auth[w][n],
         NEW i \in 1..Len(Nextloop[n])
  PROVE  \/ Nextloop[n][i] \in Marked(m) \/ Marked(m) = Node
         \/ \E x \in Nextmsg(n, m, ttl, k) :
              x.node = n /\ x.msg = m /\ x.stage = "send" /\ x.next <= i
  <1>0. Marked(m) \in SUBSET Node /\ IsFiniteSet(Node)
    BY DEF Marked, Network
  <1>1. CASE NextByte(ttl) = 0
    <2>1. ttl = 1
      BY <1>1 DEF NextByte, TTLOK, Byte
    <2>. QED
      BY <1>0, <2>1, SpentAll
  <1>2. CASE NextByte(ttl) # 0
    <2>. DEFINE r == Received(n, m, NextByte(ttl), k)
    <2>1. r \in Task /\ r.node = n /\ r.msg = m /\ r.key = k
      BY <1>2, NextByteLess DEF Received, Task
    <2>2. Nextmsg(n, m, ttl, k) = Loop(r, 1)
      BY <1>2 DEF Nextmsg
    <2>. HIDE DEF r
    <2>3. CASE IsTarget(r, i)
      BY <2>1, <2>2, <2>3, LoopCovers
    <2>4. CASE ~IsTarget(r, i)
      <3>1. FromMarked(r)
        BY <2>1 DEF FromMarked
      <3>. QED
        BY <2>1, <2>4, <3>1, PassedOver
    <2>. QED
      BY <2>3, <2>4
  <1>. QED
    BY <1>1, <1>2
-----------------------------------------------------------------------------
(* What no step takes away.                                                *)

\* While nothing is forgotten, what was paid stays paid.
LEMMA TravelsOn ==
  ASSUME NEW t, Travelled(t), Marked(t.msg) \subseteq Marked(t.msg)'
  PROVE  Travelled(t)'
  <1>1. Marked(t.msg) \ {t.node} \subseteq Marked(t.msg)' \ {t.node}
    OBVIOUS
  <1>2. FromMarked(t)'
    BY DEF Travelled, FromMarked
  <1>3. t.stage = "mark" => Spent(t.msg, t.ttl, Marked(t.msg)' \ {t.node}, 0)
    BY <1>1, SpentMonotone DEF Travelled
  <1>4. t.stage \in {"check", "send"} => Spent(t.msg, t.ttl, Marked(t.msg)', 0)
    BY SpentMonotone DEF Travelled
  <1>5. t.stage = "store" => Spent(t.msg, t.ttl, Marked(t.msg)', 1)
    BY SpentMonotone DEF Travelled
  <1>. QED
    BY <1>2, <1>3, <1>4, <1>5 DEF Travelled, Spent

LEMMA StoredOn ==
  ASSUME NEW n, NEW m, Stored(n, m), disk'[n][m] = disk[n][m], Marked(m) \subseteq Marked(m)'
  PROVE  Stored(n, m)'
  <1>1. disk[n][m] # 0 => Spent(m, disk[n][m], Marked(m)', 1)
    BY SpentMonotone DEF Stored
  <1>. QED
    BY <1>1 DEF Stored, Spent

\* Files and marks as they were, and every task of message m that was there:
\* then it remains to show that the new tasks have travelled.
LEMMA FlowsOn ==
  ASSUME NEW m, Flowing(m), Marked(m)' = Marked(m), \A n \in Node : disk'[n][m] = disk[n][m],
         \A t \in BagToSet(tasks) : t.msg = m => t \in BagToSet(tasks'),
         \A x \in BagToSet(tasks') : x.msg = m => x \in BagToSet(tasks) \/ Travelled(x)'
  PROVE  Flowing(m)'
  <1>1. \A t \in BagToSet(tasks') : t.msg = m => Travelled(t)'
    BY TravelsOn DEF Flowing
  <1>2. \A n \in Node : Stored(n, m)'
    BY StoredOn DEF Flowing
  <1>3. \A n \in Node : Kept(n, m)'
    BY DEF Flowing, Kept
  <1>4. ASSUME NEW u \in Node, NEW i \in 1..Len(Nextloop[u])
        PROVE  Owed(u, m, i)'
    <2>1. Owed(u, m, i)
      BY DEF Flowing
    <2>2. Arriving(Nextloop[u][i], m) => Arriving(Nextloop[u][i], m)'
      BY DEF Arriving
    <2>3. ToSend(u, m, i) => ToSend(u, m, i)'
      BY DEF ToSend
    <2>. QED
      BY <2>1, <2>2, <2>3 DEF Owed
  <1>. QED
    BY <1>1, <1>2, <1>3, <1>4 DEF Flowing

\* The same when task t is replaced by the tasks of new: what hung on t is to
\* be shown to hang on something else.
LEMMA FlowsBy ==
  ASSUME NEW m, Flowing(m), IsABag(tasks), NEW t, NEW new, Become(t, new),
         Marked(m) \subseteq Marked(m)',
         \A x \in new : x.msg = m => Travelled(x)',
         \A n \in Node : n # t.node => disk'[n][m] = disk[n][m] /\ (n \in Marked(m)' => n \in Marked(m)),
         Stored(t.node, m)', Kept(t.node, m)',
         \A i \in 1..Len(Nextloop[t.node]) : Owed(t.node, m, i)',
         t.stage \in {"check", "mark"} => t.node \in Marked(m)' \/ Arriving(t.node, m)'
  PROVE  Flowing(m)'
  <1>0. /\ BagToSet(tasks') \subseteq BagToSet(tasks) \cup new
        /\ (BagToSet(tasks) \ {t}) \cup new \subseteq BagToSet(tasks')
    BY Became, BecameKeeps
  <1>1. \A x \in BagToSet(tasks') : x.msg = m => Travelled(x)'
    BY <1>0, TravelsOn DEF Flowing
  <1>2. \A n \in Node : Stored(n, m)'
    BY StoredOn DEF Flowing
  <1>3. ASSUME NEW n \in Node, n # t.node
        PROVE  Kept(n, m)'
    BY <1>0, <1>3 DEF Flowing, Kept
  <1>4. ASSUME NEW u \in Node, u # t.node, NEW i \in 1..Len(Nextloop[u])
        PROVE  Owed(u, m, i)'
    <2>. DEFINE v == Nextloop[u][i]
    <2>1. Owed(u, m, i) /\ disk'[u][m] = disk[u][m]
      BY <1>4 DEF Flowing
    <2>2. Arriving(v, m) => v \in Marked(m)' \/ Arriving(v, m)'
      <3>. SUFFICES ASSUME Arriving(v, m) PROVE v \in Marked(m)' \/ Arriving(v, m)'
        OBVIOUS
      <3>1. PICK x \in BagToSet(tasks) : x.node = v /\ x.msg = m /\ x.stage \in {"check", "mark"}
        BY DEF Arriving
      <3>2. CASE x = t
        BY <3>1, <3>2
      <3>3. CASE x # t
        BY <1>0, <3>1, <3>3 DEF Arriving
      <3>. QED
        BY <3>2, <3>3
    <2>3. ToSend(u, m, i) => ToSend(u, m, i)'
      BY <1>0, <1>4 DEF ToSend
    <2>4. Marked(m) = Node => Marked(m)' = Node
      BY DEF Marked
    <2>. HIDE DEF v
    <2>. QED
      BY <2>1, <2>2, <2>3, <2>4 DEF Owed, v
  <1>. QED
    BY <1>1, <1>2, <1>3, <1>4 DEF Flowing
-----------------------------------------------------------------------------
(* The steps of an undisturbed network.                                    *)

Calm(m) ==
  /\ GInv /\ Network /\ old = {}
  /\ m \in Msg \ Private /\ Sufficient(m) /\ Flowing(m)

LEMMA PostFlows ==
  ASSUME NEW m, Calm(m), NEW p \in Msg, NEW k \in Client, Post(p, k)
  PROVE  Flowing(m)'
  <1>. DEFINE r == Received(Author[p], p, TTL0[p], k)
  <1>1. IsABag(tasks) /\ tasks' = tasks (+) SetToBag({r})
    BY DEF Calm, GInv, TypeOK, Post
  <1>2. /\ BagToSet(tasks') \subseteq BagToSet(tasks) \cup {r}
        /\ BagToSet(tasks) \cup {r} \subseteq BagToSet(tasks')
    <2>. HIDE DEF r
    <2>. QED
      BY <1>1, Added, AddedKeeps
  <1>3. Marked(m)' = Marked(m) /\ disk' = disk
    BY DEF Post, Marked
  <1>4. r.msg = m => Travelled(r)
    <2>. SUFFICES ASSUME p = m PROVE Travelled(r)
      BY DEF Received
    <2>1. /\ r.stage = "check" /\ r.msg = m /\ r.ttl = TTL0[m] /\ r.key = k
      BY DEF Received
    <2>2. TTLOK(r.ttl) /\ FromMarked(r)
      BY <2>1 DEF Calm, Sufficient, FromMarked
    <2>3. Spent(m, TTL0[m], Marked(m), 0)
      BY SpentNone DEF Calm
    <2>. QED
      BY <2>1, <2>2, <2>3 DEF Travelled
  <1>5. r.msg = m => Travelled(r)'
    BY <1>3, <1>4, TravelsOn
  <1>. HIDE DEF r
  <1>. QED
    BY <1>2, <1>3, <1>5, FlowsOn DEF Calm

LEMMA ResendFlows ==
  ASSUME NEW m, Calm(m), NEW n \in Node, NEW p \in Msg, Resend(n, p)
  PROVE  Flowing(m)'
  <1>. DEFINE new == Nextmsg(n, p, disk[n][p], Skip)
  <1>1. IsABag(tasks) /\ tasks' = tasks (+) SetToBag(new)
    BY DEF Calm, GInv, TypeOK, Resend
  <1>2. /\ BagToSet(tasks') \subseteq BagToSet(tasks) \cup new
        /\ BagToSet(tasks) \cup new \subseteq BagToSet(tasks')
    <2>. HIDE DEF new
    <2>. QED
      BY <1>1, Added, AddedKeeps
  <1>3. Marked(m)' = Marked(m) /\ disk' = disk
    BY DEF Resend, Marked
  <1>4. disk[n][p] \in Byte /\ disk[n][p] # 0 /\ Skip \in Key
    BY GossipAssumption DEF Calm, GInv, TypeOK, Resend
  <1>5. ASSUME NEW x \in new, x.msg = m
        PROVE  Travelled(x)'
    <2>. DEFINE r == Received(n, p, NextByte(disk[n][p]), Skip)
    <2>1. x \in Loop(r, 1) /\ NextByte(disk[n][p]) # 0
      BY DEF Nextmsg
    <2>2. r \in Task /\ r.msg = p
      BY <1>4, <2>1, NextByteLess DEF Received, Task
    <2>3. p = m
      <3>. HIDE DEF r
      <3>. QED
        BY <1>5, <2>1, <2>2, LoopTasks
    <2>4. n \in Marked(m) /\ Spent(m, disk[n][m], Marked(m), 1)
      BY <1>4, <2>3 DEF Calm, Flowing, Stored
    <2>5. Travelled(x)
      BY <1>4, <2>3, <2>4, NextmsgTravelled DEF Calm
    <2>. QED
      BY <1>3, <1>5, <2>5, TravelsOn
  <1>. HIDE DEF new
  <1>. QED
    BY <1>2, <1>3, <1>5, FlowsOn DEF Calm

\* A step of a task of another message.
LEMMA OtherFlows ==
  ASSUME NEW m, Calm(m), NEW t \in BagToSet(tasks), t.msg # m, NEW new, Become(t, new),
         \A x \in new : x.msg = t.msg,
         Marked(m)' = Marked(m), \A n \in Node : disk'[n][m] = disk[n][m]
  PROVE  Flowing(m)'
  <1>1. IsABag(tasks)
    BY DEF Calm, GInv, TypeOK
  <1>2. /\ BagToSet(tasks') \subseteq BagToSet(tasks) \cup new
        /\ (BagToSet(tasks) \ {t}) \cup new \subseteq BagToSet(tasks')
    BY <1>1, Became, BecameKeeps
  <1>. QED
    BY <1>2, FlowsOn DEF Calm

\* A task is at a node and about a message.
LEMMA TaskParts ==
  ASSUME GInv, NEW t \in BagToSet(tasks)
  PROVE  /\ t \in Task /\ t.node \in Node /\ t.msg \in Msg /\ t.ttl \in Byte /\ t.key \in Key
         /\ t.next \in Nat /\ IsABag(tasks)
         /\ t.stage = "send" => t.next \in 1..Len(Nextloop[t.node])
  BY DEF GInv, TypeOK, Task

\* A copy that is let in has not been at this node; one that is not ends where
\* the message is marked.
LEMMA CheckFlows ==
  ASSUME NEW m, Calm(m), NEW t \in BagToSet(tasks), Check(t)
  PROVE  Flowing(m)'
  <1>. DEFINE x == [t EXCEPT !.stage = "mark"]
  <1>1. /\ t \in Task /\ t.node \in Node /\ IsABag(tasks) /\ t.stage = "check"
        /\ Marked(m)' = Marked(m) /\ disk' = disk
    BY TaskParts DEF Calm, Check, Marked
  <1>2. x.node = t.node /\ x.msg = t.msg /\ x.stage = "mark" /\ x.ttl = t.ttl /\ x.key = t.key
    BY <1>1 DEF Task
  <1>. DEFINE go == TTLOK(t.ttl) /\ t.msg \notin old /\ t.msg \notin seen[t.node]
              new == IF go THEN {x} ELSE {}
  <1>3. Become(t, new) /\ new \in {{}, {x}} /\ (new = {x} <=> go)
    <2>1. IF go THEN Become(t, {x}) ELSE Become(t, {})
      BY DEF Check, Ends
    <2>. HIDE DEF go, x
    <2>. QED
      BY <2>1
  <1>. HIDE DEF new
  <1>4. CASE t.msg # m
    <2>1. \A y \in new : y.msg = t.msg
      BY <1>2, <1>3
    <2>. HIDE DEF x
    <2>. QED
      BY <1>1, <1>3, <1>4, <2>1, OtherFlows
  <1>5. CASE t.msg = m
    <2>1. Travelled(t)
      BY <1>5 DEF Calm, Flowing
    <2>2. new = {} => t.node \in Marked(m)
      BY <1>1, <1>3, <1>5, <2>1 DEF Calm, Travelled, Marked
    <2>3. \A y \in new : Travelled(y)'
      <3>. SUFFICES ASSUME new = {x} PROVE Travelled(x)'
        BY <1>3
      <3>1. t.node \notin Marked(m)
        BY <1>3, <1>5 DEF Marked
      <3>2. Marked(m) \ {t.node} = Marked(m)
        BY <3>1
      <3>3. Spent(m, t.ttl, Marked(m) \ {t.node}, 0)
        BY <1>1, <1>5, <2>1, <3>2 DEF Travelled
      <3>4. FromMarked(x)
        BY <1>2, <2>1 DEF Travelled, FromMarked
      <3>. HIDE DEF x
      <3>5. Travelled(x)
        BY <1>2, <1>5, <2>1, <3>3, <3>4 DEF Travelled
      <3>. QED
        BY <1>1, <1>2, <1>5, <3>5, TravelsOn
    <2>4. /\ BagToSet(tasks') \subseteq BagToSet(tasks) \cup new
          /\ (BagToSet(tasks) \ {t}) \cup new \subseteq BagToSet(tasks')
      BY <1>1, <1>3, Became, BecameKeeps
    <2>5. t.node \in Marked(m)' \/ Arriving(t.node, m)'
      <3>1. CASE new = {}
        BY <1>1, <2>2, <3>1
      <3>2. CASE new = {x}
        BY <1>2, <1>5, <2>4, <3>2 DEF Arriving
      <3>. QED
        BY <1>3, <3>1, <3>2
    <2>. HIDE DEF x
    <2>6. Stored(t.node, m)' /\ Kept(t.node, m)'
      <3>1. Stored(t.node, m) /\ Kept(t.node, m)
        BY <1>1 DEF Calm, Flowing
      <3>. QED
        BY <1>1, <2>4, <3>1, StoredOn DEF Kept
    <2>7. ASSUME NEW i \in 1..Len(Nextloop[t.node])
          PROVE  Owed(t.node, m, i)'
      <3>. DEFINE v == Nextloop[t.node][i]
      <3>1. Owed(t.node, m, i)
        BY <1>1 DEF Calm, Flowing
      <3>2. Arriving(v, m) => v \in Marked(m)' \/ Arriving(v, m)'
        BY <2>4, <2>5 DEF Arriving
      <3>3. ToSend(t.node, m, i) => ToSend(t.node, m, i)'
        BY <1>1, <2>4 DEF ToSend
      <3>. HIDE DEF v
      <3>. QED
        BY <1>1, <3>1, <3>2, <3>3 DEF Owed, v
    <2>. QED
      BY <1>1, <1>3, <2>3, <2>5, <2>6, <2>7, FlowsBy DEF Calm
  <1>. QED
    BY <1>4, <1>5
\* The node is one more that the copy has been at.
LEMMA MarkFlows ==
  ASSUME NEW m, Calm(m), NEW t \in BagToSet(tasks), Mark(t)
  PROVE  Flowing(m)'
  <1>. DEFINE x == [t EXCEPT !.stage = "store"]
  <1>1. /\ t \in Task /\ t.node \in Node /\ t.ttl \in Byte /\ IsABag(tasks) /\ t.stage = "mark"
        /\ disk' = disk /\ Become(t, {x})
    BY TaskParts DEF Calm, Mark
  <1>2. x.node = t.node /\ x.msg = t.msg /\ x.stage = "store" /\ x.ttl = t.ttl /\ x.key = t.key
    BY <1>1 DEF Task
  <1>3. Marked(m)' = IF t.msg = m THEN Marked(m) \cup {t.node} ELSE Marked(m)
    BY <1>1 DEF Mark, Marked, Calm, GInv, TypeOK
  <1>. HIDE DEF x
  <1>4. CASE t.msg # m
    BY <1>1, <1>2, <1>3, <1>4, OtherFlows
  <1>5. CASE t.msg = m
    <2>1. Travelled(t) /\ m \in Msg /\ IsFiniteSet(Node) /\ Marked(m) \in SUBSET Node
      BY <1>5 DEF Calm, Flowing, Network, Marked
    <2>2. Spent(m, t.ttl, Marked(m) \ {t.node}, 0)
      BY <1>1, <1>5, <2>1 DEF Travelled
    <2>3. Spent(m, t.ttl, Marked(m)', 1)
      BY <1>1, <1>3, <1>5, <2>1, <2>2, SpentMark
    <2>4. FromMarked(x)'
      BY <1>2, <1>3, <1>5, <2>1 DEF Travelled, FromMarked
    <2>5. Travelled(x)'
      BY <1>2, <1>3, <1>5, <2>1, <2>3, <2>4 DEF Travelled, Spent
    <2>6. /\ BagToSet(tasks') \subseteq BagToSet(tasks) \cup {x}
          /\ (BagToSet(tasks) \ {t}) \cup {x} \subseteq BagToSet(tasks')
      BY <1>1, Became, BecameKeeps
    <2>7. Stored(t.node, m)' /\ Kept(t.node, m)'
      <3>1. Stored(t.node, m)
        BY <1>1 DEF Calm, Flowing
      <3>2. Kept(t.node, m)'
        BY <1>2, <1>5, <2>6 DEF Kept
      <3>. QED
        BY <1>1, <1>3, <3>1, <3>2, StoredOn
    <2>8. ASSUME NEW i \in 1..Len(Nextloop[t.node])
          PROVE  Owed(t.node, m, i)'
      <3>. DEFINE v == Nextloop[t.node][i]
      <3>1. Owed(t.node, m, i)
        BY <1>1 DEF Calm, Flowing
      <3>2. Arriving(v, m) => v \in Marked(m)' \/ Arriving(v, m)'
        BY <1>3, <1>5, <2>6 DEF Arriving
      <3>3. ToSend(t.node, m, i) => ToSend(t.node, m, i)'
        BY <1>1, <2>6 DEF ToSend
      <3>4. Marked(m) = Node => Marked(m)' = Node
        BY <1>1, <1>3
      <3>. HIDE DEF v
      <3>. QED
        BY <1>1, <1>3, <3>1, <3>2, <3>3, <3>4 DEF Owed, v
    <2>9. \A n \in Node : n # t.node => disk'[n][m] = disk[n][m] /\ (n \in Marked(m)' => n \in Marked(m))
      BY <1>1, <1>3
    <2>. QED
      BY <1>1, <1>3, <1>5, <2>5, <2>7, <2>8, <2>9, FlowsBy DEF Calm
  <1>. QED
    BY <1>4, <1>5

\* The node that stores the message sends it to all its neighbours that have
\* not marked it, or everybody has.
LEMMA StoreFlows ==
  ASSUME NEW m, Calm(m), NEW t \in BagToSet(tasks), Store(t)
  PROVE  Flowing(m)'
  <1>. DEFINE new == IF t.msg \in Private /\ t.key # Skip THEN {}
                     ELSE Nextmsg(t.node, t.msg, t.ttl, t.key)
  <1>1. /\ t \in Task /\ t.node \in Node /\ t.msg \in Msg /\ t.ttl \in Byte /\ t.key \in Key
        /\ IsABag(tasks) /\ t.stage = "store" /\ Marked(m)' = Marked(m)
    BY TaskParts DEF Calm, Store, Marked
  <1>2. Become(t, new)
    BY DEF Store, Ends
  <1>3. \A n \in Node : disk'[n][m] = IF n = t.node /\ t.msg = m THEN t.ttl ELSE disk[n][m]
    BY <1>1 DEF Store, Calm, GInv, TypeOK
  <1>4. \A x \in new : x.msg = t.msg
    <2>. SUFFICES ASSUME NEW x \in Nextmsg(t.node, t.msg, t.ttl, t.key) PROVE x.msg = t.msg
      OBVIOUS
    <2>. DEFINE r == Received(t.node, t.msg, NextByte(t.ttl), t.key)
    <2>1. x \in Loop(r, 1) /\ NextByte(t.ttl) # 0
      BY DEF Nextmsg
    <2>2. r \in Task /\ r.msg = t.msg
      BY <1>1, <2>1, NextByteLess DEF Received, Task
    <2>. HIDE DEF r
    <2>. QED
      BY <2>1, <2>2, LoopTasks
  <1>5. CASE t.msg # m
    <2>1. \A n \in Node : disk'[n][m] = disk[n][m]
      BY <1>3, <1>5
    <2>. HIDE DEF new
    <2>. QED
      BY <1>1, <1>2, <1>4, <1>5, <2>1, OtherFlows
  <1>6. CASE t.msg = m
    <2>1. Travelled(t) /\ Sufficient(m) /\ Network /\ new = Nextmsg(t.node, m, t.ttl, t.key)
      BY <1>6 DEF Calm, Flowing
    <2>2. /\ TTLOK(t.ttl) /\ t.node \in Marked(m) /\ Spent(m, t.ttl, Marked(m), 1)
          /\ \/ t.key \in Client \cup {Skip}
             \/ \E w \in Marked(m) : t.node \in Neighbours(w) /\ t.key = Auth[w][t.node]
      BY <1>1, <1>6, <2>1 DEF Travelled, FromMarked
    <2>. HIDE DEF new
    <2>3. ASSUME NEW x \in new
          PROVE  Travelled(x)'
      <3>1. Travelled(x)
        BY <1>1, <1>6, <2>1, <2>2, NextmsgTravelled DEF TTLOK
      <3>. QED
        BY <1>1, <1>4, <1>6, <3>1, TravelsOn
    <2>4. (BagToSet(tasks) \ {t}) \cup new \subseteq BagToSet(tasks')
      BY <1>1, <1>2, BecameKeeps
    <2>5. disk'[t.node][m] = t.ttl /\ t.ttl # 0
      BY <1>1, <1>3, <1>6, <2>2 DEF TTLOK
    <2>6. Stored(t.node, m)'
      BY <1>1, <2>2, <2>5 DEF Stored, Spent
    <2>7. Kept(t.node, m)'
      BY <2>5 DEF Kept
    <2>8. ASSUME NEW i \in 1..Len(Nextloop[t.node])
          PROVE  Owed(t.node, m, i)'
      <3>1. \/ Nextloop[t.node][i] \in Marked(m) \/ Marked(m) = Node
            \/ \E x \in new : x.node = t.node /\ x.msg = m /\ x.stage = "send" /\ x.next <= i
        BY <1>1, <1>6, <2>1, <2>2, NextmsgCovers
      <3>2. \/ Nextloop[t.node][i] \in Marked(m)' \/ Marked(m)' = Node \/ ToSend(t.node, m, i)'
        BY <1>1, <2>4, <3>1 DEF ToSend
      <3>. QED
        BY <3>2 DEF Owed
    <2>9. \A n \in Node : n # t.node => disk'[n][m] = disk[n][m] /\ (n \in Marked(m)' => n \in Marked(m))
      BY <1>1, <1>3
    <2>. QED
      BY <1>1, <1>2, <2>3, <2>6, <2>7, <2>8, <2>9, FlowsBy DEF Calm
  <1>. QED
    BY <1>5, <1>6
\* The neighbour gets a copy with the hops this one has left.
LEMMA SendFlows ==
  ASSUME NEW m, Calm(m), NEW t \in BagToSet(tasks), Send(t)
  PROVE  Flowing(m)'
  <1>. DEFINE w == Nextloop[t.node][t.next]
              r == Received(w, t.msg, t.ttl, Auth[t.node][w])
              new == Onward(t) \cup {r}
  <1>1. /\ t \in Task /\ t.node \in Node /\ t.msg \in Msg /\ t.next \in Nat /\ IsABag(tasks)
        /\ t.stage = "send" /\ t.next \in 1..Len(Nextloop[t.node])
        /\ Marked(m)' = Marked(m) /\ disk' = disk
    BY TaskParts DEF Calm, Send, Marked
  <1>2. Become(t, new)
    BY DEF Send
  <1>3. ASSUME NEW x \in Onward(t)
        PROVE  /\ x.stage = "send" /\ x.node = t.node /\ x.msg = t.msg /\ x.ttl = t.ttl
               /\ x.key = t.key
    BY <1>1, LoopTasks DEF Onward
  <1>4. r.stage = "check" /\ r.node = w /\ r.msg = t.msg /\ r.ttl = t.ttl /\ r.key = Auth[t.node][w]
    BY DEF Received
  <1>5. w \in Neighbours(t.node)
    BY <1>1 DEF Neighbours
  <1>. HIDE DEF r
  <1>6. \A x \in new : x.msg = t.msg
    BY <1>3, <1>4
  <1>7. CASE t.msg # m
    <2>. HIDE DEF new
    <2>. QED
      BY <1>1, <1>2, <1>6, <1>7, OtherFlows
  <1>8. CASE t.msg = m
    <2>1. Travelled(t)
      BY <1>8 DEF Calm, Flowing
    <2>2. ASSUME NEW x \in Onward(t)
          PROVE  Travelled(x)
      BY <1>1, <1>3, <2>1 DEF Travelled, FromMarked
    <2>3. Travelled(r)
      <3>1. t.node \in Marked(m) /\ Spent(m, t.ttl, Marked(m), 0) /\ TTLOK(t.ttl)
        BY <1>1, <1>8, <2>1 DEF Travelled
      <3>2. FromMarked(r)
        BY <1>4, <1>5, <1>8, <3>1 DEF FromMarked
      <3>. QED
        BY <1>4, <1>8, <3>1, <3>2 DEF Travelled
    <2>4. \A x \in new : Travelled(x)'
      BY <1>1, <1>6, <1>8, <2>2, <2>3, TravelsOn
    <2>5. (BagToSet(tasks) \ {t}) \cup new \subseteq BagToSet(tasks')
      <3>. HIDE DEF new
      <3>. QED
        BY <1>1, <1>2, BecameKeeps
    <2>6. Stored(t.node, m)' /\ Kept(t.node, m)'
      <3>1. Stored(t.node, m) /\ Kept(t.node, m)
        BY <1>1 DEF Calm, Flowing
      <3>. QED
        BY <1>1, <2>5, <3>1, StoredOn DEF Kept
    <2>7. ASSUME NEW i \in 1..Len(Nextloop[t.node])
          PROVE  Owed(t.node, m, i)'
      <3>. DEFINE v == Nextloop[t.node][i]
      <3>1. Owed(t.node, m, i)
        BY <1>1 DEF Calm, Flowing
      <3>2. Arriving(v, m) => Arriving(v, m)'
        BY <1>1, <2>5 DEF Arriving
      <3>3. ToSend(t.node, m, i) => ToSend(t.node, m, i)' \/ Arriving(v, m)' \/ v \in Marked(m)
        <4>. SUFFICES ASSUME ToSend(t.node, m, i)
                      PROVE  ToSend(t.node, m, i)' \/ Arriving(v, m)' \/ v \in Marked(m)
          OBVIOUS
        <4>1. PICK x \in BagToSet(tasks) : x.node = t.node /\ x.msg = m /\ x.stage = "send" /\ x.next <= i
          BY DEF ToSend
        <4>2. CASE x # t
          BY <2>5, <4>1, <4>2 DEF ToSend
        <4>3. CASE x = t /\ t.next = i
          <5>1. r \in BagToSet(tasks') /\ w = v
            BY <2>5, <4>3
          <5>. QED
            BY <1>4, <1>8, <5>1 DEF Arriving
        <4>4. CASE x = t /\ t.next # i
          <5>1. t.next + 1 \in Nat /\ t.next + 1 >= 1 /\ i \in (t.next + 1)..Len(Nextloop[t.node])
            BY <1>1, <4>1, <4>4
          <5>2. CASE IsTarget(t, i)
            <6>1. PICK y \in Onward(t) : y.node = t.node /\ y.msg = t.msg /\ y.stage = "send" /\ y.next <= i
              BY <1>1, <5>1, <5>2, LoopCovers DEF Onward
            <6>. QED
              BY <1>8, <2>5, <6>1 DEF ToSend
          <5>3. CASE ~IsTarget(t, i)
            <6>1. FromMarked(t) /\ Network
              BY <2>1 DEF Travelled, Calm
            <6>. QED
              BY <1>1, <1>8, <5>3, <6>1, PassedOver
          <5>. QED
            BY <5>2, <5>3
        <4>. QED
          BY <4>2, <4>3, <4>4
      <3>. HIDE DEF v
      <3>. QED
        BY <1>1, <3>1, <3>2, <3>3 DEF Owed, v
    <2>. HIDE DEF new
    <2>. QED
      BY <1>1, <1>2, <2>4, <2>6, <2>7, FlowsBy DEF Calm
  <1>. QED
    BY <1>7, <1>8

LEMMA DInit == Init => DInv
  <1>. SUFFICES ASSUME Init PROVE old = {} /\ \A m \in Msg \ Private : Flowing(m)
    BY DEF DInv
  <1>1. BagToSet(tasks) = {} /\ old = {}
    BY DEF Init, EmptyBag, SetToBag, BagToSet
  <1>2. \A m \in Msg, n \in Node : disk[n][m] = 0 /\ n \notin Marked(m)
    BY DEF Init, Marked
  <1>. QED
    BY <1>1, <1>2 DEF Flowing, Stored, Kept, Owed

LEMMA DNext ==
  ASSUME Network, GInv, DInv, [Next]_vars
  PROVE  DInv'
  <1>. SUFFICES ASSUME ~disturbed'
                PROVE  old' = {} /\ \A m \in Msg \ Private : Sufficient(m) => Flowing(m)'
    BY DEF DInv, Sufficient
  <1>3. ~disturbed /\ old = {} /\ old' = {}
    BY DEF Next, Work, Post, Resend, GrowOld, Check, Mark, Store, Drop, Send, Lose, Reset, Crash,
           vars, GInv, TypeOK, DInv
  <1>. SUFFICES ASSUME NEW m \in Msg \ Private, Sufficient(m) PROVE Flowing(m)'
    BY <1>3
  <1>1. CASE UNCHANGED vars
    <2>1. Flowing(m) /\ disk' = disk /\ seen' = seen /\ tasks' = tasks
      BY <1>1, <1>3 DEF vars, DInv
    <2>2. Marked(m)' = Marked(m)
      BY <2>1 DEF Marked
    <2>. QED
      BY <2>1, <2>2, FlowsOn
  <1>2. CASE Next
    <2>1. \/ \E p \in Msg, k \in Client : Post(p, k)
          \/ \E p \in Msg, n \in Node : Resend(n, p)
          \/ \E t \in BagToSet(tasks) : Check(t) \/ Mark(t) \/ Store(t) \/ Send(t)
      BY <1>2 DEF Next, Work, GrowOld, Drop, Lose, Reset, Crash
    <2>2. Calm(m)
      BY <1>3 DEF Calm, DInv
    <2>. QED
      BY <2>1, <2>2, PostFlows, ResendFlows, CheckFlows, MarkFlows, StoreFlows, SendFlows
  <1>. QED
    BY <1>1, <1>2

\* Nothing on its way means nothing owed: the nodes that have the message are
\* closed under links, or all.
LEMMA DInvDelivers == Network /\ GInv /\ DInv => Delivered
  <1>. SUFFICES ASSUME Network, GInv, DInv, ~disturbed, tasks = EmptyBag,
                       NEW m \in Msg \ Private, Sufficient(m), disk[Author[m]][m] # 0,
                       NEW n \in Node
                PROVE  disk[n][m] # 0
    BY DEF Delivered
  <1>1. BagToSet(tasks) = {} /\ Flowing(m)
    BY DEF DInv, EmptyBag, SetToBag, BagToSet
  <1>2. \A u \in Marked(m) : disk[u][m] # 0 /\ u \in Node
    BY <1>1 DEF Flowing, Kept, Marked
  <1>3. Author[m] \in Node /\ Marked(m) \in SUBSET Node
    BY Constants DEF Marked
  <1>4. Author[m] \in Marked(m)
    BY <1>1, <1>3 DEF Flowing, Stored
  <1>5. ASSUME Marked(m) # Node, NEW u \in Marked(m)
        PROVE  Neighbours(u) \subseteq Marked(m)
    <2>. SUFFICES ASSUME NEW i \in 1..Len(Nextloop[u]) PROVE Nextloop[u][i] \in Marked(m)
      BY DEF Neighbours
    <2>1. Owed(u, m, i) /\ disk[u][m] # 0
      BY <1>1, <1>2 DEF Flowing
    <2>. QED
      BY <1>1, <1>5, <2>1 DEF Owed, Arriving, ToSend
  <1>6. Marked(m) = Node
    BY <1>3, <1>4, <1>5 DEF Network, Connected
  <1>. QED
    BY <1>2, <1>6

\* In every finite connected network whose links have tokens of their own, what
\* the author of a public message stored is stored by all nodes once nothing
\* runs, if nothing was lost and the TTL is at least the number of nodes.
THEOREM UndisturbedDelivers == ASSUME Network PROVE Spec => []Delivered
  <1>1. Init => GInv /\ DInv
    BY GInit, DInit
  <1>2. (GInv /\ DInv) /\ [Next]_vars => (GInv /\ DInv)'
    BY GNext, DNext
  <1>3. GInv /\ DInv => Delivered
    BY DInvDelivers
  <1>. QED
    BY <1>1, <1>2, <1>3, PTL DEF Spec
\* A stored message stays stored.
LEMMA StaysStored ==
  ASSUME GInv, [Next]_vars, NEW n \in Node, NEW m \in Msg, disk[n][m] # 0
  PROVE  disk'[n][m] # 0
  <1>1. CASE disk' = disk
    BY <1>1
  <1>2. CASE \E t \in BagToSet(tasks) : Store(t)
    <2>1. PICK t \in BagToSet(tasks) : Store(t)
      BY <1>2
    <2>2. t.node \in Node /\ t.msg \in Msg /\ t.ttl # 0
      BY <2>1, TaskParts DEF GInv, GoodTasks, Good, Paid, TTLOK, Store
    <2>. QED
      BY <2>1, <2>2 DEF Store, GInv, TypeOK
  <1>3. disk' = disk \/ \E t \in BagToSet(tasks) : Store(t)
    BY DEF Next, Work, Post, Resend, GrowOld, Check, Mark, Drop, Send, Lose, Reset, Crash, vars
  <1>. QED
    BY <1>1, <1>2, <1>3

\* The liveness property needs nothing of the scheduler but that goroutines
\* end: with Stops, the network keeps its promise.
THEOREM StoppingReaches == ASSUME Network PROVE Spec /\ Stops => Reaches
  <1>1. ASSUME NEW m \in Msg \ Private, Sufficient(m)
        PROVE  Spec /\ Stops => (disk[Author[m]][m] # 0 ~> disturbed \/ \A n \in Node : disk[n][m] # 0)
    <2>. DEFINE P == disk[Author[m]][m] # 0
                Q == \A n \in Node : disk[n][m] # 0
                E == tasks = EmptyBag
    <2>1. Delivered /\ E /\ P => disturbed \/ Q
      BY <1>1 DEF Delivered
    <2>2. GInv /\ [Next]_vars /\ P => P'
      <3>1. Author[m] \in Node /\ m \in Msg
        BY GossipAssumption
      <3>. QED
        BY <3>1, StaysStored
    <2>. HIDE DEF P, Q, E
    <2>3. Spec /\ <>[]E => (P ~> disturbed \/ Q)
      BY <2>1, <2>2, GAlways, UndisturbedDelivers, PTL DEF Spec
    <2>. QED
      BY <2>3 DEF P, Q, E, Stops
  <1>. QED
    BY <1>1 DEF Reaches
=============================================================================
