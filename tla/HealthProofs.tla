---------------------------- MODULE HealthProofs ----------------------------
(***************************************************************************)
(* Proofs about Health for any number of neighbours, senders, requests at  *)
(* a time and checks that overlap, any waiting times and any behaviour of  *)
(* the neighbours.                                                         *)
(*                                                                         *)
(* Both invariants are inductive with the types.  DeadIsQueued rests on    *)
(* the order of the writes: the check clears "alive" before it lists the   *)
(* node, recover_node takes the node off the list before it sets "alive",  *)
(* and Append makes a state before it sets it alive.                       *)
(***************************************************************************)
EXTENDS Health, TLAPS

HInv == TypeOK /\ DeadIsQueued /\ MarkHasCheck

\* A fresh table is a table, and a table is not None.
LEMMA Tables ==
  /\ \A n \in Int, k \in 0..MaxFail : [wait |-> n, fails |-> k] \in Table
  /\ None \notin Table
  /\ FirstRounds \in Int /\ 0 \in 0..MaxFail
  /\ \A n \in 0..MaxFail : Rounds[n] \in Int
  <1>1. MaxFail \in Nat /\ FirstRounds \in Nat /\ Rounds \in [0..MaxFail -> Nat]
        /\ None \notin Table
    BY HealthAssumption
  <1>2. \A n \in Int, k \in 0..MaxFail : [wait |-> n, fails |-> k] \in Table
    BY DEF Table
  <1>. QED
    BY <1>1, <1>2

\* A failure keeps the marks of the checks and their types in order.
LEMMA BeginCheckOK ==
  ASSUME TypeOK, MarkHasCheck, NEW a \in Addr, BeginCheck(a)
  PROVE  /\ checking' \subseteq Addr /\ chain' \in [Addr -> [Slot -> Stage]]
         /\ MarkHasCheck'
         /\ \A b \in Addr, s \in Slot : chain[b][s] = "dead" => chain'[b][s] = "dead"
  <1>1. CASE UNCHANGED checks
    BY <1>1 DEF checks, TypeOK, MarkHasCheck
  <1>2. ASSUME NEW s \in Slot, chain[a][s] = "free",
               checking' = checking \cup {a},
               chain' = [chain EXCEPT ![a][s] = "first"]
        PROVE  /\ checking' \subseteq Addr /\ chain' \in [Addr -> [Slot -> Stage]]
               /\ MarkHasCheck'
               /\ \A b \in Addr, r \in Slot : chain[b][r] = "dead" => chain'[b][r] = "dead"
    <2>1. checking' \subseteq Addr /\ chain' \in [Addr -> [Slot -> Stage]]
      BY <1>2 DEF TypeOK, Stage
    <2>2. MarkHasCheck'
      BY <1>2 DEF TypeOK, MarkHasCheck
    <2>3. \A b \in Addr, r \in Slot : chain[b][r] = "dead" => chain'[b][r] = "dead"
      BY <1>2 DEF TypeOK
    <2>. QED
      BY <2>1, <2>2, <2>3
  <1>. QED
    BY <1>1, <1>2 DEF BeginCheck

\* So does the end of a check.
LEMMA EndCheckOK ==
  ASSUME TypeOK, MarkHasCheck, NEW a \in Addr, NEW s \in Slot, EndCheck(a, s)
  PROVE  /\ checking' \subseteq Addr /\ chain' \in [Addr -> [Slot -> Stage]]
         /\ MarkHasCheck'
         /\ \A b \in Addr, r \in Slot : b # a \/ r # s => chain'[b][r] = chain[b][r]
  <1>1. checking' \subseteq Addr /\ chain' \in [Addr -> [Slot -> Stage]]
    BY DEF TypeOK, EndCheck, Stage
  <1>2. \A b \in Addr, r \in Slot : b # a \/ r # s => chain'[b][r] = chain[b][r]
    BY DEF TypeOK, EndCheck
  <1>3. MarkHasCheck'
    BY DEF TypeOK, EndCheck, MarkHasCheck
  <1>. QED
    BY <1>1, <1>2, <1>3

-----------------------------------------------------------------------------
\* The three stages of a check.
LEMMA CheckStep ==
  ASSUME HInv, NEW a \in Addr, Check(a)
  PROVE  HInv'
  <1>. USE DEF HInv, asking
  <1>1. ASSUME NEW s \in Slot, FirstPing(a, s)
        PROVE  HInv'
    <2>1. CASE EndCheck(a, s)
      <3>1. TypeOK' /\ MarkHasCheck'
        BY <1>1, <2>1, EndCheckOK
        DEF FirstPing, TypeOK, lists, sending, sweeping, recovering
      <3>2. DeadIsQueued'
        <4>1. \A b \in Addr, r \in Slot : chain[b][r] = "dead" => chain'[b][r] = "dead"
          BY <1>1, <2>1, EndCheckOK DEF FirstPing
        <4>. QED
          BY <1>1, <4>1 DEF FirstPing, TypeOK, DeadIsQueued, lists, recovering
      <3>. QED
        BY <3>1, <3>2
    <2>2. CASE chain' = [chain EXCEPT ![a][s] = "second"] /\ checking' = checking
      <3>1. TypeOK'
        BY <1>1, <2>2 DEF FirstPing, TypeOK, lists, sending, sweeping, recovering, Stage
      <3>2. MarkHasCheck'
        <4>1. \A b \in Addr, r \in Slot : chain[b][r] # "free" => chain'[b][r] # "free"
          BY <2>2 DEF TypeOK
        <4>. QED
          BY <2>2, <4>1 DEF TypeOK, MarkHasCheck
      <3>3. DeadIsQueued'
        BY <1>1, <2>2 DEF FirstPing, TypeOK, DeadIsQueued, lists, recovering
      <3>. QED
        BY <3>1, <3>2, <3>3
    <2>. QED
      BY <1>1, <2>1, <2>2 DEF FirstPing
  <1>2. ASSUME NEW s \in Slot, SecondPing(a, s)
        PROVE  HInv'
    <2>1. CASE EndCheck(a, s) /\ alive' = alive
      <3>1. TypeOK' /\ MarkHasCheck'
        BY <1>2, <2>1, EndCheckOK DEF SecondPing, TypeOK, sending, sweeping, recovering
      <3>2. DeadIsQueued'
        <4>1. \A b \in Addr, r \in Slot : chain[b][r] = "dead" => chain'[b][r] = "dead"
          BY <1>2, <2>1, EndCheckOK DEF SecondPing
        <4>. QED
          BY <1>2, <2>1, <4>1 DEF SecondPing, TypeOK, DeadIsQueued, recovering
      <3>. QED
        BY <3>1, <3>2
    <2>2. CASE /\ chain' = [chain EXCEPT ![a][s] = "dead"] /\ checking' = checking
               /\ alive' = alive \ {a}
      <3>1. TypeOK'
        BY <1>2, <2>2 DEF SecondPing, TypeOK, sending, sweeping, recovering, Stage
      <3>2. MarkHasCheck'
        <4>1. \A b \in Addr, r \in Slot : chain[b][r] # "free" => chain'[b][r] # "free"
          BY <2>2 DEF TypeOK
        <4>. QED
          BY <2>2, <4>1 DEF TypeOK, MarkHasCheck
      <3>3. \A b \in Addr, r \in Slot : chain[b][r] = "dead" => chain'[b][r] = "dead"
        BY <2>2 DEF TypeOK
      <3>4. chain'[a][s] = "dead"
        BY <2>2 DEF TypeOK
      <3>5. DeadIsQueued'
        BY <1>2, <2>2, <3>3, <3>4 DEF SecondPing, TypeOK, DeadIsQueued, recovering
      <3>. QED
        BY <3>1, <3>2, <3>5
    <2>. QED
      BY <1>2, <2>1, <2>2 DEF SecondPing
  <1>3. ASSUME NEW s \in Slot, ListDead(a, s)
        PROVE  HInv'
    <2>1. dead' = [dead EXCEPT ![a] = [wait |-> FirstRounds, fails |-> 0]]
          /\ [wait |-> FirstRounds, fails |-> 0] \in Table
      BY <1>3, Tables DEF ListDead
    <2>2. TypeOK' /\ MarkHasCheck'
      BY <1>3, <2>1, EndCheckOK DEF ListDead, TypeOK, sending, sweeping, recovering
    <2>3. /\ dead'[a] # None
          /\ \A b \in Addr : b # a => dead'[b] = dead[b]
          /\ \A b \in Addr, r \in Slot : b # a => chain'[b][r] = chain[b][r]
      BY <1>3, <2>1, EndCheckOK, Tables DEF ListDead, TypeOK
    <2>4. reg' = reg /\ alive' = alive /\ fixing' = fixing /\ job' = job /\ wiped' = wiped
      BY <1>3 DEF ListDead, recovering
    <2>5. DeadIsQueued'
      <3>. SUFFICES ASSUME NEW b \in reg \ (alive \cup wiped), b # a
                    PROVE  \/ dead'[b] # None
                           \/ \E r \in Slot : chain'[b][r] = "dead"
                           \/ fixing = b
                           \/ \E q \in Request : job[q].at = "alive" /\ job[q].addr = b
        BY <2>3, <2>4 DEF DeadIsQueued
      <3>. QED
        BY <2>3 DEF TypeOK, DeadIsQueued
    <2>. QED
      BY <2>2, <2>5
  <1>. QED
    BY <1>1, <1>2, <1>3 DEF Check

\* The steps of the senders leave the lists alone.
LEMMA SendingStep ==
  ASSUME HInv, NEW s \in Sender, Sending(s)
  PROVE  HInv'
  <1>. USE DEF HInv, asking
  <1>1. ASSUME NEW a \in Addr, SendStart(s, a)
        PROVE  HInv'
    <2>1. TypeOK'
      BY <1>1 DEF SendStart, TypeOK, lists, sweeping, recovering, checks
    <2>. QED
      BY <1>1, <2>1 DEF SendStart, DeadIsQueued, MarkHasCheck, lists, recovering, checks
  <1>2. CASE SendOK(s)
    <2>1. TypeOK'
      BY <1>2 DEF SendOK, TypeOK, lists, sweeping, recovering, checks
    <2>. QED
      BY <1>2, <2>1 DEF SendOK, DeadIsQueued, MarkHasCheck, lists, recovering, checks
  <1>3. CASE SendFail(s)
    <2>1. busy[s] \in Addr
      BY <1>3 DEF SendFail, TypeOK
    <2>2. TypeOK'
      <3>1. checking' \subseteq Addr /\ chain' \in [Addr -> [Slot -> Stage]]
        BY <1>3, <2>1, BeginCheckOK DEF SendFail
      <3>2. black' \in [Addr -> 0..2] /\ cool' \subseteq reg
            /\ busy' \in [Sender -> Addr \cup {None}]
        BY <1>3, <2>1 DEF SendFail, TypeOK
      <3>. QED
        BY <1>3, <3>1, <3>2 DEF SendFail, TypeOK, lists, sweeping, recovering
    <2>3. MarkHasCheck'
      BY <1>3, <2>1, BeginCheckOK DEF SendFail
    <2>4. DeadIsQueued'
      BY <1>3, <2>1, BeginCheckOK DEF SendFail, TypeOK, DeadIsQueued, lists, recovering
    <2>. QED
      BY <2>2, <2>3, <2>4
  <1>. QED
    BY <1>1, <1>2, <1>3 DEF Sending

\* auto_chk makes neighbours alive and starts checks.
LEMMA SweepingStep ==
  ASSUME HInv, Sweeping
  PROVE  HInv'
  <1>. USE DEF HInv, asking
  <1>1. CASE AutoStart
    <2>1. {e[2] : e \in loop} \subseteq Addr
      BY DEF TypeOK, NextMsg
    <2>2. TypeOK'
      BY <1>1, <2>1 DEF AutoStart, TypeOK, sending, recovering, checks
    <2>. QED
      BY <1>1, <2>2 DEF AutoStart, DeadIsQueued, MarkHasCheck, recovering, checks
  <1>2. CASE SweepStart
    <2>1. TypeOK'
      BY <1>2 DEF SweepStart, TypeOK, lists, sending, recovering, checks
    <2>. QED
      BY <1>2, <2>1 DEF SweepStart, DeadIsQueued, MarkHasCheck, lists, recovering, checks
  <1>3. ASSUME NEW a \in Addr, SweepPing(a)
        PROVE  HInv'
    <2>1. CASE UNCHANGED checks
      <3>1. TypeOK'
        BY <1>3, <2>1 DEF SweepPing, TypeOK, lists, sending, recovering, checks
      <3>. QED
        BY <1>3, <2>1, <3>1
        DEF SweepPing, DeadIsQueued, MarkHasCheck, lists, recovering, checks
    <2>2. CASE BeginCheck(a)
      <3>1. TypeOK'
        BY <1>3, <2>2, BeginCheckOK DEF SweepPing, TypeOK, lists, sending, recovering
      <3>2. MarkHasCheck'
        BY <2>2, BeginCheckOK
      <3>3. DeadIsQueued'
        BY <1>3, <2>2, BeginCheckOK DEF SweepPing, TypeOK, DeadIsQueued, lists, recovering
      <3>. QED
        BY <3>1, <3>2, <3>3
    <2>. QED
      BY <1>3, <2>1, <2>2 DEF SweepPing
  <1>. QED
    BY <1>1, <1>2, <1>3 DEF Sweeping

\* recover_node replaces tables by tables and delists only what it revives.
LEMMA RecoveringStep ==
  ASSUME HInv, Recovering
  PROVE  HInv'
  <1>. USE DEF HInv, asking
  <1>0. \A a \in Addr : todo[a] # None => todo[a] \in Table
    BY DEF TypeOK
  <1>1. ASSUME NEW a \in Addr, NEW table \in Table, todo[a] # None, PutTable(a, table)
        PROVE  /\ dead' \in [Addr -> Table \cup {None}]
               /\ \A b \in Addr : dead[b] # None => dead'[b] # None
    BY <1>1, Tables DEF PutTable, TypeOK
  <1>2. CASE RecoverStart
    <2>1. TypeOK'
      BY <1>2 DEF RecoverStart, TypeOK, lists, sending, sweeping, checks
    <2>. QED
      BY <1>2, <2>1 DEF RecoverStart, DeadIsQueued, MarkHasCheck, lists, checks
  <1>3. ASSUME NEW a \in Addr, RecoverWait(a)
        PROVE  HInv'
    <2>1. [todo[a] EXCEPT !.wait = @ - 1] \in Table
      BY <1>0, <1>3 DEF RecoverWait, Table
    <2>2. TypeOK'
      BY <1>1, <1>3, <2>1 DEF RecoverWait, TypeOK, sending, sweeping, checks
    <2>3. DeadIsQueued' /\ MarkHasCheck'
      BY <1>1, <1>3, <2>1 DEF RecoverWait, TypeOK, DeadIsQueued, MarkHasCheck, checks
    <2>. QED
      BY <2>2, <2>3
  <1>4. ASSUME NEW a \in Addr, RecoverFail(a)
        PROVE  HInv'
    <2>. DEFINE n == IF todo[a].fails < MaxFail THEN todo[a].fails + 1 ELSE MaxFail
    <2>1. n \in 0..MaxFail
      <3>1. todo[a].fails \in 0..MaxFail
        BY <1>0, <1>4 DEF RecoverFail, Table
      <3>2. MaxFail \in Nat
        BY HealthAssumption
      <3>. QED
        BY <3>1, <3>2
    <2>2. [wait |-> Rounds[n], fails |-> n] \in Table
      BY <2>1, Tables
    <2>3. TypeOK'
      BY <1>1, <1>4, <2>2 DEF RecoverFail, TypeOK, sending, sweeping, checks
    <2>4. DeadIsQueued' /\ MarkHasCheck'
      BY <1>1, <1>4, <2>2 DEF RecoverFail, TypeOK, DeadIsQueued, MarkHasCheck, checks
    <2>. QED
      BY <2>3, <2>4
  <1>5. ASSUME NEW a \in Addr, Delist(a)
        PROVE  HInv'
    <2>1. TypeOK'
      BY <1>5 DEF Delist, TypeOK, sending, sweeping, checks
    <2>2. DeadIsQueued'
      <3>1. \A b \in Addr : b # a => dead'[b] = dead[b]
        BY <1>5 DEF Delist, TypeOK
      <3>2. fixing' = a /\ \A b \in Addr : fixing # b
        BY <1>5, HealthAssumption DEF Delist
      <3>. QED
        BY <1>5, <3>1, <3>2 DEF Delist, TypeOK, DeadIsQueued, checks
    <2>3. MarkHasCheck'
      BY <1>5 DEF Delist, MarkHasCheck, checks
    <2>. QED
      BY <2>1, <2>2, <2>3
  <1>6. CASE Revive
    <2>1. TypeOK'
      BY <1>6 DEF Revive, TypeOK, sending, sweeping, checks
    <2>2. DeadIsQueued'
      BY <1>6 DEF Revive, TypeOK, DeadIsQueued, checks
    <2>3. MarkHasCheck'
      BY <1>6 DEF Revive, MarkHasCheck, checks
    <2>. QED
      BY <2>1, <2>2, <2>3
  <1>. QED
    BY <1>2, <1>3, <1>4, <1>5, <1>6 DEF Recovering

\* What a request does to its own record keeps it a record of a request.
LEMMA Jobs ==
  ASSUME TypeOK, NEW q \in Request, NEW j \in Job,
         j.at # "idle" => j.token # None,
         j.at \notin {"idle", "state"} => j.addr # None,
         job' = [job EXCEPT ![q] = j]
  PROVE  /\ job' \in [Request -> Job]
         /\ \A r \in Request : /\ job'[r].at # "idle" => job'[r].token # None
                               /\ job'[r].at \notin {"idle", "state"} => job'[r].addr # None
         /\ \A r \in Request : r # q => job'[r] = job[r]
  BY DEF TypeOK

\* The steps of "neighbor set".
LEMMA AppendStep ==
  ASSUME HInv, NEW q \in Request,
         \/ \E t \in Token, a \in Addr : AppendBegin(q, t, a)
         \/ AppendWrite(q) \/ LoadOrStore(q) \/ SetAlive(q)
  PROVE  HInv'
  <1>. USE DEF HInv
  <1>0. job[q] \in Job /\ (job[q].at \notin {"idle", "state"} => job[q].addr \in Addr)
    BY DEF TypeOK, Job
  <1>1. ASSUME NEW t \in Token, NEW a \in Addr, AppendBegin(q, t, a)
        PROVE  HInv'
    <2>. DEFINE j == [at |-> "append", token |-> t, addr |-> a, copy |-> loop, left |-> {}]
    <2>1. j \in Job /\ j.addr # None /\ j.token # None
      BY HealthAssumption DEF TypeOK, Job
    <2>2. job' = [job EXCEPT ![q] = j]
      BY <1>1 DEF AppendBegin
    <2>. HIDE DEF j
    <2>3. TypeOK'
      BY <1>1, <2>1, <2>2, Jobs
      DEF AppendBegin, TypeOK, lists, sending, sweeping, recovering, checks
    <2>4. \A r \in Request : job[r].at = "alive" => job'[r] = job[r]
      BY <1>1, <2>1, <2>2, Jobs DEF AppendBegin
    <2>. QED
      BY <1>1, <2>3, <2>4
      DEF AppendBegin, DeadIsQueued, MarkHasCheck, lists, recovering, checks
  <1>2. CASE AppendWrite(q)
    <2>. DEFINE j == [job[q] EXCEPT !.at = "load", !.copy = {}]
    <2>1. j \in Job /\ j.addr = job[q].addr /\ job[q].addr # None /\ j.token # None
      BY <1>0, <1>2 DEF AppendWrite, TypeOK, Job
    <2>2. job' = [job EXCEPT ![q] = j]
      <3>1. job' = [job EXCEPT ![q].at = "load", ![q].copy = {}]
        BY <1>2, Zenon DEF AppendWrite
      <3>2. job \in [Request -> Job]
        BY DEF TypeOK
      <3>. QED
        BY <3>1, <3>2
    <2>. HIDE DEF j
    <2>3. loop' \subseteq NextMsg
      <3>1. job[q].copy \subseteq NextMsg /\ job[q].token \in Token \cup {None}
        BY <1>0 DEF Job
      <3>2. job[q].token # None
        BY <1>2 DEF AppendWrite, TypeOK
      <3>. QED
        BY <1>0, <1>2, <3>1, <3>2 DEF AppendWrite, NextMsg
    <2>4. TypeOK'
      BY <1>2, <2>1, <2>2, <2>3, Jobs
      DEF AppendWrite, TypeOK, lists, sending, sweeping, recovering, checks
    <2>5. \A r \in Request : job[r].at = "alive" => job'[r] = job[r]
      BY <1>2, <2>1, <2>2, Jobs DEF AppendWrite
    <2>6. UNCHANGED <<lists, recovering, checks, wiped>>
      BY <1>2 DEF AppendWrite
    <2>. QED
      BY <2>4, <2>5, <2>6 DEF DeadIsQueued, MarkHasCheck, lists, recovering, checks
  <1>3. CASE LoadOrStore(q)
    <2>. DEFINE j == [job[q] EXCEPT !.at = "alive"]
    <2>1. j \in Job /\ j.addr = job[q].addr /\ job[q].addr # None
          /\ j.token # None /\ j.at = "alive"
      BY <1>0, <1>3 DEF LoadOrStore, TypeOK, Job
    <2>2. job' = [job EXCEPT ![q] = j]
      BY <1>3 DEF LoadOrStore, TypeOK
    <2>. HIDE DEF j
    <2>3. TypeOK'
      BY <1>0, <1>3, <2>1, <2>2, Jobs
      DEF LoadOrStore, TypeOK, sending, sweeping, recovering, checks
    <2>4. \A r \in Request : job[r].at = "alive" => job'[r] = job[r]
      BY <1>3, <2>1, <2>2, Jobs DEF LoadOrStore
    <2>5. job'[q].at = "alive" /\ job'[q].addr = job[q].addr
      BY <2>1, <2>2 DEF TypeOK
    <2>. QED
      BY <1>3, <2>3, <2>4, <2>5 DEF LoadOrStore, DeadIsQueued, MarkHasCheck, recovering, checks
  <1>4. CASE SetAlive(q)
    <2>1. Idle \in Job /\ job' = [job EXCEPT ![q] = Idle]
      BY <1>4 DEF SetAlive, Idle, Job
    <2>2. TypeOK'
      BY <1>0, <1>4, <2>1, Jobs
      DEF SetAlive, TypeOK, Idle, sending, sweeping, recovering, checks
    <2>3. \A r \in Request : r # q => job'[r] = job[r]
      BY <2>1, Jobs DEF Idle
    <2>. QED
      BY <1>4, <2>2, <2>3 DEF SetAlive, DeadIsQueued, MarkHasCheck, recovering, checks
  <1>. QED
    BY <1>1, <1>2, <1>3, <1>4

\* The steps of "neighbor del".
LEMMA RemoveStep ==
  ASSUME HInv, NEW q \in Request,
         \/ \E t \in Token : RemoveBegin(q, t)
         \/ \E a \in Addr : RemoveState(q, a)
         \/ RemoveTable(q) \/ RemoveWrite(q)
  PROVE  HInv'
  <1>. USE DEF HInv
  <1>0. job[q] \in Job /\ (job[q].at \notin {"idle", "state"} => job[q].addr \in Addr)
    BY DEF TypeOK, Job
  <1>1. ASSUME NEW t \in Token, RemoveBegin(q, t)
        PROVE  HInv'
    <2>. DEFINE j == [at |-> "state", token |-> t, addr |-> None, copy |-> loop,
                      left |-> {e[2] : e \in {e \in loop : e[1] = t}}]
    <2>1. j \in Job /\ j.at = "state" /\ j.token # None
      <3>1. {e[2] : e \in {e \in loop : e[1] = t}} \subseteq Addr
        BY DEF TypeOK, NextMsg
      <3>. QED
        BY <3>1, HealthAssumption DEF TypeOK, Job
    <2>2. job' = [job EXCEPT ![q] = j]
      BY <1>1 DEF RemoveBegin
    <2>. HIDE DEF j
    <2>3. TypeOK'
      BY <1>1, <2>1, <2>2, Jobs
      DEF RemoveBegin, TypeOK, lists, sending, sweeping, recovering, checks
    <2>4. \A r \in Request : job[r].at = "alive" => job'[r] = job[r]
      BY <1>1, <2>1, <2>2, Jobs DEF RemoveBegin
    <2>. QED
      BY <1>1, <2>3, <2>4
      DEF RemoveBegin, DeadIsQueued, MarkHasCheck, lists, recovering, checks
  <1>2. ASSUME NEW a \in Addr, RemoveState(q, a)
        PROVE  HInv'
    <2>. DEFINE j == [job[q] EXCEPT !.at = "table", !.addr = a, !.left = @ \ {a}]
    <2>1. j \in Job /\ j.addr # None /\ j.token # None
      <3>1. job[q].left \ {a} \subseteq Addr
        BY <1>0 DEF Job
      <3>. QED
        BY <1>0, <1>2, <3>1, HealthAssumption DEF RemoveState, TypeOK, Job
    <2>2. job' = [job EXCEPT ![q] = j]
      <3>1. job' = [job EXCEPT ![q].at = "table", ![q].addr = a, ![q].left = @ \ {a}]
        BY <1>2, Zenon DEF RemoveState
      <3>2. job \in [Request -> Job]
        BY DEF TypeOK
      <3>. QED
        BY <3>1, <3>2
    <2>. HIDE DEF j
    <2>3. TypeOK'
      <3>1. /\ job' \in [Request -> Job]
            /\ \A r \in Request :
                 /\ job'[r].at # "idle" => job'[r].token # None
                 /\ job'[r].at \notin {"idle", "state"} => job'[r].addr # None
        BY <2>1, <2>2, Jobs
      <3>2. /\ reg' \subseteq Addr /\ alive' \subseteq reg' /\ cool' \subseteq reg'
            /\ black' \in [Addr -> 0..2]
        <4>1. /\ reg \subseteq Addr /\ alive \subseteq reg /\ cool \subseteq reg
              /\ black \in [Addr -> 0..2]
          BY DEF TypeOK
        <4>2. /\ reg' = reg \ {a} /\ alive' = alive \ {a} /\ cool' = cool \ {a}
              /\ black' = [black EXCEPT ![a] = 0]
          BY <1>2, Zenon DEF RemoveState
        <4>. QED
          BY <4>1, <4>2
      <3>3. UNCHANGED <<wiped, up, loop, dead, busy, sweeping, recovering, checks>>
        BY <1>2 DEF RemoveState
      <3>. QED
        BY <3>1, <3>2, <3>3 DEF TypeOK, sweeping, recovering, checks
    <2>4. \A r \in Request : job[r].at = "alive" => job'[r] = job[r]
      BY <1>2, <2>1, <2>2, Jobs DEF RemoveState
    <2>5. UNCHANGED <<wiped, dead, recovering, checks>> /\ reg' = reg \ {a} /\ alive' = alive \ {a}
      BY <1>2 DEF RemoveState
    <2>. QED
      BY <2>3, <2>4, <2>5 DEF DeadIsQueued, MarkHasCheck, recovering, checks
  <1>3. CASE RemoveTable(q)
    <2>. DEFINE j == [job[q] EXCEPT !.at = "state", !.addr = None]
    <2>1. j \in Job /\ j.at = "state" /\ j.token # None
      BY <1>0, <1>3 DEF RemoveTable, TypeOK, Job
    <2>2. job' = [job EXCEPT ![q] = j]
      BY <1>3 DEF RemoveTable, TypeOK
    <2>. HIDE DEF j
    <2>3. dead' \in [Addr -> Table \cup {None}]
          /\ \A b \in Addr : b # job[q].addr => dead'[b] = dead[b]
      BY <1>3 DEF RemoveTable, TypeOK
    <2>4. TypeOK'
      <3>1. /\ job' \in [Request -> Job]
            /\ \A r \in Request :
                 /\ job'[r].at # "idle" => job'[r].token # None
                 /\ job'[r].at \notin {"idle", "state"} => job'[r].addr # None
        BY <2>1, <2>2, Jobs
      <3>2. wiped' \subseteq Addr
        BY <1>3 DEF RemoveTable, TypeOK
      <3>. QED
        BY <1>3, <2>3, <3>1, <3>2
        DEF RemoveTable, TypeOK, sending, sweeping, recovering, checks
    <2>5. \A r \in Request : job[r].at = "alive" => job'[r] = job[r]
      BY <1>3, <2>1, <2>2, Jobs DEF RemoveTable
    <2>6. UNCHANGED <<reg, alive, recovering, checks>>
          /\ wiped' = wiped \cup ({job[q].addr} \cap (reg \ alive))
      BY <1>3 DEF RemoveTable
    <2>7. DeadIsQueued'
      <3>. SUFFICES ASSUME NEW b \in reg \ (alive \cup wiped), b # job[q].addr
                    PROVE  \/ dead'[b] # None
                           \/ \E s \in Slot : chain[b][s] = "dead"
                           \/ fixing = b
                           \/ \E r \in Request : job'[r].at = "alive" /\ job'[r].addr = b
        BY <2>6 DEF DeadIsQueued, recovering, checks
      <3>1. b \in Addr /\ dead'[b] = dead[b]
        BY <2>3 DEF TypeOK
      <3>. QED
        BY <2>5, <3>1 DEF DeadIsQueued
    <2>. QED
      BY <2>4, <2>6, <2>7 DEF MarkHasCheck, checks
  <1>4. CASE RemoveWrite(q)
    <2>1. Idle \in Job /\ job' = [job EXCEPT ![q] = Idle]
      BY <1>4 DEF RemoveWrite, Idle, Job
    <2>2. loop' \subseteq NextMsg
      BY <1>0, <1>4 DEF RemoveWrite, Job
    <2>3. TypeOK'
      BY <1>4, <2>1, <2>2, Jobs
      DEF RemoveWrite, TypeOK, Idle, lists, sending, sweeping, recovering, checks
    <2>4. \A r \in Request : job[r].at = "alive" => job'[r] = job[r]
      BY <1>4, <2>1, Jobs DEF RemoveWrite, Idle
    <2>. QED
      BY <1>4, <2>3, <2>4
      DEF RemoveWrite, DeadIsQueued, MarkHasCheck, lists, recovering, checks
  <1>. QED
    BY <1>1, <1>2, <1>3, <1>4

\* The neighbours, the clock and the neighbours that Nextmsg skips.
LEMMA OutsideStep ==
  ASSUME HInv, \/ \E a \in Addr : CoolDown(a) \/ Flip(a) \/ SkipDead(a)
               \/ UNCHANGED vars
  PROVE  HInv'
  <1>. USE DEF HInv, asking
  <1>1. CASE (\E a \in Addr : CoolDown(a) \/ Flip(a)) \/ UNCHANGED vars
    <2>1. TypeOK'
      BY <1>1 DEF CoolDown, Flip, vars, TypeOK, lists, sending, sweeping, recovering, checks
    <2>2. UNCHANGED <<lists, recovering, checks, asking>>
      BY <1>1 DEF CoolDown, Flip, vars
    <2>. QED
      BY <2>1, <2>2 DEF DeadIsQueued, MarkHasCheck, lists, recovering, checks
  <1>2. ASSUME NEW a \in Addr, SkipDead(a)
        PROVE  HInv'
    <2>1. TypeOK'
      BY <1>2 DEF SkipDead, TypeOK, lists, sweeping, recovering, checks
    <2>. QED
      BY <1>2, <2>1 DEF SkipDead, DeadIsQueued, MarkHasCheck, lists, recovering, checks
  <1>. QED
    BY <1>1, <1>2

-----------------------------------------------------------------------------
\* The inductive invariant.
THEOREM HealthInductive == Spec => []HInv
  <1>1. Init => HInv
    <2>. SUFFICES ASSUME Init
                  PROVE  HInv
      OBVIOUS
    <2>1. job \in [Request -> Job] /\ \A q \in Request : job[q].at = "idle"
      BY DEF Init, Idle, Job
    <2>2. loop \subseteq NextMsg
      BY HealthAssumption DEF Init
    <2>3. TypeOK
      BY <2>1, <2>2, HealthAssumption DEF Init, TypeOK, Stage
    <2>. QED
      BY <2>3 DEF Init, HInv, DeadIsQueued, MarkHasCheck
  <1>2. HInv /\ [Next]_vars => HInv'
    BY CheckStep, SendingStep, SweepingStep, RecoveringStep, AppendStep, RemoveStep,
       OutsideStep
    DEF Next, Beginning, Handling
  <1>. QED
    BY <1>1, <1>2, PTL DEF Spec

\* The tables of the health check keep their types.
THEOREM HealthTypes == Spec => []TypeOK
  BY HealthInductive, PTL DEF HInv

\* No neighbour that was declared dead is lost to recover_node, but for a
\* "neighbor del" that deletes late, however many requests are handled at once.
THEOREM DeadQueued == Spec => []DeadIsQueued
  BY HealthInductive, PTL DEF HInv

\* No mark outlives the checks of its address.
THEOREM MarksOwned == Spec => []MarkHasCheck
  BY HealthInductive, PTL DEF HInv
=============================================================================
