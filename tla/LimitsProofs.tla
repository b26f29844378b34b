---------------------------- MODULE LimitsProofs ----------------------------
(***************************************************************************)
(* Proofs about Limits for any number of goroutines, limiters and counters *)
(* and any times and limits.                                               *)
(*                                                                         *)
(* RateKept says nothing of what is still to be had, so it is not          *)
(* inductive.  RInv adds it: what is in the key's bucket, and in the one   *)
(* the cleaner may have deleted under its users, is not allowed yet.  That *)
(* there is never a second of these is because a limiter that has been     *)
(* idle for long has no debt and no such users beside it.  CInv counts the *)
(* goroutines whose message will not be counted in the present counter.    *)
(***************************************************************************)
EXTENDS Limits, FiniteSetTheorems, TLAPS

\* What the key's bucket holds; a new one is full.
Spare == IF limiterMap = Nil THEN Burst ELSE tokens[limiterMap]

\* w uses a limiter that is not the key's any more.
Orphaned(w) == work[w].limiter # Nil /\ work[w].limiter # limiterMap

\* Requests do not last longer than Delay, and hold a limiter while they use it.
OnTime ==
  \A w \in Worker :
    /\ work[w].pc # "idle" => work[w].at <= now /\ now <= work[w].at + Delay
    /\ work[w].limiter # Nil <=> work[w].pc \in {"touch", "allow"}

\* The key's limiter was used not long before w began, if w may use it next or
\* still has the one before.
UsedSince ==
  limiterMap # Nil =>
    \A w \in Worker : work[w].pc \in {"store", "allow"} \/ Orphaned(w) =>
      work[w].at <= lastUsed[limiterMap] + Delay

OneOrphan ==
  \A v, w \in Worker : Orphaned(v) /\ Orphaned(w) => work[v].limiter = work[w].limiter

\* What is allowed and what may be, with a deleted limiter in use and in general.
OrphanDebt ==
  \A w \in Worker : Orphaned(w) =>
    debt + Spare + tokens[work[w].limiter] <= 2 * Burst + Rate * (now - work[w].at)
AnyDebt == debt + Spare <= 2 * Burst + Rate * Delay

\* One bucket only: always without the race, and when the cleaner has found it.
Settled ==
  /\ ~raced \/ cleaner # Nil =>
       debt + Spare <= Burst /\ \A w \in Worker : ~Orphaned(w)
  /\ cleaner # Nil => limiterMap # Nil

\* A limiter unused for long has no debt.
PaidOff ==
  limiterMap # Nil =>
    \/ debt = 0
    \/ debt + Rate * (now - lastUsed[limiterMap]) <= 2 * Burst + 3 * (Rate * Delay)

RInv == /\ OnTime /\ UsedSince /\ OneOrphan /\ OrphanDebt /\ AnyDebt
        /\ Settled /\ PaidOff

\* Goroutines that count in an earlier counter.
Holding == {w \in Worker : work[w].pc \in {"add", "read"}}

\* Goroutines whose message is not counted in the present counter.
Uncounted == {w \in Worker : \/ work[w].pc \in {"first", "read"}
                             \/ work[w].pc = "add" /\ work[w].counter # counterMap}

CInv ==
  /\ \A w \in Worker : work[w].pc \in {"add", "read"} => work[w].counter \in Counter
  /\ IF counterMap = Nil THEN admitted + Cardinality(Holding) <= Cardinality(Worker)
     ELSE admitted + Cardinality(Uncounted)
            <= Least(num[counterMap], Limit) + 2 * Cardinality(Worker)

-----------------------------------------------------------------------------
(* Types.                                                                  *)

LEMMA Bounds ==
  /\ Burst \in Nat /\ Rate \in Nat /\ Delay \in Nat /\ Idle \in Nat /\ Limit \in Nat
  /\ Nil \notin Limiter /\ Nil \notin Counter /\ Nil \notin Worker
  BY LimitsAssumption

LEMMA Moved ==
  ASSUME NEW r \in Work, NEW s \in Stage, NEW l \in Limiter \cup {Nil},
         NEW c \in Counter \cup {Nil}, NEW t \in Nat
  PROVE  /\ [r EXCEPT !.pc = s] \in Work
         /\ [r EXCEPT !.pc = s, !.limiter = l] \in Work
         /\ [r EXCEPT !.pc = s, !.counter = c] \in Work
         /\ [Free EXCEPT !.pc = s, !.at = t, !.limiter = l] \in Work
  BY DEF Work, Free, Stage

LEMMA FreeIsWork == Free \in Work
  BY DEF Work, Free, Stage

LEMMA TypeInit == Init => TypeOK
  <1>. SUFFICES ASSUME Init PROVE TypeOK
    OBVIOUS
  <1>1. work \in [Worker -> Work]
    BY DEF Init, Work, Free, Stage
  <1>2. tokens \in [Limiter -> 0..Burst]
    BY Bounds DEF Init
  <1>. QED
    BY <1>1, <1>2 DEF Init, TypeOK

LEMMA TypeStep == TypeOK /\ [Next]_vars => TypeOK'
  <1>. SUFFICES ASSUME TypeOK, [Next]_vars PROVE TypeOK'
    OBVIOUS
  <1>1. CASE Tick
    BY <1>1, Bounds DEF TypeOK, Tick, countVars, Least, Most
  <1>2. CASE Look
    BY <1>2 DEF TypeOK, Look, countVars
  <1>3. CASE Delete
    BY <1>3 DEF TypeOK, Delete, countVars, Stale
  <1>4. CASE CleanLimit
    BY <1>4 DEF TypeOK, CleanLimit, rateVars
  <1>5. ASSUME NEW w \in Worker, Load(w) PROVE TypeOK'
    <2>1. (IF limiterMap = Nil THEN "store" ELSE "touch") \in Stage
      BY DEF Stage
    <2>2. work' \in [Worker -> Work]
      BY <1>5, <2>1, Moved DEF TypeOK, Load
    <2>. QED
      BY <1>5, <2>2 DEF TypeOK, Load, countVars, rateVars
  <1>6. ASSUME NEW w \in Worker, Touch(w) PROVE TypeOK'
    BY <1>6 DEF TypeOK, Touch, countVars, Work, Stage, Goes
  <1>7. ASSUME NEW w \in Worker, NEW l \in Limiter, LoadOrStore(w, l) PROVE TypeOK'
    <2>1. "allow" \in Stage
      BY DEF Stage
    <2>2. work' \in [Worker -> Work]
      BY <1>7, <2>1, Moved DEF TypeOK, LoadOrStore
    <2>3. /\ limiterMap' \in Limiter \cup {Nil} /\ tokens' \in [Limiter -> 0..Burst]
          /\ lastUsed' \in [Limiter -> Nat]
      BY <1>7, Bounds DEF TypeOK, LoadOrStore, Work
    <2>. QED
      BY <1>7, <2>2, <2>3 DEF TypeOK, LoadOrStore, countVars
  <1>8. ASSUME NEW w \in Worker, Allow(w) PROVE TypeOK'
    <2>1. tokens' \in [Limiter -> 0..Burst]
      <3>1. ASSUME work[w].limiter \in Limiter
            PROVE  tokens[work[w].limiter] - 1 \in 0..Burst
        BY <1>8, <3>1, Bounds DEF TypeOK, Allow
      <3>. QED
        BY <1>8, <3>1 DEF TypeOK, Allow
    <2>2. Nil \in Limiter \cup {Nil} /\ "count" \in Stage
      BY DEF Stage
    <2>3. work' \in [Worker -> Work]
      <3>1. work[w] \in Work
        BY DEF TypeOK
      <3>2. CASE work' = [work EXCEPT ![w] = Free]
        BY <3>2, FreeIsWork DEF TypeOK
      <3>3. CASE work' = [work EXCEPT ![w].pc = "count", ![w].limiter = Nil]
        BY <3>3, <2>2, Moved, <3>1 DEF TypeOK
      <3>. QED
        BY <1>8, <3>2, <3>3 DEF Allow, Ends
    <2>4. calls' = calls \/ calls' = calls + 1
      BY <1>8 DEF Allow
    <2>5. debt' \in Nat
      BY <1>8 DEF TypeOK, Allow
    <2>. QED
      BY <1>8, <2>1, <2>3, <2>4, <2>5 DEF TypeOK, Allow
  <1>9. ASSUME NEW w \in Worker, Deny(w) PROVE TypeOK'
    BY <1>9, FreeIsWork DEF TypeOK, Deny, countVars, rateVars, Ends
  <1>10. ASSUME NEW w \in Worker, LoadCounter(w) PROVE TypeOK'
    <2>1. (IF counterMap = Nil THEN "first" ELSE "add") \in Stage
      BY DEF Stage
    <2>2. work' \in [Worker -> Work]
      BY <1>10, <2>1, Moved DEF TypeOK, LoadCounter
    <2>. QED
      BY <1>10, <2>2 DEF TypeOK, LoadCounter, rateVars, countVars
  <1>11. ASSUME NEW w \in Worker, AddInt32(w) PROVE TypeOK'
    <2>1. work' \in [Worker -> Work]
      BY <1>11, FreeIsWork DEF TypeOK, AddInt32, Ends
    <2>2. admitted' \in Nat
      BY <1>11 DEF TypeOK, AddInt32, Admits
    <2>3. num' \in [Counter -> Nat]
      <3>1. work[w].counter \in Counter => num[work[w].counter] + 1 \in Nat
        BY DEF TypeOK
      <3>. QED
        BY <1>11, <3>1 DEF TypeOK, AddInt32
    <2>. QED
      BY <1>11, <2>1, <2>2, <2>3 DEF TypeOK, AddInt32, rateVars
  <1>12. ASSUME NEW w \in Worker, NEW c \in Counter, StoreCounter(w, c) PROVE TypeOK'
    <2>1. "read" \in Stage
      BY DEF Stage
    <2>2. work' \in [Worker -> Work]
      BY <1>12, <2>1, Moved DEF TypeOK, StoreCounter
    <2>. QED
      BY <1>12, <2>2 DEF TypeOK, StoreCounter, rateVars
  <1>13. ASSUME NEW w \in Worker, LoadInt32(w) PROVE TypeOK'
    <2>1. work' \in [Worker -> Work]
      BY <1>13, FreeIsWork DEF TypeOK, LoadInt32, Ends
    <2>2. admitted' \in Nat
      BY <1>13 DEF TypeOK, LoadInt32, Admits
    <2>. QED
      BY <1>13, <2>1, <2>2 DEF TypeOK, LoadInt32, rateVars
  <1>14. CASE UNCHANGED vars
    BY <1>14 DEF TypeOK, vars, rateVars, countVars
  <1>. QED
    BY <1>1, <1>2, <1>3, <1>4, <1>5, <1>6, <1>7, <1>8, <1>9, <1>10, <1>11, <1>12,
       <1>13, <1>14 DEF Next

\* Every limit and counter of every length of life keeps its type.
THEOREM TypeCorrect == Spec => []TypeOK
  BY TypeInit, TypeStep, PTL DEF Spec

-----------------------------------------------------------------------------
(* The limiters.                                                           *)

\* What Rate makes up for in a time.
LEMMA Product ==
  /\ Rate * Delay \in Nat /\ Rate * (2 * Delay) = 2 * (Rate * Delay)
  /\ \A a \in Int : Rate * a \in Int /\ Rate * (a + 1) = Rate * a + Rate
  /\ \A a \in Nat : Rate * a >= 0
  /\ \A a, b \in Int : a <= b => Rate * a <= Rate * b
  <1>. USE Bounds
  <1>1. \A a \in Int : Rate * a \in Int /\ Rate * (a + 1) = Rate * a + Rate
    OBVIOUS
  <1>2. \A a \in Nat : Rate * a >= 0
    OBVIOUS
  <1>3. ASSUME NEW a \in Int, NEW b \in Int, a <= b PROVE Rate * a <= Rate * b
    <2>1. Rate * (b - a) >= 0
      BY <1>2, <1>3
    <2>2. Rate * (b - a) = Rate * b - Rate * a
      OBVIOUS
    <2>. QED
      BY <1>1, <2>1, <2>2
  <1>. QED
    BY <1>1, <1>2, <1>3

\* The parts of a well-typed state the steps below need.
LEMMA Typed ==
  ASSUME TypeOK
  PROVE  /\ now \in Nat /\ debt \in Nat /\ Spare \in 0..Burst
         /\ limiterMap # Nil => lastUsed[limiterMap] \in Nat
         /\ \A w \in Worker : /\ work[w].at \in Nat
                              /\ work[w].limiter # Nil => tokens[work[w].limiter] \in 0..Burst
  BY Bounds DEF TypeOK, Spare, Work

LEMMA RateInit == Init => RInv
  <1>. SUFFICES ASSUME Init PROVE RInv
    OBVIOUS
  <1>1. \A w \in Worker : work[w] = Free
    BY DEF Init
  <1>2. Spare = Burst /\ debt = 0 /\ limiterMap = Nil /\ cleaner = Nil /\ raced = FALSE
    BY DEF Init, Spare
  <1>3. \A w \in Worker : ~Orphaned(w)
    BY <1>1 DEF Orphaned, Free
  <1>. QED
    BY <1>1, <1>2, <1>3, Bounds, Product
       DEF RInv, OnTime, UsedSince, OneOrphan, OrphanDebt, AnyDebt, Settled, PaidOff, Free

\* w holds no limiter when the step is done, and is as far as it was or has ended.
Leaves(w) ==
  /\ work'[w].limiter = Nil
  /\ work'[w].pc \notin {"touch", "store", "allow"}
  /\ \/ work'[w].pc = "idle"
     \/ work[w].pc # "idle" /\ work'[w].at = work[w].at

LEMMA RateLeave ==
  ASSUME TypeOK, RInv, UNCHANGED <<now, rateVars>>,
         \A w \in Worker : work'[w] = work[w] \/ Leaves(w)
  PROVE  RInv'
  <1>. USE DEF Leaves
  <1>1. \A w \in Worker : Orphaned(w)' => Orphaned(w) /\ work'[w] = work[w]
    BY DEF Orphaned, rateVars
  <1>2. Spare' = Spare
    BY DEF Spare, rateVars
  <1>3. OnTime' /\ UsedSince'
    BY <1>1 DEF RInv, OnTime, UsedSince, rateVars
  <1>4. OneOrphan' /\ OrphanDebt'
    BY <1>1, <1>2 DEF RInv, OneOrphan, OrphanDebt, rateVars
  <1>5. AnyDebt' /\ Settled' /\ PaidOff'
    BY <1>1, <1>2 DEF RInv, AnyDebt, Settled, PaidOff, rateVars
  <1>. QED
    BY <1>3, <1>4, <1>5 DEF RInv

LEMMA RateTick == TypeOK /\ RInv /\ Tick => RInv'
  <1>. SUFFICES ASSUME TypeOK, RInv, Tick PROVE RInv'
    OBVIOUS
  <1>1. /\ now' = now + 1 /\ UNCHANGED <<work, limiterMap, lastUsed, cleaner, raced>>
        /\ debt' = IF debt - Rate > 0 THEN debt - Rate ELSE 0
        /\ \A w \in Worker : work[w].pc # "idle" => now < work[w].at + Delay
        /\ \A l \in Limiter : tokens'[l] <= Burst /\ tokens'[l] <= tokens[l] + Rate
    BY Bounds DEF Tick, Least, Most, TypeOK
  <1>2. /\ Spare' <= Spare + Rate /\ Spare' <= Burst /\ Spare' \in Nat
    BY <1>1, Bounds, TypeStep DEF Spare, TypeOK, Next
  <1>3. \A w \in Worker : Orphaned(w)' <=> Orphaned(w)
    BY <1>1 DEF Orphaned
  <1>4. OnTime'
    BY <1>1, Typed, Bounds DEF RInv, OnTime
  <1>5. UsedSince'
    BY <1>1, <1>3 DEF RInv, UsedSince
  <1>6. OneOrphan'
    BY <1>1, <1>3 DEF RInv, OneOrphan
  <1>7. OrphanDebt'
    <2>. SUFFICES ASSUME NEW w \in Worker, Orphaned(w)
         PROVE debt' + Spare' + tokens'[work[w].limiter]
                 <= 2 * Burst + Rate * ((now - work[w].at) + 1)
      BY <1>1, <1>3, Typed DEF OrphanDebt
    <2>1. work[w].limiter \in Limiter /\ work[w].pc # "idle"
      BY DEF TypeOK, Work, Orphaned, RInv, OnTime
    <2>2. now - work[w].at \in Nat
      BY <2>1, Typed DEF RInv, OnTime
    <2>3. debt + Spare + tokens[work[w].limiter] <= 2 * Burst + Rate * (now - work[w].at)
      BY DEF RInv, OrphanDebt
    <2>4. /\ Rate * ((now - work[w].at) + 1) = Rate * (now - work[w].at) + Rate
          /\ Rate * (now - work[w].at) \in Int /\ Rate * (now - work[w].at) >= 0
      <3>. DEFINE a == now - work[w].at
      <3>1. a \in Int
        BY <2>2
      <3>. HIDE DEF a
      <3>2. Rate * (a + 1) = Rate * a + Rate /\ Rate * a \in Int
        BY <3>1, Product
      <3>3. Rate * a >= 0
        BY <2>2, Product DEF a
      <3>. QED
        BY <3>2, <3>3 DEF a
    <2>5. tokens[work[w].limiter] \in Nat
      BY <2>1, Bounds DEF TypeOK
    <2>6. tokens'[work[w].limiter] \in Nat
      BY <2>1, TypeStep, Bounds DEF TypeOK, Next
    <2>. HIDE DEF Orphaned
    <2>. QED
      BY <1>1, <1>2, <2>1, <2>3, <2>4, <2>5, <2>6, Typed, Bounds
  <1>8. AnyDebt'
    BY <1>1, <1>2, Typed, Bounds, Product DEF RInv, AnyDebt
  <1>9. Settled'
    <2>1. debt + Spare <= Burst => debt' + Spare' <= Burst
      <3>1. debt \in Nat /\ Spare \in Nat /\ Rate \in Nat /\ Burst \in Nat
        BY Typed, Bounds
      <3>2. debt' = debt - Rate \/ debt' = 0
        BY <1>1
      <3>3. CASE debt' = 0
        BY <1>2, <3>1, <3>3 DEF Spare
      <3>4. CASE debt' = debt - Rate
        BY <1>2, <3>1, <3>4 DEF Spare
      <3>. QED
        BY <3>2, <3>3, <3>4
    <2>. QED
      BY <1>1, <1>3, <2>1 DEF RInv, Settled
  <1>10. PaidOff'
    <2>. SUFFICES ASSUME limiterMap # Nil, debt' # 0
         PROVE  debt' + Rate * ((now - lastUsed[limiterMap]) + 1)
                  <= 2 * Burst + 3 * (Rate * Delay)
      BY <1>1, Typed DEF PaidOff
    <2>1. now - lastUsed[limiterMap] \in Int
      BY Typed
    <2>2. debt + Rate * (now - lastUsed[limiterMap]) <= 2 * Burst + 3 * (Rate * Delay)
      BY <1>1, Typed, Bounds DEF RInv, PaidOff
    <2>3. Rate * ((now - lastUsed[limiterMap]) + 1) = Rate * (now - lastUsed[limiterMap]) + Rate
          /\ Rate * (now - lastUsed[limiterMap]) \in Int
      BY <2>1, Product
    <2>. QED
      BY <1>1, <2>2, <2>3, Typed, Bounds, Product
  <1>. QED
    BY <1>4, <1>5, <1>6, <1>7, <1>8, <1>9, <1>10 DEF RInv

\* The cleaner finds a limiter that owes nothing and has no rival.
LEMMA RateLook == TypeOK /\ RInv /\ Look => RInv'
  <1>. SUFFICES ASSUME TypeOK, RInv, Look PROVE RInv'
    OBVIOUS
  <1>1. UNCHANGED <<now, work, limiterMap, tokens, lastUsed, debt, raced>>
    BY DEF Look
  <1>2. limiterMap # Nil /\ now - lastUsed[limiterMap] > Idle
    BY DEF Look, Stale
  <1>. DEFINE a == now - lastUsed[limiterMap]
  <1>3. a \in Int /\ Idle <= a
    BY <1>2, Typed, Bounds
  <1>4. Rate * Idle <= Rate * a /\ Rate * a \in Int /\ Rate * Idle \in Int
    <2>. HIDE DEF a
    <2>. QED
      BY <1>3, Bounds, Product
  <1>5. debt = 0
    <2>1. debt = 0 \/ debt + Rate * a <= 2 * Burst + 3 * (Rate * Delay)
      BY <1>2 DEF RInv, PaidOff
    <2>2. 2 * Burst + 3 * (Rate * Delay) <= Rate * Idle
      BY LimitsAssumption
    <2>3. debt \in Nat /\ Burst \in Nat /\ Rate * Delay \in Nat
      BY Typed, Bounds, Product
    <2>. HIDE DEF a
    <2>. QED
      BY <1>4, <2>1, <2>2, <2>3
  <1>6. ASSUME NEW w \in Worker, Orphaned(w) PROVE FALSE
    <2>1. work[w].pc # "idle" /\ work[w].limiter # Nil
      BY <1>6 DEF RInv, OnTime, Orphaned
    <2>2. now <= work[w].at + Delay /\ work[w].at <= lastUsed[limiterMap] + Delay
      BY <1>2, <1>6, <2>1 DEF RInv, OnTime, UsedSince
    <2>3. lastUsed[limiterMap] \in Nat /\ work[w].at \in Nat /\ now \in Nat
      BY <1>2, Typed
    <2>4. 2 * Delay <= Idle
      BY LimitsAssumption
    <2>. QED
      BY <1>2, <2>2, <2>3, <2>4, Bounds
  <1>7. debt + Spare <= Burst
    BY <1>5, Typed, Bounds
  <1>8. OnTime' /\ UsedSince' /\ OneOrphan' /\ OrphanDebt'
    BY <1>1 DEF RInv, OnTime, UsedSince, OneOrphan, OrphanDebt, Orphaned, Spare
  <1>9. AnyDebt' /\ PaidOff'
    BY <1>1 DEF RInv, AnyDebt, PaidOff, Spare
  <1>10. Settled'
    BY <1>1, <1>2, <1>6, <1>7 DEF Settled, Spare, Orphaned
  <1>. QED
    BY <1>8, <1>9, <1>10 DEF RInv

LEMMA RateDelete == TypeOK /\ RInv /\ Delete => RInv'
  <1>. SUFFICES ASSUME TypeOK, RInv, Delete PROVE RInv'
    OBVIOUS
  <1>1. /\ UNCHANGED <<now, work, tokens, lastUsed, debt>> /\ cleaner # Nil
        /\ limiterMap' = Nil /\ cleaner' = Nil
        /\ raced' = (raced \/ ~Stale \/ \E w \in Worker : work[w].limiter = limiterMap)
    BY DEF Delete
  <1>2. /\ debt + Spare <= Burst /\ Spare = tokens[limiterMap] /\ limiterMap # Nil
        /\ \A w \in Worker : ~Orphaned(w)
    BY <1>1 DEF RInv, Settled, Spare
  <1>3. \A w \in Worker : Orphaned(w)' => work[w].limiter = limiterMap
    BY <1>1, <1>2 DEF Orphaned
  <1>4. OnTime' /\ UsedSince' /\ PaidOff'
    BY <1>1 DEF RInv, OnTime, UsedSince, PaidOff
  <1>5. OneOrphan'
    BY <1>1, <1>3 DEF OneOrphan
  <1>6. Spare' = Burst
    BY <1>1 DEF Spare
  <1>7. tokens[limiterMap] \in Nat
    BY <1>2, Typed
  <1>8. debt + Burst <= 2 * Burst
    BY <1>2, <1>7, Typed, Bounds
  <1>9. AnyDebt'
    BY <1>1, <1>6, <1>8, Typed, Bounds, Product DEF AnyDebt
  <1>10. OrphanDebt'
    <2>. SUFFICES ASSUME NEW w \in Worker, Orphaned(w)'
         PROVE debt + Burst + tokens[limiterMap] <= 2 * Burst + Rate * (now - work[w].at)
      BY <1>1, <1>3, <1>6 DEF OrphanDebt
    <2>1. work[w].at <= now
      BY <1>1, <1>3, <1>2 DEF RInv, OnTime
    <2>2. now - work[w].at \in Nat
      BY <2>1, Typed
    <2>3. Rate * (now - work[w].at) >= 0 /\ Rate * (now - work[w].at) \in Int
      <3>. DEFINE a == now - work[w].at
      <3>. HIDE DEF a
      <3>1. Rate * a >= 0 /\ Rate * a \in Int
        BY <2>2, Product DEF a
      <3>. QED
        BY <3>1 DEF a
    <2>. QED
      BY <1>2, <1>7, <2>3, Typed, Bounds
  <1>11. Settled'
    <2>. SUFFICES ASSUME ~raced'
         PROVE debt + Burst <= Burst /\ \A w \in Worker : ~Orphaned(w)'
      BY <1>1, <1>6 DEF Settled
    <2>1. Stale /\ \A w \in Worker : work[w].limiter # limiterMap
      BY <1>1
    <2>2. debt = 0
      <3>. DEFINE a == now - lastUsed[limiterMap]
      <3>1. a \in Int /\ Idle <= a
        BY <1>2, <2>1, Typed, Bounds DEF Stale
      <3>2. debt = 0 \/ debt + Rate * a <= 2 * Burst + 3 * (Rate * Delay)
        BY <1>2 DEF RInv, PaidOff
      <3>3. 2 * Burst + 3 * (Rate * Delay) <= Rate * Idle
        BY LimitsAssumption
      <3>. HIDE DEF a
      <3>4. Rate * Idle <= Rate * a /\ Rate * a \in Int /\ Rate * Idle \in Int
        BY <3>1, Bounds, Product
      <3>5. debt \in Nat /\ Burst \in Nat /\ Rate * Delay \in Nat
        BY Typed, Bounds, Product
      <3>. QED
        BY <3>2, <3>3, <3>4, <3>5
    <2>. QED
      BY <1>3, <2>1, <2>2, Bounds
  <1>. QED
    BY <1>4, <1>5, <1>9, <1>10, <1>11 DEF RInv

LEMMA RateLoad ==
  ASSUME TypeOK, RInv, NEW w \in Worker, Load(w)
  PROVE  RInv'
  <1>1. /\ UNCHANGED <<now, rateVars>>
        /\ work'[w].pc = (IF limiterMap = Nil THEN "store" ELSE "touch")
        /\ work'[w].at = now /\ work'[w].limiter = limiterMap
        /\ \A v \in Worker : v # w => work'[v] = work[v]
    BY DEF Load, TypeOK, Free
  <1>2. \A v \in Worker : Orphaned(v)' => v # w /\ Orphaned(v) /\ work'[v] = work[v]
    BY <1>1 DEF Orphaned, rateVars
  <1>3. OnTime'
    BY <1>1, Typed, Bounds DEF RInv, OnTime, rateVars
  <1>4. UsedSince'
    BY <1>1, <1>2 DEF RInv, UsedSince, rateVars
  <1>5. OneOrphan' /\ OrphanDebt'
    BY <1>1, <1>2 DEF RInv, OneOrphan, OrphanDebt, Spare, rateVars
  <1>6. AnyDebt' /\ Settled' /\ PaidOff'
    BY <1>1, <1>2 DEF RInv, AnyDebt, Settled, PaidOff, Spare, rateVars
  <1>. QED
    BY <1>3, <1>4, <1>5, <1>6 DEF RInv

LEMMA RateTouch ==
  ASSUME TypeOK, RInv, NEW w \in Worker, Touch(w)
  PROVE  RInv'
  <1>. DEFINE l == work[w].limiter
  <1>1. /\ UNCHANGED <<now, limiterMap, tokens, cleaner, debt, raced>>
        /\ work'[w] = [work[w] EXCEPT !.pc = "allow"]
        /\ \A v \in Worker : v # w => work'[v] = work[v]
        /\ lastUsed' = [lastUsed EXCEPT ![l] = work[w].at]
        /\ work[w].pc = "touch"
    BY DEF Touch, Goes, TypeOK
  <1>2. /\ work'[w].pc = "allow" /\ work'[w].at = work[w].at /\ work'[w].limiter = l
        /\ work[w].pc = "touch" /\ l # Nil /\ l \in Limiter
    BY <1>1 DEF TypeOK, Work, RInv, OnTime
  <1>3. \A v \in Worker : /\ Orphaned(v)' <=> Orphaned(v)
                          /\ work'[v].limiter = work[v].limiter
                          /\ work'[v].at = work[v].at
    BY <1>1, <1>2 DEF Orphaned
  <1>4. Spare' = Spare
    BY <1>1 DEF Spare
  <1>5. OnTime'
    BY <1>1, <1>2 DEF RInv, OnTime
  <1>6. work[w].at <= now /\ now <= work[w].at + Delay
    BY <1>2 DEF RInv, OnTime
  <1>7. UsedSince'
    <2>. SUFFICES ASSUME limiterMap # Nil, NEW v \in Worker,
                         work'[v].pc \in {"store", "allow"} \/ Orphaned(v)'
         PROVE  work[v].at <= lastUsed'[limiterMap] + Delay
      BY <1>1, <1>3 DEF UsedSince
    <2>1. CASE l = limiterMap
      <3>1. lastUsed'[limiterMap] = work[w].at
        BY <1>1, <1>2, <2>1 DEF TypeOK
      <3>2. work[v].at <= now
        <4>1. work'[v].pc # "idle"
          BY <1>5 DEF OnTime, Orphaned
        <4>. QED
          BY <1>1, <1>3, <1>5, <4>1 DEF OnTime
      <3>. QED
        BY <1>6, <3>1, <3>2, Typed, Bounds
    <2>2. CASE l # limiterMap
      <3>1. lastUsed'[limiterMap] = lastUsed[limiterMap]
        BY <1>1, <2>2 DEF TypeOK
      <3>2. work[v].pc \in {"store", "allow"} \/ Orphaned(v)
        BY <1>1, <1>2, <1>3, <2>2 DEF Orphaned
      <3>. QED
        BY <3>1, <3>2 DEF RInv, UsedSince
    <2>. QED
      BY <2>1, <2>2
  <1>8. OneOrphan'
    BY <1>3 DEF RInv, OneOrphan
  <1>9. OrphanDebt'
    BY <1>1, <1>3, <1>4 DEF RInv, OrphanDebt, Spare
  <1>10. AnyDebt' /\ Settled'
    BY <1>1, <1>3, <1>4 DEF RInv, AnyDebt, Settled, Spare
  <1>11. PaidOff'
    <2>1. CASE l = limiterMap
      <3>1. lastUsed'[limiterMap] = work[w].at
        BY <1>1, <1>2, <2>1 DEF TypeOK
      <3>. DEFINE a == now - work[w].at
      <3>2. a \in Int /\ a <= Delay
        BY <1>6, Typed, Bounds
      <3>. HIDE DEF a
      <3>3. Rate * a <= Rate * Delay /\ Rate * a \in Int
        BY <3>2, Bounds, Product
      <3>4. debt + Spare <= 2 * Burst + Rate * Delay
        BY DEF RInv, AnyDebt
      <3>5. debt + Rate * a <= 2 * Burst + 3 * (Rate * Delay)
        BY <3>3, <3>4, Typed, Bounds, Product
      <3>. QED
        BY <1>1, <3>1, <3>5 DEF PaidOff, a
    <2>2. CASE l # limiterMap
      BY <1>1, <2>2 DEF RInv, PaidOff, TypeOK
    <2>. QED
      BY <2>1, <2>2
  <1>. QED
    BY <1>5, <1>7, <1>8, <1>9, <1>10, <1>11 DEF RInv

\* A first call takes a new limiter, or that of another first call.
LEMMA RateStore ==
  ASSUME TypeOK, RInv, NEW w \in Worker, NEW l \in Limiter, LoadOrStore(w, l)
  PROVE  RInv'
  <1>1. /\ UNCHANGED <<now, cleaner, debt, raced>>
        /\ work[w].pc = "store"
        /\ work'[w] = [work[w] EXCEPT !.pc = "allow", !.limiter = l]
        /\ \A v \in Worker : v # w => work'[v] = work[v]
        /\ limiterMap' = l /\ l # Nil
    BY Bounds DEF LoadOrStore, Found, TypeOK
  <1>2. /\ work'[w].pc = "allow" /\ work'[w].at = work[w].at /\ work'[w].limiter = l
        /\ work[w].at <= now /\ now <= work[w].at + Delay /\ work[w].at \in Nat
    BY <1>1 DEF TypeOK, Work, RInv, OnTime
  <1>3. OnTime'
    BY <1>1, <1>2 DEF RInv, OnTime
  <1>4. CASE limiterMap = Nil
    <2>1. /\ tokens' = [tokens EXCEPT ![l] = Burst]
          /\ lastUsed' = [lastUsed EXCEPT ![l] = work[w].at]
          /\ \A v \in Worker : work[v].limiter # l
      BY <1>4 DEF LoadOrStore, Found, LimiterInUse
    <2>2. lastUsed'[l] = work[w].at /\ tokens'[l] = Burst /\ Spare = Burst /\ Spare' = Burst
      BY <1>1, <1>4, <2>1 DEF TypeOK, Spare
    <2>3. \A v \in Worker :
            Orphaned(v)' => /\ Orphaned(v) /\ work'[v] = work[v]
                            /\ tokens'[work[v].limiter] = tokens[work[v].limiter]
      <3>. SUFFICES ASSUME NEW v \in Worker, Orphaned(v)'
           PROVE  /\ Orphaned(v) /\ work'[v] = work[v]
                  /\ tokens'[work[v].limiter] = tokens[work[v].limiter]
        OBVIOUS
      <3>1. v # w /\ work'[v] = work[v]
        BY <1>1, <1>2 DEF Orphaned
      <3>2. Orphaned(v) /\ work[v].limiter \in Limiter
        BY <1>4, <3>1 DEF Orphaned, TypeOK, Work
      <3>. QED
        BY <2>1, <3>1, <3>2 DEF TypeOK
    <2>4. UsedSince'
      <3>. SUFFICES ASSUME NEW v \in Worker, work'[v].pc # "idle"
           PROVE  work'[v].at <= work[w].at + Delay
        BY <1>1, <2>2, <1>3 DEF UsedSince, OnTime, Orphaned
      <3>1. work'[v].at <= now
        BY <1>1, <1>3 DEF OnTime
      <3>2. work'[v].at \in Nat
        BY <1>1, <1>2, Typed
      <3>. QED
        BY <1>2, <3>1, <3>2, Typed, Bounds
    <2>5. OneOrphan' /\ OrphanDebt'
      BY <1>1, <2>2, <2>3 DEF RInv, OneOrphan, OrphanDebt
    <2>6. AnyDebt' /\ Settled'
      BY <1>1, <2>2, <2>3 DEF RInv, AnyDebt, Settled
    <2>7. PaidOff'
      <3>. DEFINE a == now - work[w].at
      <3>1. a \in Int /\ a <= Delay
        BY <1>2, Typed, Bounds
      <3>. HIDE DEF a
      <3>2. Rate * a <= Rate * Delay /\ Rate * a \in Int
        BY <3>1, Bounds, Product
      <3>3. debt + Burst <= 2 * Burst + Rate * Delay
        BY <2>2 DEF RInv, AnyDebt
      <3>4. debt + Rate * a <= 2 * Burst + 3 * (Rate * Delay)
        BY <3>2, <3>3, Typed, Bounds, Product
      <3>. QED
        BY <1>1, <2>2, <3>4 DEF PaidOff, a
    <2>. QED
      BY <1>3, <2>4, <2>5, <2>6, <2>7 DEF RInv
  <1>5. CASE limiterMap # Nil
    <2>1. UNCHANGED <<limiterMap, tokens, lastUsed>>
      BY <1>5 DEF LoadOrStore, Found
    <2>2. \A v \in Worker : Orphaned(v)' => v # w /\ Orphaned(v) /\ work'[v] = work[v]
      BY <1>1, <1>2, <2>1 DEF Orphaned
    <2>3. Spare' = Spare
      BY <2>1 DEF Spare
    <2>4. UsedSince'
      BY <1>1, <1>2, <2>1, <2>2 DEF RInv, UsedSince
    <2>5. OneOrphan' /\ OrphanDebt'
      BY <1>1, <2>1, <2>2, <2>3 DEF RInv, OneOrphan, OrphanDebt, Spare
    <2>6. AnyDebt' /\ Settled' /\ PaidOff'
      BY <1>1, <2>1, <2>2, <2>3 DEF RInv, AnyDebt, Settled, PaidOff, Spare
    <2>. QED
      BY <1>3, <2>4, <2>5, <2>6 DEF RInv
  <1>. QED
    BY <1>4, <1>5

\* What a request is allowed is not in the bucket any more.
LEMMA RateAllow ==
  ASSUME TypeOK, RInv, NEW w \in Worker, Allow(w)
  PROVE  RInv'
  <1>. DEFINE l == work[w].limiter
  <1>1. /\ UNCHANGED <<now, limiterMap, lastUsed, cleaner, raced>>
        /\ work[w].pc = "allow" /\ tokens[l] > 0 /\ debt' = debt + 1
        /\ tokens' = [tokens EXCEPT ![l] = @ - 1]
        /\ \A v \in Worker : v # w => work'[v] = work[v]
    BY DEF Allow, Ends, TypeOK
  <1>2. \/ work'[w] = Free
        \/ work'[w] = [work[w] EXCEPT !.pc = "count", !.limiter = Nil]
    BY DEF Allow, Ends, TypeOK
  <1>3. /\ work'[w].limiter = Nil /\ work'[w].pc \in {"idle", "count"}
        /\ work'[w].pc = "count" => work'[w].at = work[w].at
    <2>1. work[w] \in Work
      BY DEF TypeOK
    <2>2. CASE work'[w] = Free
      BY <2>2 DEF Free
    <2>3. CASE work'[w] = [work[w] EXCEPT !.pc = "count", !.limiter = Nil]
      BY <2>1, <2>3 DEF Work
    <2>. QED
      BY <1>2, <2>2, <2>3
  <1>4. l # Nil /\ l \in Limiter /\ work[w].at <= now /\ now <= work[w].at + Delay
    BY <1>1 DEF TypeOK, Work, RInv, OnTime
  <1>5. tokens[l] \in Nat /\ tokens'[l] = tokens[l] - 1
    BY <1>1, <1>4, Typed DEF TypeOK
  <1>6. \A v \in Worker : Orphaned(v)' => v # w /\ Orphaned(v) /\ work'[v] = work[v]
    BY <1>1, <1>3 DEF Orphaned
  <1>7. OnTime'
    BY <1>1, <1>3 DEF RInv, OnTime
  <1>8. UsedSince'
    BY <1>1, <1>3, <1>6 DEF RInv, UsedSince
  <1>9. OneOrphan'
    BY <1>1, <1>6 DEF RInv, OneOrphan
  <1>10. ASSUME l = limiterMap PROVE OrphanDebt' /\ AnyDebt' /\ Settled'
    <2>1. Spare = tokens[l] /\ Spare' = Spare - 1 /\ Spare \in Nat
      BY <1>1, <1>4, <1>5, <1>10 DEF Spare
    <2>2. debt' + Spare' = debt + Spare
      BY <1>1, <2>1, Typed DEF Spare
    <2>3. \A v \in Worker : Orphaned(v) => tokens'[work[v].limiter] = tokens[work[v].limiter]
      BY <1>1, <1>10 DEF Orphaned, TypeOK, Work
    <2>4. OrphanDebt'
      BY <1>1, <1>6, <2>2, <2>3 DEF RInv, OrphanDebt
    <2>5. AnyDebt' /\ Settled'
      BY <1>1, <1>6, <2>2 DEF RInv, AnyDebt, Settled
    <2>. QED
      BY <2>4, <2>5
  <1>11. ASSUME l # limiterMap PROVE OrphanDebt' /\ AnyDebt' /\ Settled'
    <2>1. Orphaned(w)
      BY <1>4, <1>11 DEF Orphaned
    <2>2. Spare' = Spare
      BY <1>1, <1>11 DEF Spare, TypeOK
    <2>3. OrphanDebt'
      <3>. SUFFICES ASSUME NEW v \in Worker, Orphaned(v)'
           PROVE  debt' + Spare + tokens'[l] <= 2 * Burst + Rate * (now - work[v].at)
        BY <1>1, <1>6, <2>1, <2>2 DEF RInv, OrphanDebt, OneOrphan
      <3>1. debt + Spare + tokens[l] <= 2 * Burst + Rate * (now - work[v].at)
        BY <1>6, <2>1 DEF RInv, OrphanDebt, OneOrphan
      <3>2. debt' + Spare + tokens'[l] = debt + Spare + tokens[l]
        BY <1>1, <1>5, Typed
      <3>. QED
        BY <3>1, <3>2
    <2>4. AnyDebt'
      <3>. DEFINE a == now - work[w].at
      <3>1. a \in Int /\ a <= Delay
        BY <1>4, Typed, Bounds
      <3>2. debt + Spare + tokens[l] <= 2 * Burst + Rate * a
        BY <2>1 DEF RInv, OrphanDebt
      <3>. HIDE DEF a
      <3>3. Rate * a <= Rate * Delay /\ Rate * a \in Int
        BY <3>1, Bounds, Product
      <3>4. debt' + Spare <= 2 * Burst + Rate * Delay
        BY <1>1, <1>5, <3>2, <3>3, Typed, Bounds, Product
      <3>. QED
        BY <2>2, <3>4 DEF AnyDebt
    <2>5. Settled'
      BY <1>1, <2>1 DEF RInv, Settled
    <2>. QED
      BY <2>3, <2>4, <2>5
  <1>12. PaidOff'
    <2>. SUFFICES ASSUME limiterMap # Nil
         PROVE debt' + Rate * (now - lastUsed[limiterMap]) <= 2 * Burst + 3 * (Rate * Delay)
      BY <1>1 DEF PaidOff
    <2>. DEFINE a == now - lastUsed[limiterMap]
    <2>1. work[w].at <= lastUsed[limiterMap] + Delay
      BY <1>1 DEF RInv, UsedSince
    <2>2. a \in Int /\ a <= 2 * Delay
      BY <1>4, <2>1, Typed, Bounds
    <2>. HIDE DEF a
    <2>3. Rate * a <= 2 * (Rate * Delay) /\ Rate * a \in Int
      BY <2>2, Bounds, Product
    <2>4. debt' + Spare' <= 2 * Burst + Rate * Delay
      BY <1>10, <1>11 DEF AnyDebt
    <2>5. Spare' \in Nat /\ debt' \in Nat
      BY <1>1, <1>4, <1>5, Typed, Bounds DEF Spare, TypeOK
    <2>6. debt' <= 2 * Burst + Rate * Delay
      BY <2>4, <2>5, Bounds, Product DEF Spare
    <2>7. debt' + Rate * a <= 2 * Burst + 3 * (Rate * Delay)
      BY <2>3, <2>5, <2>6, Bounds, Product
    <2>. QED
      BY <2>7 DEF a
  <1>. QED
    BY <1>7, <1>8, <1>9, <1>10, <1>11, <1>12 DEF RInv

LEMMA RateStep == TypeOK /\ RInv /\ [Next]_vars => RInv'
  <1>. SUFFICES ASSUME TypeOK, RInv, [Next]_vars PROVE RInv'
    OBVIOUS
  <1>1. ASSUME NEW w \in Worker, Deny(w) \/ AddInt32(w) \/ LoadInt32(w) PROVE RInv'
    <2>1. UNCHANGED <<now, rateVars>> /\ work' = [work EXCEPT ![w] = Free]
      BY <1>1 DEF Deny, AddInt32, LoadInt32, Ends
    <2>2. work'[w] = Free /\ \A v \in Worker : v # w => work'[v] = work[v]
      BY <2>1 DEF TypeOK
    <2>3. \A v \in Worker : work'[v] = work[v] \/ Leaves(v)
      BY <2>2 DEF Free, Leaves
    <2>. QED
      BY <2>1, <2>3, RateLeave
  <1>2. ASSUME NEW w \in Worker, LoadCounter(w) PROVE RInv'
    <2>1. UNCHANGED <<now, rateVars>> /\ work[w] \in Work /\ work[w].pc = "count"
      BY <1>2 DEF LoadCounter, TypeOK
    <2>2. work[w].limiter = Nil
      BY <2>1 DEF RInv, OnTime
    <2>3. /\ \A v \in Worker : v # w => work'[v] = work[v]
          /\ work'[w] = [work[w] EXCEPT !.pc = IF counterMap = Nil THEN "first" ELSE "add",
                                        !.counter = counterMap]
      BY <1>2 DEF LoadCounter, TypeOK
    <2>4. Leaves(w)
      BY <2>1, <2>2, <2>3 DEF Work, Leaves
    <2>5. \A v \in Worker : work'[v] = work[v] \/ Leaves(v)
      BY <2>3, <2>4
    <2>. QED
      BY <2>1, <2>5, RateLeave
  <1>3. ASSUME NEW w \in Worker, NEW c \in Counter, StoreCounter(w, c) PROVE RInv'
    <2>1. UNCHANGED <<now, rateVars>> /\ work[w] \in Work /\ work[w].pc = "first"
      BY <1>3 DEF StoreCounter, TypeOK
    <2>2. work[w].limiter = Nil
      BY <2>1 DEF RInv, OnTime
    <2>3. /\ \A v \in Worker : v # w => work'[v] = work[v]
          /\ work'[w] = [work[w] EXCEPT !.pc = "read", !.counter = c]
      BY <1>3 DEF StoreCounter, TypeOK
    <2>4. Leaves(w)
      BY <2>1, <2>2, <2>3 DEF Work, Leaves
    <2>5. \A v \in Worker : work'[v] = work[v] \/ Leaves(v)
      BY <2>3, <2>4
    <2>. QED
      BY <2>1, <2>5, RateLeave
  <1>4. CASE CleanLimit
    BY <1>4, RateLeave DEF CleanLimit
  <1>5. CASE UNCHANGED vars
    BY <1>5, RateLeave DEF vars
  <1>. QED
    BY <1>1, <1>2, <1>3, <1>4, <1>5, RateTick, RateLook, RateDelete, RateLoad, RateTouch,
       RateStore, RateAllow DEF Next

\* Beyond what Rate makes up for, a key is allowed one burst, or two and a little if
\* the cleaner deletes its limiter in use: for every order of first calls, requests
\* that outlive their limiter and passes of the cleaner.
THEOREM OneBurst == Spec => []RateKept
  <1>1. TypeOK /\ RInv => RateKept
    <2>. SUFFICES ASSUME TypeOK, RInv PROVE RateKept
      OBVIOUS
    <2>1. raced => debt + Spare <= 2 * Burst + Rate * Delay
      BY DEF RInv, AnyDebt
    <2>2. ~raced => debt + Spare <= Burst
      BY DEF RInv, Settled
    <2>. QED
      BY <2>1, <2>2, Typed, Bounds, Product DEF RateKept
  <1>. QED
    BY <1>1, TypeInit, TypeStep, RateInit, RateStep, PTL DEF Spec

-----------------------------------------------------------------------------
(* The counters.                                                           *)

\* The goroutines of a kind are no more than there are.
LEMMA Sizes ==
  /\ IsFiniteSet(Worker) /\ Cardinality(Worker) \in Nat
  /\ \A S \in SUBSET Worker :
       IsFiniteSet(S) /\ Cardinality(S) \in Nat /\ Cardinality(S) <= Cardinality(Worker)
  BY LimitsAssumption, FS_Subset, FS_CardinalityType

\* One goroutine less.
LEMMA OneLess ==
  ASSUME NEW S \in SUBSET Worker, NEW w \in S, NEW T, T = S \ {w}
  PROVE  Cardinality(T) = Cardinality(S) - 1
  BY Sizes, FS_RemoveElement

LEMMA CountInit == Init => CInv
  <1>. SUFFICES ASSUME Init PROVE CInv
    OBVIOUS
  <1>1. Holding = {} /\ \A w \in Worker : work[w].pc = "idle"
    BY DEF Init, Holding, Free
  <1>. QED
    BY <1>1, Sizes, FS_EmptySet DEF Init, CInv

\* No goroutine comes to GetLimit's counter or leaves it.
LEMMA CountSame ==
  ASSUME TypeOK, CInv, UNCHANGED <<counterMap, num, admitted>>,
         \A w \in Worker : \/ work'[w] = work[w]
                           \/ /\ work[w].pc \notin {"first", "add", "read"}
                              /\ work'[w].pc \notin {"first", "add", "read"}
  PROVE  CInv'
  <1>1. Holding' = Holding /\ Uncounted' = Uncounted
    BY DEF Holding, Uncounted
  <1>2. \A w \in Worker : work'[w].pc \in {"add", "read"} => work'[w].counter \in Counter
    BY DEF CInv
  <1>. QED
    BY <1>1, <1>2 DEF CInv

LEMMA CountAdd ==
  ASSUME TypeOK, CInv, NEW w \in Worker, AddInt32(w)
  PROVE  CInv'
  <1>. DEFINE c == work[w].counter
  <1>1. /\ work[w].pc = "add" /\ c \in Counter /\ UNCHANGED counterMap
        /\ num' = [num EXCEPT ![c] = num[c] + 1] /\ num[c] \in Nat
        /\ admitted' = (IF num[c] + 1 > Limit THEN admitted ELSE admitted + 1)
    BY DEF AddInt32, Admits, Returned, CInv, TypeOK
  <1>2. work'[w] = Free /\ \A v \in Worker : v # w => work'[v] = work[v]
    BY DEF AddInt32, Ends, TypeOK
  <1>3. \A v \in Worker : work'[v].pc \in {"add", "read"} => work'[v].counter \in Counter
    BY <1>2 DEF CInv, Free
  <1>4. Holding' = Holding \ {w} /\ w \in Holding /\ Holding \in SUBSET Worker
    BY <1>1, <1>2 DEF Holding, Free
  <1>5. Uncounted' = Uncounted \ {w} /\ Uncounted \in SUBSET Worker
    BY <1>1, <1>2 DEF Uncounted, Free
  <1>6. CASE counterMap = Nil
    <2>1. Cardinality(Holding') = Cardinality(Holding) - 1
      BY <1>4, OneLess
    <2>2. admitted + Cardinality(Holding) <= Cardinality(Worker)
      BY <1>6 DEF CInv
    <2>3. admitted' + Cardinality(Holding') <= Cardinality(Worker)
      BY <1>1, <1>4, <2>1, <2>2, Sizes, Bounds DEF TypeOK
    <2>. QED
      BY <1>1, <1>3, <1>6, <2>3 DEF CInv
  <1>7. CASE counterMap # Nil /\ counterMap # c
    <2>1. w \in Uncounted
      BY <1>1, <1>7 DEF Uncounted
    <2>2. Cardinality(Uncounted') = Cardinality(Uncounted) - 1
      BY <1>5, <2>1, OneLess
    <2>3. num'[counterMap] = num[counterMap] /\ num[counterMap] \in Nat
      BY <1>1, <1>7 DEF TypeOK
    <2>4. admitted + Cardinality(Uncounted)
            <= Least(num[counterMap], Limit) + 2 * Cardinality(Worker)
      BY <1>7 DEF CInv
    <2>5. admitted' + Cardinality(Uncounted')
            <= Least(num'[counterMap], Limit) + 2 * Cardinality(Worker)
      BY <1>1, <1>5, <2>2, <2>3, <2>4, Sizes, Bounds DEF TypeOK, Least
    <2>. QED
      BY <1>1, <1>3, <1>7, <2>5 DEF CInv
  <1>8. CASE counterMap = c
    <2>1. Uncounted' = Uncounted
      BY <1>1, <1>5, <1>8 DEF Uncounted
    <2>2. num'[counterMap] = num[counterMap] + 1 /\ num[counterMap] \in Nat
      BY <1>1, <1>8 DEF TypeOK
    <2>3. admitted + Cardinality(Uncounted)
            <= Least(num[counterMap], Limit) + 2 * Cardinality(Worker)
      BY <1>1, <1>8, Bounds DEF CInv
    <2>4. admitted' + Cardinality(Uncounted)
            <= Least(num'[counterMap], Limit) + 2 * Cardinality(Worker)
      BY <1>1, <1>5, <1>8, <2>2, <2>3, Sizes, Bounds DEF TypeOK, Least
    <2>. QED
      BY <1>1, <1>3, <1>8, <2>1, <2>4, Bounds DEF CInv
  <1>. QED
    BY <1>6, <1>7, <1>8

LEMMA CountLoad ==
  ASSUME TypeOK, CInv, NEW w \in Worker, LoadInt32(w)
  PROVE  CInv'
  <1>1. /\ work[w].pc = "read" /\ UNCHANGED <<counterMap, num>>
        /\ admitted' \in {admitted, admitted + 1}
    BY DEF LoadInt32, Admits
  <1>2. work'[w] = Free /\ \A v \in Worker : v # w => work'[v] = work[v]
    BY DEF LoadInt32, Ends, TypeOK
  <1>3. \A v \in Worker : work'[v].pc \in {"add", "read"} => work'[v].counter \in Counter
    BY <1>2 DEF CInv, Free
  <1>4. Holding' = Holding \ {w} /\ w \in Holding /\ Holding \in SUBSET Worker
    BY <1>1, <1>2 DEF Holding, Free
  <1>5. Uncounted' = Uncounted \ {w} /\ w \in Uncounted /\ Uncounted \in SUBSET Worker
    BY <1>1, <1>2 DEF Uncounted, Free
  <1>6. /\ Cardinality(Holding') = Cardinality(Holding) - 1
        /\ Cardinality(Uncounted') = Cardinality(Uncounted) - 1
    BY <1>4, <1>5, OneLess
  <1>7. CASE counterMap = Nil
    <2>1. admitted' + Cardinality(Holding') <= Cardinality(Worker)
      BY <1>1, <1>4, <1>6, <1>7, Sizes DEF TypeOK, CInv
    <2>. QED
      BY <1>1, <1>3, <1>7, <2>1 DEF CInv
  <1>8. CASE counterMap # Nil
    <2>1. num[counterMap] \in Nat
      BY <1>8 DEF TypeOK
    <2>2. admitted + Cardinality(Uncounted)
            <= Least(num[counterMap], Limit) + 2 * Cardinality(Worker)
      BY <1>8 DEF CInv
    <2>3. admitted' + Cardinality(Uncounted')
            <= Least(num[counterMap], Limit) + 2 * Cardinality(Worker)
      BY <1>1, <1>5, <1>6, <2>1, <2>2, Sizes, Bounds DEF TypeOK, Least
    <2>. QED
      BY <1>1, <1>3, <1>8, <2>3 DEF CInv
  <1>. QED
    BY <1>7, <1>8

\* A goroutine that finds a counter will count in it; one that finds none will not.
LEMMA CountFind ==
  ASSUME TypeOK, CInv, NEW w \in Worker, LoadCounter(w)
  PROVE  CInv'
  <1>1. /\ work[w].pc = "count" /\ UNCHANGED <<counterMap, num, admitted>>
        /\ work[w] \in Work
    BY DEF LoadCounter, TypeOK, countVars
  <1>2. /\ work'[w] = [work[w] EXCEPT !.pc = IF counterMap = Nil THEN "first" ELSE "add",
                                      !.counter = counterMap]
        /\ \A v \in Worker : v # w => work'[v] = work[v]
    BY DEF LoadCounter, TypeOK
  <1>3. /\ work'[w].pc = (IF counterMap = Nil THEN "first" ELSE "add")
        /\ work'[w].counter = counterMap
    BY <1>1, <1>2 DEF Work
  <1>4. \A v \in Worker : work'[v].pc \in {"add", "read"} => work'[v].counter \in Counter
    BY <1>2, <1>3 DEF CInv, TypeOK
  <1>5. CASE counterMap = Nil
    <2>1. Holding' = Holding
      BY <1>1, <1>2, <1>3, <1>5 DEF Holding
    <2>. QED
      BY <1>1, <1>4, <1>5, <2>1 DEF CInv
  <1>6. CASE counterMap # Nil
    <2>1. Uncounted' = Uncounted
      BY <1>1, <1>2, <1>3, <1>6 DEF Uncounted
    <2>. QED
      BY <1>1, <1>4, <1>6, <2>1 DEF CInv
  <1>. QED
    BY <1>5, <1>6

\* Those that found none share the first one's counter, which none of them adds to.
LEMMA CountStore ==
  ASSUME TypeOK, CInv, NEW w \in Worker, NEW c \in Counter, StoreCounter(w, c)
  PROVE  CInv'
  <1>1. /\ work[w].pc = "first" /\ UNCHANGED admitted /\ work[w] \in Work
        /\ counterMap' = c /\ c # Nil
    BY Bounds DEF StoreCounter, TypeOK
  <1>2. /\ work'[w] = [work[w] EXCEPT !.pc = "read", !.counter = c]
        /\ \A v \in Worker : v # w => work'[v] = work[v]
    BY DEF StoreCounter, TypeOK
  <1>3. work'[w].pc = "read" /\ work'[w].counter = c
    BY <1>1, <1>2 DEF Work
  <1>4. \A v \in Worker : work'[v].pc \in {"add", "read"} => work'[v].counter \in Counter
    BY <1>2, <1>3 DEF CInv
  <1>5. CASE counterMap # Nil
    <2>1. UNCHANGED <<counterMap, num>>
      BY <1>5 DEF StoreCounter
    <2>2. Uncounted' = Uncounted
      BY <1>1, <1>2, <1>3, <2>1 DEF Uncounted
    <2>. QED
      BY <1>1, <1>4, <1>5, <2>1, <2>2 DEF CInv
  <1>6. CASE counterMap = Nil
    <2>. DEFINE First == {v \in Worker : work[v].pc = "first"}
    <2>1. First \in SUBSET Worker /\ Holding \in SUBSET Worker
          /\ Uncounted' \in SUBSET Worker
      BY DEF Holding, Uncounted
    <2>2. Uncounted' \subseteq Holding \cup First
      BY <1>1, <1>2, <1>3 DEF Uncounted, Holding
    <2>. HIDE DEF First
    <2>3. IsFiniteSet(Holding \cup First)
          /\ Cardinality(Holding \cup First) =
               Cardinality(Holding) + Cardinality(First) - Cardinality(Holding \cap First)
      BY <2>1, Sizes, FS_Union
    <2>4. Cardinality(Holding \cap First) \in Nat /\ Cardinality(Holding) \in Nat
          /\ Cardinality(First) \in Nat /\ Cardinality(First) <= Cardinality(Worker)
          /\ Cardinality(Uncounted') \in Nat
      <3>1. Holding \cap First \in SUBSET Worker
        BY <2>1
      <3>. QED
        BY <2>1, <3>1, Sizes
    <2>5. Cardinality(Uncounted') <= Cardinality(Holding \cup First)
      BY <2>2, <2>3, FS_Subset
    <2>6. Cardinality(Uncounted') <= Cardinality(Holding) + Cardinality(Worker)
      BY <2>3, <2>4, <2>5, Sizes
    <2>7. admitted + Cardinality(Holding) <= Cardinality(Worker)
      BY <1>6 DEF CInv
    <2>8. num'[c] = 0
      BY <1>6 DEF StoreCounter, TypeOK
    <2>9. admitted' + Cardinality(Uncounted')
            <= Least(num'[c], Limit) + 2 * Cardinality(Worker)
      BY <1>1, <2>4, <2>6, <2>7, <2>8, Sizes, Bounds DEF Least, TypeOK
    <2>. QED
      BY <1>1, <1>4, <2>9 DEF CInv
  <1>. QED
    BY <1>5, <1>6

LEMMA CountClean ==
  ASSUME TypeOK, CInv, CleanLimit
  PROVE  CInv'
  <1>1. work' = work /\ counterMap' = Nil /\ admitted' = 0
    BY DEF CleanLimit
  <1>2. Holding' = Holding /\ Holding \in SUBSET Worker
    BY <1>1 DEF Holding
  <1>3. admitted' + Cardinality(Holding') <= Cardinality(Worker)
    BY <1>1, <1>2, Sizes
  <1>. QED
    BY <1>1, <1>3 DEF CInv

LEMMA CountStep == TypeOK /\ CInv /\ [Next]_vars => CInv'
  <1>. SUFFICES ASSUME TypeOK, CInv, [Next]_vars PROVE CInv'
    OBVIOUS
  <1>1. CASE Tick \/ Look \/ Delete \/ UNCHANGED vars
    BY <1>1, CountSame DEF Tick, Look, Delete, vars, countVars
  <1>2. ASSUME NEW w \in Worker, Load(w) PROVE CInv'
    <2>1. work'[w].pc \in {"store", "touch"} /\ work[w].pc = "idle"
      BY <1>2 DEF Load, Free, TypeOK
    <2>. QED
      BY <1>2, <2>1, CountSame DEF Load, TypeOK, countVars
  <1>3. ASSUME NEW w \in Worker, Touch(w) PROVE CInv'
    <2>1. work'[w].pc = "allow" /\ work[w].pc = "touch"
      BY <1>3 DEF Touch, Goes, TypeOK, Work
    <2>. QED
      BY <1>3, <2>1, CountSame DEF Touch, Goes, TypeOK, countVars
  <1>4. ASSUME NEW w \in Worker, NEW l \in Limiter, LoadOrStore(w, l) PROVE CInv'
    <2>1. work'[w] = [work[w] EXCEPT !.pc = "allow", !.limiter = l]
      BY <1>4 DEF LoadOrStore, TypeOK
    <2>2. work'[w].pc = "allow" /\ work[w].pc = "store"
      BY <1>4, <2>1 DEF LoadOrStore, TypeOK, Work
    <2>. QED
      BY <1>4, <2>2, CountSame DEF LoadOrStore, TypeOK, countVars
  <1>5. ASSUME NEW w \in Worker, Allow(w) PROVE CInv'
    <2>1. /\ work[w].pc = "allow" /\ UNCHANGED <<counterMap, num, admitted>>
          /\ \A v \in Worker : v # w => work'[v] = work[v]
      BY <1>5 DEF Allow, Ends, TypeOK
    <2>2. CASE work'[w] = Free
      BY <2>1, <2>2, CountSame DEF Free
    <2>3. CASE work'[w] = [work[w] EXCEPT !.pc = "count", !.limiter = Nil]
      <3>1. work'[w].pc = "count"
        BY <2>3 DEF TypeOK, Work
      <3>. QED
        BY <2>1, <3>1, CountSame
    <2>. QED
      BY <1>5, <2>2, <2>3 DEF Allow, Ends, TypeOK
  <1>6. ASSUME NEW w \in Worker, Deny(w) PROVE CInv'
    <2>1. work'[w].pc = "idle" /\ work[w].pc = "allow"
      BY <1>6 DEF Deny, Ends, Free, TypeOK
    <2>. QED
      BY <1>6, <2>1, CountSame DEF Deny, Ends, TypeOK, countVars
  <1>. QED
    BY <1>1, <1>2, <1>3, <1>4, <1>5, <1>6, CountAdd, CountLoad, CountFind, CountStore,
       CountClean DEF Next

\* In a period no more messages pass GetLimit than Limit and two for each goroutine,
\* however first calls, calls that outlive their period and replacements interleave.
THEOREM CountBounded == Spec => []CountKept
  <1>1. TypeOK /\ CInv => CountKept
    <2>. SUFFICES ASSUME TypeOK, CInv PROVE CountKept
      OBVIOUS
    <2>1. Holding \in SUBSET Worker /\ Uncounted \in SUBSET Worker
      BY DEF Holding, Uncounted
    <2>2. CASE counterMap = Nil
      BY <2>1, <2>2, Sizes, Bounds DEF CInv, CountKept, TypeOK
    <2>3. CASE counterMap # Nil
      BY <2>1, <2>3, Sizes, Bounds DEF CInv, CountKept, TypeOK, Least
    <2>. QED
      BY <2>2, <2>3
  <1>. QED
    BY <1>1, TypeInit, TypeStep, CountInit, CountStep, PTL DEF Spec
=============================================================================
