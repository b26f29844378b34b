------------------------------- MODULE Limits -------------------------------
(***************************************************************************)
(* How much a sender gets through: getLimiter and the cleaner of           *)
(* limiterMap (server.go), and GetLimit, which counts in twelve-hour       *)
(* periods (limit/limit.go).  They are asked in this order by every        *)
(* message in checkAndVeify_kep, by its domain; checkToken asks for a      *)
(* limiter only, by its token.                                             *)
(*                                                                         *)
(* One key: different keys share no limiter and no counter.  A limiter of  *)
(* golang.org/x/time/rate is a bucket of tokens, filled as time passes.    *)
(* Limiters and counters are on the heap: a goroutine goes on using what   *)
(* it has loaded when the maps no longer hold it.                          *)
(***************************************************************************)
EXTENDS Integers, FiniteSets

CONSTANTS
  Worker,   \* goroutines that ask at the same time
  Limiter,  \* room for limiters
  Counter,  \* room for counters
  Nil,
  Burst,    \* the limiter's rpm: its tokens when it is full
  Rate,     \* tokens it gets in a unit of time
  Idle,     \* 7200 s: a limiter unused for longer is deleted
  Delay,    \* bound on the time a request or a pass of the cleaner takes
  Limit,    \* what GetLimit is compared with: 10, 50 or 100
  MaxTime,  \* bound on the clock
  MaxCall,  \* bound on the calls of GetLimit
  MaxPeriod \* bound on the replacements of the counters

ASSUME LimitsAssumption ==
  /\ IsFiniteSet(Worker)
  /\ Nil \notin Worker \cup Limiter \cup Counter
  /\ Burst \in Nat /\ Rate \in Nat /\ Idle \in Nat /\ Delay \in Nat
  /\ Limit \in Nat /\ MaxTime \in Nat /\ MaxCall \in Nat /\ MaxPeriod \in Nat
  /\ 2 * Delay <= Idle /\ 2 * Burst + 3 * (Rate * Delay) <= Rate * Idle

Stage == {"idle", "touch", "store", "allow", "count", "add", "first", "read"}
Free == [pc |-> "idle", at |-> 0, limiter |-> Nil, counter |-> Nil]

VARIABLES
  now,
  limiterMap, \* the key's limiter
  tokens,     \* tokens of each limiter
  lastUsed,   \* when each was used last, as tokenLimiter has it
  cleaner,    \* Nil, or when the cleaner found the limiter idle
  counterMap, \* the key's counter
  num,        \* value of each counter
  work,       \* what the goroutines do
  debt,       \* history: what is allowed and not yet made up for by Rate
  raced,      \* history: the cleaner deleted a limiter somebody was using
  admitted,   \* history: messages within Limit in this period
  calls, periods

rateVars == <<limiterMap, tokens, lastUsed, cleaner, debt, raced>>
countVars == <<counterMap, num, admitted, calls, periods>>
vars == <<now, work, rateVars, countVars>>

Init ==
  /\ now = 0 /\ work = [w \in Worker |-> Free]
  /\ limiterMap = Nil /\ cleaner = Nil
  /\ tokens = [l \in Limiter |-> Burst] /\ lastUsed = [l \in Limiter |-> 0]
  /\ debt = 0 /\ raced = FALSE
  /\ counterMap = Nil /\ num = [c \in Counter |-> 0]
  /\ admitted = 0 /\ calls = 0 /\ periods = 0

\* Mutant: a bucket goes on filling.
Unbounded(a, b) == a

Least(a, b) == IF a < b THEN a ELSE b
Most(a, b) == IF a > b THEN a ELSE b

\* Time passes; no request and no pass of the cleaner takes longer than Delay.
Tick ==
  /\ now < MaxTime
  /\ \A w \in Worker : work[w].pc # "idle" => now < work[w].at + Delay
  /\ cleaner # Nil => now < cleaner + Delay
  /\ now' = now + 1
  /\ tokens' = [l \in Limiter |-> Least(tokens[l] + Rate, Burst)]
  /\ debt' = Most(debt - Rate, 0)
  /\ UNCHANGED <<work, limiterMap, lastUsed, cleaner, raced, countVars>>

Goes(w, s) == work' = [work EXCEPT ![w].pc = s]
Ends(w) == work' = [work EXCEPT ![w] = Free]

-----------------------------------------------------------------------------
(* getLimiter and Allow.                                                   *)

Load(w) ==
  /\ work[w].pc = "idle"
  /\ work' = [work EXCEPT ![w] =
       [Free EXCEPT !.pc = IF limiterMap = Nil THEN "store" ELSE "touch",
                    !.at = now, !.limiter = limiterMap]]
  /\ UNCHANGED <<now, rateVars, countVars>>

\* tl.lastUsed = now
Touch(w) ==
  /\ work[w].pc = "touch"
  /\ lastUsed' = [lastUsed EXCEPT ![work[w].limiter] = work[w].at]
  /\ Goes(w, "allow")
  /\ UNCHANGED <<now, limiterMap, tokens, cleaner, debt, raced, countVars>>

LimiterInUse(l) == limiterMap = l \/ \E v \in Worker : work[v].limiter = l

\* Mutant: Store, where the code has LoadOrStore.
AlwaysNew == Nil

\* What LoadOrStore finds.
Found == limiterMap

LoadOrStore(w, l) ==
  /\ work[w].pc = "store"
  /\ IF Found = Nil
     THEN /\ l \in Limiter /\ ~LimiterInUse(l)
          /\ limiterMap' = l
          /\ tokens' = [tokens EXCEPT ![l] = Burst]
          /\ lastUsed' = [lastUsed EXCEPT ![l] = work[w].at]
     ELSE l = Found /\ UNCHANGED <<limiterMap, tokens, lastUsed>>
  /\ work' = [work EXCEPT ![w].pc = "allow", ![w].limiter = l]
  /\ UNCHANGED <<now, cleaner, debt, raced, countVars>>

\* The limiter allows it; a token's request and a private message are not counted.
Allow(w) ==
  /\ work[w].pc = "allow" /\ tokens[work[w].limiter] > 0
  /\ tokens' = [tokens EXCEPT ![work[w].limiter] = @ - 1]
  /\ debt' = debt + 1
  /\ \/ Ends(w) /\ UNCHANGED calls
     \/ /\ calls < MaxCall /\ calls' = calls + 1
        /\ work' = [work EXCEPT ![w].pc = "count", ![w].limiter = Nil]
  /\ UNCHANGED <<now, limiterMap, lastUsed, cleaner, raced, counterMap, num, admitted,
                 periods>>

Deny(w) ==
  /\ work[w].pc = "allow" /\ tokens[work[w].limiter] = 0
  /\ Ends(w)
  /\ UNCHANGED <<now, rateVars, countVars>>

-----------------------------------------------------------------------------
(* startLimiterCleaner.                                                    *)

Stale == limiterMap # Nil /\ now - lastUsed[limiterMap] > Idle

Look ==
  /\ cleaner = Nil /\ Stale
  /\ cleaner' = now
  /\ UNCHANGED <<now, work, limiterMap, tokens, lastUsed, debt, raced, countVars>>

Delete ==
  /\ cleaner # Nil /\ cleaner' = Nil
  /\ limiterMap' = Nil
  /\ raced' = (raced \/ ~Stale \/ \E w \in Worker : work[w].limiter = limiterMap)
  /\ UNCHANGED <<now, work, tokens, lastUsed, debt, countVars>>

-----------------------------------------------------------------------------
(* GetLimit and its verdict.                                               *)

CounterInUse(c) == counterMap = c \/ \E v \in Worker : work[v].counter = c

LoadCounter(w) ==
  /\ work[w].pc = "count"
  /\ work' = [work EXCEPT ![w].pc = IF counterMap = Nil THEN "first" ELSE "add",
                          ![w].counter = counterMap]
  /\ UNCHANGED <<now, rateVars, countVars>>

\* The message goes on if n is within Limit.
Admits(n) == admitted' = IF n > Limit THEN admitted ELSE admitted + 1

\* Mutant: the value before the addition is returned.
OldValue(n) == n

\* atomic.AddInt32 returns the new value.
Returned(n) == n + 1

AddInt32(w) ==
  /\ work[w].pc = "add"
  /\ num' = [num EXCEPT ![work[w].counter] = @ + 1]
  /\ Admits(Returned(num[work[w].counter]))
  /\ Ends(w)
  /\ UNCHANGED <<now, rateVars, counterMap, calls, periods>>

\* A first call stores a counter, or finds that of another first call.
StoreCounter(w, c) ==
  /\ work[w].pc = "first"
  /\ IF counterMap = Nil
     THEN /\ c \in Counter /\ ~CounterInUse(c)
          /\ counterMap' = c /\ num' = [num EXCEPT ![c] = 0]
     ELSE c = counterMap /\ UNCHANGED <<counterMap, num>>
  /\ work' = [work EXCEPT ![w].pc = "read", ![w].counter = c]
  /\ UNCHANGED <<now, rateVars, admitted, calls, periods>>

LoadInt32(w) ==
  /\ work[w].pc = "read"
  /\ Admits(num[work[w].counter])
  /\ Ends(w)
  /\ UNCHANGED <<now, rateVars, counterMap, num, calls, periods>>

\* clean_limit: a new map of counters; a period may have any length.
CleanLimit ==
  /\ periods < MaxPeriod /\ periods' = periods + 1
  /\ counterMap' = Nil /\ admitted' = 0
  /\ UNCHANGED <<now, work, rateVars, num, calls>>

Next ==
  \/ Tick \/ Look \/ Delete \/ CleanLimit
  \/ \E w \in Worker :
       \/ Load(w) \/ Touch(w) \/ \E l \in Limiter : LoadOrStore(w, l)
       \/ Allow(w) \/ Deny(w)
       \/ LoadCounter(w) \/ AddInt32(w) \/ LoadInt32(w)
       \/ \E c \in Counter : StoreCounter(w, c)

Spec == Init /\ [][Next]_vars

-----------------------------------------------------------------------------
(* Properties.                                                             *)

Work == [pc : Stage, at : Nat, limiter : Limiter \cup {Nil}, counter : Counter \cup {Nil}]

\* The variables have their types, and no bucket holds more than its burst.
TypeOK ==
  /\ now \in Nat /\ work \in [Worker -> Work]
  /\ limiterMap \in Limiter \cup {Nil} /\ cleaner \in Nat \cup {Nil}
  /\ tokens \in [Limiter -> 0..Burst] /\ lastUsed \in [Limiter -> Nat]
  /\ debt \in Nat /\ raced \in BOOLEAN
  /\ counterMap \in Counter \cup {Nil} /\ num \in [Counter -> Nat]
  /\ admitted \in Nat /\ calls \in Nat /\ periods \in Nat

\* What a key is allowed at once, beyond what Rate makes up for, is one burst:
\* there is one limiter for a key, and the cleaner deletes it when it would be
\* full anyway (getLimiter, startLimiterCleaner).  If the cleaner deletes one in
\* use, it is two, and what the first gets while a request still holds it.
RateKept == debt <= IF raced THEN 2 * Burst + Rate * Delay ELSE Burst

\* In a period no more messages than Limit are let through, and two for each
\* goroutine: those that found no counter at first go uncounted, and those that
\* hold a counter of the period before count there (GetLimit, clean_limit).
CountKept == admitted <= Limit + 2 * Cardinality(Worker)
=============================================================================
