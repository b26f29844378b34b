------------------------------ MODULE MCLimits ------------------------------
(* What distinguishes no two states of Limits: what is in a limiter or a
   counter nobody uses any more, and which of the rooms on the heap is taken. *)
EXTENDS Limits, TLC

View == <<now, limiterMap, cleaner, counterMap, work, debt, raced,
          admitted, calls, periods,
          [l \in Limiter |-> IF LimiterInUse(l) THEN <<tokens[l], lastUsed[l]>> ELSE <<>>],
          [c \in Counter |-> IF CounterInUse(c) THEN num[c] ELSE 0]>>
Alike == Permutations(Worker) \cup Permutations(Limiter) \cup Permutations(Counter)
=============================================================================
