----------------------------- MODULE MCKeyCache -----------------------------
(* An author who changes the main key and adds or withdraws a posting key. *)
EXTENDS KeyCache, TLC

CONSTANTS k1, k2, p, q

Records(k, d) == [key |-> k, des |-> d]
MCVersion == {Records(k1, {p}), Records(k2, {p, q})}

\* Once excused, a behaviour is not followed any further.
Followed == ~excused

\* What a struct holds that nobody uses any more makes no difference.
View == <<now, local, zone, mtime, dns, cache,
          [e \in Entry |-> IF InUse(e) THEN heap[e] ELSE Nil],
          work, resetAt, from, upto, excused, changes>>
Alike == Permutations(Worker) \cup Permutations(Entry)
=============================================================================
