\* Two requests at a time, the cleaner, one replacement of the counters: time for a
\* limiter to fall idle, and calls enough to use a counter up.
SPECIFICATION Spec
CONSTANTS
  Worker = {v, w}
  Limiter = {l1, l2, l3}
  Counter = {c1, c2, c3}
  Nil = Nil
  Burst = 2
  Rate = 1
  Idle = 7
  Delay = 1
  Limit = 1
  MaxTime = 9
  MaxCall = 7
  MaxPeriod = 1
CHECK_DEADLOCK FALSE
VIEW View
SYMMETRY Alike
INVARIANTS TypeOK RateKept CountKept
