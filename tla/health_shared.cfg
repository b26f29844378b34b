\* Two tokens for the same address; one is deleted.
SPECIFICATION Spec
CONSTANTS
  t1 = t1  t2 = t2  a1 = a1
  None = None
  Token = {t1, t2}
  Addr = {a1}
  Sender = {s1}
  Slot = {c1}
  Request = {q1}
  Initial <- MCInitial
  FileOK = TRUE
  FirstRounds = 1
  MaxFail = 1
  Rounds <- MCRounds
CHECK_DEADLOCK FALSE
INVARIANT NeighbourTracked
