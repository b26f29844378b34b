\* One neighbour, two overlapping checks, one sender, one request at a time.
SPECIFICATION FairSpec
CONSTANTS
  t1 = t1  t2 = t2  a1 = a1
  None = None
  Token = {t1}
  Addr = {a1}
  Sender = {s1}
  Slot = {c1, c2}
  Request = {q1}
  Initial <- MCInitial
  FileOK = TRUE
  FirstRounds = 2
  MaxFail = 1
  Rounds <- MCRounds
CHECK_DEADLOCK FALSE
INVARIANTS TypeOK DeadIsQueued MarkHasCheck
PROPERTIES Recovers Detects
