\* The token file could not be read at the start.
SPECIFICATION FairSpec
CONSTANTS
  t1 = t1  t2 = t2  a1 = a1
  None = None
  Token = {t1}
  Addr = {a1}
  Sender = {s1}
  Slot = {c1}
  Request = {q1}
  Initial = {}
  FileOK = FALSE
  FirstRounds = 1
  MaxFail = 1
  Rounds <- MCRounds
CHECK_DEADLOCK FALSE
PROPERTY Recovers
