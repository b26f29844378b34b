\* Two messages at a time, a server or a file, one change of what is published, and
\* two replacements of the map within the clock.
SPECIFICATION Spec
CONSTANTS
  k1 = k1  k2 = k2  p = p  q = q
  Key = {k1, k2}
  Digest = {p, q}
  Version <- MCVersion
  Worker = {v, w}
  Entry = {e1, e2, e3}
  Nil = Nil
  Renew = 1
  Hour = 2
  Reload = 1
  Delay = 1
  MaxTime = 5
  MaxChange = 1
CHECK_DEADLOCK FALSE
CONSTRAINT Followed
VIEW View
SYMMETRY Alike
INVARIANTS TypeOK KeyRecent
PROPERTIES AcceptedFresh StandingAccepted
