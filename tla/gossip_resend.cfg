\* A private message, and a neighbour whose operator resends it.
SPECIFICATION Spec
CONSTANTS
  a = a  b = b  c = c  d = d
  pub = pub  priv = priv  odd = odd
  kab = kab  kac = kac  kbc = kbc  kcd = kcd  kda = kda
  Node = {a, b, c, d}
  Msg = {priv}
  Private = {priv}
  Skip = Skip  web = web
  Client = {Skip, web}
  Key = {Skip, web, kab, kac, kbc, kcd, kda}
  Author <- MCAuthor
  TTL0 <- MCTTL0
  Nextloop <- MCNextloop
  Auth <- MCAuth
  Dist <- MCDist
  MaxPost = 1
  MaxEvent = 1
CHECK_DEADLOCK FALSE
INVARIANT PrivateNotForwarded
