\* Four nodes with two ways to one of them and a circle; a public message whose TTL
\* just suffices, a private one or one with a bad TTL, resets at any time, and a
\* resend, a crash or the message growing old.
SPECIFICATION FairSpec
CONSTANTS
  a = a  b = b  c = c  d = d
  pub = pub  priv = priv  odd = odd
  kab = kab  kac = kac  kbc = kbc  kcd = kcd  kda = kda
  Node = {a, b, c, d}
  Msg = {pub, priv, odd}
  Private = {priv}
  Skip = Skip  web = web
  Client = {Skip, web}
  Key = {Skip, web, kab, kac, kbc, kcd, kda}
  Author <- MCAuthor
  TTL0 <- MCTTL0
  Nextloop <- MCNextloop
  Auth <- MCAuth
  Dist <- MCDist
  MaxPost = 1
  MaxEvent = 1
CHECK_DEADLOCK FALSE
INVARIANTS TypeOK HopBudget PrivateSpread Delivered
PROPERTIES Stops Reaches ImplementsFlood
