\* Two handlers of ban and unban, two suffixes, a neighbour beside the local token,
\* with a URL or without, one restart.
SPECIFICATION FairSpec
CONSTANTS
  None = None
  Local = Local
  Suffix = {"x", "y"}
  Token = {"t"}
  Url = {"", "u"}
  Banner = {b1, b2}
  MaxCrash = 1
CHECK_DEADLOCK FALSE
INVARIANTS TypeOK NoLostBan
PROPERTIES BansSaved NeighboursSaved ImplementsDenyList
