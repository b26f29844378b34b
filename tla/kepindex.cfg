\* Two messages with one prefix, two tags, one reader, a cut line, a crash; with
\* MaxLines = 1 a file holds up to two lines behind a torn one.
SPECIFICATION Spec
CONSTANTS
  h1 = h1  h2 = h2  p0 = p0  s0 = s0
  None = None
  Hash = {h1, h2}
  Tag = {0, 3}
  Prefix = {p0}
  PrefixOf <- MCPrefixOf
  Slot = {s0}
  SlotOf <- MCSlotOf
  Reader = {r1}
  Arrives <- MCArrives
  MaxTagNum = 2
  MaxLines = 1
  MaxFault = 1
  MaxCrash = 1
CHECK_DEADLOCK FALSE
INVARIANTS TypeOK AnswerExists ListedIsFound NewestFirst
PROPERTIES ImplementsLookup
