\* Two goroutines, a topic, a reply and an edit, disk errors, a crash, a reset.
SPECIFICATION Spec
CONSTANTS
  topic = topic  reply = reply  edit = edit  forged = forged
  alice = alice  bob = bob
  None = None
  Local = Local
  Worker = {w1, w2}
  Hash = {topic, reply, edit, forged}
  Author = {alice, bob}
  Post <- MCPost
  Arrives = {0, 65534}
  Token = {n1}
  MaxTag = 15
  Window = 1
  Period = 1
  MaxTime = 1
  MaxCrash = 1
CHECK_DEADLOCK FALSE
SYMMETRY Workers
INVARIANTS TypeOK IndexClosed EditsByAuthor ForwardedIsStored DuplicatesOverlap
PROPERTY ImplementsForum
