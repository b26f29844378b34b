\* A reply that overtakes its topic.
SPECIFICATION Spec
CONSTANTS
  topic = topic  reply = reply  edit = edit  forged = forged
  alice = alice  bob = bob
  None = None
  Local = Local
  Worker = {w1}
  Hash = {topic, reply}
  Author = {alice, bob}
  Post <- MCPost
  Arrives = {0}
  Token = {n1}
  MaxTag = 15
  Window = 1
  Period = 1
  MaxTime = 0
  MaxCrash = 0
CHECK_DEADLOCK FALSE
PROPERTY RefusedExists
