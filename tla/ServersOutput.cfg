SPECIFICATION Spec
CONSTANTS
  p1 = p1
  p2 = p2
  r1 = r1
  r2 = r2
  r3 = r3
  None = None
  Procs = {p1, p2}
  Requests = {r1, r2, r3}
  Modes <- MCModes
  Msgs <- MCMsgs
  MaxTime = 0
  MaxLines = 0
  MaxLost = 0
  MaxSpins = 0
INVARIANTS
  TypeOK
  OverlapExplainsOutput
  SpinnerHadWinner
PROPERTIES
  StopOrBlocked
CHECK_DEADLOCK FALSE
