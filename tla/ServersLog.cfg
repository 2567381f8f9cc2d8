SPECIFICATION Spec
CONSTANTS
  p1 = p1
  p2 = p2
  r1 = r1
  r2 = r2
  r3 = r3
  None = None
  Procs = {p1, p2}
  Requests = {}
  Modes <- MCModes
  Msgs <- MCMsgs
  MaxTime = 1
  MaxLines = 6
  MaxLost = 0
  MaxSpins = 1
INVARIANTS
  LogTellsStory
  DisorderIsOverlap
CHECK_DEADLOCK FALSE
