SPECIFICATION Spec
CONSTANTS
  c1 = c1
  c2 = c2
  None = None
  Clients = {c1, c2}
  Names = {"user", "user1"}
  UserOf <- MCUserOf
  CutNames <- MCCutNames
  ShellFate <- MCShellFate
  Lingers = {}
  MaxBoots = 1
  Ports = {4001, 4002}
  MaxCopies = 1
INVARIANT OwnAnswer
CHECK_DEADLOCK FALSE
