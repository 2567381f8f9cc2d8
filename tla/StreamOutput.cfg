SPECIFICATION Spec
CONSTANTS
  c1 = c1
  c2 = c2
  c3 = c3
  None = None
  Clients = {c1, c2}
  Names = {"user", "user1"}
  UserOf <- MCOneUser
  CutNames <- MCNoCuts
  ShellFate <- MCShellFate
  Lingers = {c2}
  MaxBoots = 2
  Backlog = 1
INVARIANT OwnOutput
CHECK_DEADLOCK FALSE
