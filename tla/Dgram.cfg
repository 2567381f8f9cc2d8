SPECIFICATION Spec
CONSTANTS
  c1 = c1
  c2 = c2
  None = None
  Clients = {c1, c2}
  Names = {"user", "user1"}
  UserOf <- MCUserOf
  CutNames <- MCCutNames
  ShellFate <- MCShellFate
  Lingers = {}
  MaxBoots = 1
  Ports = {4001}
  MaxCopies = 2
INVARIANTS
  TypeOK
  AllowedOnly
  OncePerCopy
  OwnOutputUntilCrash
PROPERTIES
  ImplementsService
  StopDrains
  TakenUpIsAnswered
CHECK_DEADLOCK FALSE
