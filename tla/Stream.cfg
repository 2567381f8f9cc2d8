SPECIFICATION Spec
CONSTANTS
  c1 = c1
  c2 = c2
  c3 = c3
  None = None
  Clients = {c1, c2}
  Names = {"user", "user1"}
  UserOf <- MCUserOf
  CutNames <- MCCutNames
  ShellFate <- MCShellFate
  Lingers = {c2}
  MaxBoots = 1
  Backlog = 1
INVARIANTS
  TypeOK
  AtMostOnce
  AllowedOnly
  DeniedNeverRan
  OwnOutputUntilCrash
  TmpCleanUntilCrash
  NoConnLeak
  LateAtMostOne
  EofIsEmptyUntilCrash
PROPERTIES
  StopDrains
  ImplementsService
  ClientsEnd
CHECK_DEADLOCK FALSE
