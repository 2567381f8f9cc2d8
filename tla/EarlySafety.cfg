SPECIFICATION Spec
CONSTANTS
  c1 = c1
  c2 = c2
  None = None
  Clients = {c1, c2}
  Allowed = {c1}
  Quoting = {c1}
  MaxCopies = 2
  Versions = {"server1", "quoted", "daemon"}
  Limits = {1, 2, 3}
  MaxBoots = 2
  MaxFails = 1
INVARIANTS
  TypeOK
  AtMostOnce
  NeverInPart
  CodeZeroMeansDone
  RefusalExplained
  ConnsAccounted
  LeaksBounded
  AcceptStaysPossible
PROPERTIES
  ImplementsService
  ClientsEnd
CHECK_DEADLOCK FALSE
