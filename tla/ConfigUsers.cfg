SPECIFICATION Spec
CONSTANTS
  Words <- MCWords
  Number <- MCNumber
  Cut16 <- MCCut16
  Cut32 <- MCCut32
  PortLike = {"port", "report"}
  StreamLike = {"stream", "stream_of_bytes", "stream_of_bytes_x"}
  DgramLike = {"dgram"}
  Addresses = {"127.0.0.1"}
  MaxUsers = 3
  Lines <- MCLines
  MaxLines = 3
INVARIANTS
  ListedIsAllowed
CHECK_DEADLOCK FALSE
