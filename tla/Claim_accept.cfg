SPECIFICATION Spec
CONSTANTS
  Ids = {s1}
  Agents = {a1}
  NoId = NoId
  Uncertain = FALSE
  MaxClients = 1
  MaxExits = 1
  MaxFaults = 0
INVARIANT
  UnacknowledgedIsDurable
CHECK_DEADLOCK FALSE
