SPECIFICATION ServingSpec
CONSTANTS
  Ids = {s1}
  Agents = {a1}
  NoId = NoId
  Uncertain = TRUE
  MaxClients = 1
  MaxExits = 1
  MaxFaults = 3
INVARIANTS
  TypeOK QueuedOnce ResumeFindsWork NoMissedWakeup
PROPERTIES
  KeepsDelivery SessionsAreAnswered
CHECK_DEADLOCK FALSE
