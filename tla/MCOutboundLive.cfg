\* One agent and the worker, no crashes: what fair scheduling guarantees.
SPECIFICATION FairSpec
CONSTANTS
  Users = {u1}
  Workers = {w1}
  MaxAttempts = 1
  Channel = "WHATSAPP"
  CanCrash = FALSE
PROPERTIES
  FailedIsPickedUp
  SendingResolves
\* A message that was sent, with every request over, is at rest.
CHECK_DEADLOCK FALSE
