SPECIFICATION FairSpec
CONSTANTS
  Numbers = {"n1", "n2"}
  Limit = 1
  MaxUpsets = 3
INVARIANTS
  RevokedStaysDisabled
  DisconnectedIsTrue
PROPERTY
  RevokedAppStops
\* A revoked phone, for which nobody enters a new token, is at rest.
CHECK_DEADLOCK FALSE
