\* Two agents (or one agent twice) and one worker pass, with crashes.
SPECIFICATION Spec
CONSTANTS
  Users = {u1, u2}
  Workers = {w1}
  MaxAttempts = 1
  Channel = "TELEGRAM"
  CanCrash = TRUE
SYMMETRY UserSymmetry
VIEW Relevant
INVARIANTS
  ExclusiveOwner
  NoDuplicateDelivery
  RawTextOnlyFromRawDraft
  RetryOvershootBounded
PROPERTIES
  DeliversAsPromised
\* A message that was sent, with every request over, is at rest.
CHECK_DEADLOCK FALSE
