SPECIFICATION Spec
CONSTANTS
  ann = ann
  bob = bob
  cai = cai
  Users = {ann, bob, cai}
  None = None
  StartRole <- MCStartRole
  Browsers = {b1}
  Shared = {cai}
  MaxLinks = 1
  Offered = {"OWNER", "ADMINISTRATOR"}
  Recruits = {cai}
  Requests = {r1, r2}
  MaxRequests = 2
  MaxDeaths = 1
SYMMETRY Alike
INVARIANTS
  OwnerRemains
  AuditChain
PROPERTIES
  NeverGuesses
  OnlyTheActiveAct
\* Overlapping removals may leave no active user at all (see OwnerRemains).
CHECK_DEADLOCK FALSE
