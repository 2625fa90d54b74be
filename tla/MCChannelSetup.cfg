SPECIFICATION Spec
CONSTANTS
  Requests = {"r1", "r2", "r3", "w1", "w2"}
  Numbers = {"n1", "n2", "n3"}
  Bots = {"b1", "b2"}
  Updates = {"u1", "u2"}
  None = None
  MaxAtOnce = 2
  AppOf <- MCAppOf
  OrgOf <- MCOrgOf
  AccountOf <- MCAccountOf
  SentTo <- MCSentTo
INVARIANTS
  ActiveMeansRegistered
  OneAccountPerOrg
  ServedByBotOrApp
