\* Two report handlers at once, one automatic retry, one crash of the phone.
SPECIFICATION GatewayFairSpec
CONSTANTS
  Handlers = {h1, h2}
  MaxAttempts = 1
  MaxCrashes = 1
  NoHandler = NoHandler
INVARIANTS
  SentMeansSent
  NoRepeatedSms
PROPERTIES
  SentIsFinal
  QueuedResolves
