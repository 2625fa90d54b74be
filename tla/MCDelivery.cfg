\* Two webhook requests, two requests that send and retry, three accepted sends.
SPECIFICATION Spec
CONSTANTS
  Handlers = {h1, h2}
  Senders = {s1, s2}
  MaxSends = 3
  CanCrash = TRUE
INVARIANTS
  ShownDeliveredIsTrue
  DeliveredNotResent
PROPERTIES
  DeliveredOnlyForward
\* The channel may have told everything there is to tell.
CHECK_DEADLOCK FALSE
