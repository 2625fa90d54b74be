\* Two deliveries and two agents' retries, two languages, one edit, with crashes.
SPECIFICATION FairSpec
CONSTANTS
  Webhooks = {w1, w2}
  Users = {u1, u2}
  Langs = {en, fr}
  Null = Null
  Detections = {fr}
  Glossaries = {en}
  MaxEdits = 1
  CanCrash = TRUE
INVARIANTS
  AckedIsStored
  WebhooksTranslateOnce
  TermsOfItsLanguage
PROPERTIES
  DeliveredIsFinal
  PendingResolves
\* An answered message with no request under way is at rest.
CHECK_DEADLOCK FALSE
