--------------------------- MODULE MessageStatus ---------------------------
(***************************************************************************)
(* The MessageStatus life cycle shared by every message flow: the eight    *)
(* values of the column, the table of forward transitions, and the test    *)
(* every service makes, in memory, before it writes a status.              *)
(***************************************************************************)

Status == {"QUEUED", "PENDING", "SENDING", "SENT", "DELIVERED", "READ",
           "FAILED", "DEAD_LETTER"}

VALID_TRANSITIONS ==
  [QUEUED      |-> {"PENDING", "SENT", "FAILED"},
   PENDING     |-> {"SENDING", "SENT", "QUEUED", "FAILED", "DELIVERED"},
   SENDING     |-> {"SENT", "QUEUED", "FAILED"},
   SENT        |-> {"DELIVERED", "FAILED"},
   DELIVERED   |-> {"READ"},
   READ        |-> {},
   FAILED      |-> {"PENDING", "DEAD_LETTER"},
   DEAD_LETTER |-> {"PENDING"}]

\* A same-status "transition" is always allowed; assertValidTransition throws
\* a ConflictError exactly when this is false.
CanTransition(from, to) == from = to \/ to \in VALID_TRANSITIONS[from]

\* What failureClassifier.ts tells apart.
FailureClassification == {"transient", "permanent"}
=============================================================================
