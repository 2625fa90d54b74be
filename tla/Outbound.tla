------------------------------ MODULE Outbound ------------------------------
(***************************************************************************)
(* The outbound life cycle of one message row (outboundService.ts,         *)
(* retryQueue.ts, failureTransition.ts, the writes of messageRepository.ts)*)
(* under any number of concurrent requests.                                *)
(*                                                                         *)
(* Rows never share state, so the module follows one row.  A request is a  *)
(* server invocation: a Server Action of a user, or a pass of the retry    *)
(* worker.  Requests run on any number of server instances and meet only   *)
(* in the database, so each action below is one database statement or one  *)
(* answer of an external service, and pc[r] is the await at which request  *)
(* r is suspended.                                                         *)
(***************************************************************************)
EXTENDS ChannelAdapters, FiniteSets

CONSTANTS
  Users,        \* requests made by agents: compose, confirm, edit, manual retry
  Workers,      \* passes of the automatic retry worker
  MaxAttempts,  \* DEFAULT_RETRY_POLICY.maxAttempts
  Channel,      \* the channel of the conversation
  CanCrash      \* whether a server instance may die between two steps

ASSUME RequestsAssumption == Users \cap Workers = {} /\ IsFiniteSet(Users \cup Workers)
ASSUME MaxAttemptsAssumption == MaxAttempts \in Nat \ {0}
ASSUME ChannelAssumption == Channel \in Channels
ASSUME CanCrashAssumption == CanCrash \in BOOLEAN

VARIABLES
  \* --- the database ---
  status,       \* Message.status, "ABSENT" before the insert
  text,         \* Message.translatedText: none (null), machine, edited
  retries,      \* number of retry_scheduled events of the message
  due,          \* the latest retry_scheduled event, if any, lies in the past
  lastFailure,  \* classification in the latest failed/translation_failed event
  \* --- the requests ---
  pc,           \* where each request is suspended
  seen,         \* the row as the request last read it
  \* --- the clients ---
  offered,      \* a client was answered DRAFT and shows the "Confirm & send" view
  \* --- history ---
  overwritten,  \* an UPDATE without a status predicate replaced a status its
                \* author did not expect to find
  accepted,     \* times the channel really accepted the message (2 means "2 or more")
  ambiguous,    \* an accepted call was reported to the caller as an error
  rawDraft,     \* a DRAFT was answered while translatedText was still null
  rawSent       \* the adapter was given originalText

row     == <<status, text, retries, due, lastFailure>>
history == <<overwritten, accepted, ambiguous, rawDraft, rawSent>>
vars    == <<row, pc, seen, offered, history>>

Requests == Users \cup Workers
Text     == {"none", "machine", "edited"}
Accepted == Answered(Channel)

\* How a refused message, one that was taken all the same, and a failed translation
\* are classified.
RefusedAs      == {ClassifyAdapterFailure(e) : e \in SendMessage(Channel, FALSE)}
LostAs         == {ClassifyAdapterFailure(e) : e \in SendMessage(Channel, TRUE)}
UntranslatedAs == {ClassifyTranslationFailure(e) : e \in Translate}

NoRow    == [status |-> "ABSENT", text |-> "none"]
Labels   == {"idle", "translate", "translateDraft", "confirm", "claim", "claimed",
             "call", "accepted", "schedule", "insertRetry", "bury",
             "retry", "retryRead", "edit"}

FlagsOK ==
  /\ due \in BOOLEAN /\ offered \in BOOLEAN
  /\ overwritten \in BOOLEAN /\ ambiguous \in BOOLEAN
  /\ rawDraft \in BOOLEAN /\ rawSent \in BOOLEAN

\* The row, the requests' program counters and their copies of the row are
\* well-formed.
TypeOK ==
  /\ status \in Status \cup {"ABSENT"}
  /\ text \in Text
  /\ retries \in Nat
  /\ lastFailure \in FailureClassification \cup {"none"}
  /\ pc \in [Requests -> Labels]
  /\ seen \in [Requests -> [status : Status \cup {"ABSENT"}, text : Text]]
  /\ accepted \in 0..2
  /\ FlagsOK

Init ==
  /\ status = "ABSENT" /\ text = "none"
  /\ retries = 0 /\ due = TRUE /\ lastFailure = "none"
  /\ pc = [r \in Requests |-> "idle"]
  /\ seen = [r \in Requests |-> NoRow]
  /\ offered = FALSE
  /\ overwritten = FALSE /\ accepted = 0 /\ ambiguous = FALSE
  /\ rawDraft = FALSE /\ rawSent = FALSE

-----------------------------------------------------------------------------
(* Suspending and ending a request.                                          *)

\* The request goes on without using the row it had read.
Goto(r, label) ==
  /\ pc' = [pc EXCEPT ![r] = label]
  /\ seen' = [seen EXCEPT ![r] = NoRow]

Return(r) == Goto(r, "idle")

\* The findByIdInOrgOrThrow that ends create and claimForTransition: what the
\* request goes on with is the row at that moment, not the row it wrote.
Reread(r, label) ==
  /\ pc' = [pc EXCEPT ![r] = label]
  /\ seen' = [seen EXCEPT ![r] = [status |-> status, text |-> text]]

(* The writes of messageRepository.                                          *)

\* Mutant: the check stays in application memory, the UPDATE has no predicate.
ClaimForTransition_NoPredicate(from, to) == status' = to

\* UPDATE ... WHERE id = .. AND status IN from: the row moves only for a caller
\* that finds it in one of these statuses.
ClaimForTransition(from, to) == status \in from /\ status' = to

\* UPDATE ... WHERE id = ..: no status predicate.  "expected" is the status the
\* caller relies on the row still having; the statement does not look at it.
UpdateStatus(expected, to) ==
  /\ status' = to
  /\ overwritten' = (overwritten \/ status # expected)

\* Mutant: one attempt too many.
NextRetryDecision_TooLate(previousAttempts) ==
  IF previousAttempts > MaxAttempts THEN "DEAD_LETTER" ELSE "PENDING"

\* retryQueue.nextRetryDecision
NextRetryDecision(previousAttempts) ==
  IF previousAttempts + 1 > MaxAttempts THEN "DEAD_LETTER" ELSE "PENDING"

\* outcomeFromStatus: which statuses a client is told is a DRAFT.
IsDraftOutcome(s) == s \in {"PENDING", "SENDING"}

-----------------------------------------------------------------------------
(* sendMessage                                                               *)

\* Steps 1-3: the row is stored PENDING before the translation is attempted.
InsertMessage(r, review) ==
  /\ pc[r] = "idle" /\ r \in Users
  /\ status = "ABSENT"
  /\ status' = "PENDING"
  /\ pc' = [pc EXCEPT ![r] = IF review THEN "translateDraft" ELSE "translate"]
  /\ seen' = [seen EXCEPT ![r] = [status |-> "PENDING", text |-> "none"]]
  /\ UNCHANGED <<text, retries, due, lastFailure, offered, history>>

\* P2002 on idempotencyKey: the same compose submitted again is answered with
\* the row as it stands, whatever the first submission is still doing with it.
ReturnExisting(r) ==
  /\ pc[r] = "idle" /\ r \in Users
  /\ IsDraftOutcome(status)
  /\ offered' = TRUE
  /\ rawDraft' = (rawDraft \/ text = "none")
  /\ UNCHANGED <<row, pc, seen, overwritten, accepted, ambiguous, rawSent>>

Translating(r) == pc[r] \in {"translate", "translateDraft"}

\* engine.translate answered: updateTranslationResult writes the text and the
\* status PENDING, without a predicate on either.
StoreTranslation(r) ==
  /\ Translating(r)
  /\ status' = "PENDING"
  /\ text' = "machine"
  /\ overwritten' = (overwritten \/ status # "PENDING" \/ text # "none")
  /\ IF pc[r] = "translateDraft"
       THEN offered' = TRUE /\ Return(r)
       ELSE UNCHANGED offered /\ Goto(r, "confirm")
  /\ UNCHANGED <<retries, due, lastFailure, accepted, ambiguous, rawDraft, rawSent>>

-----------------------------------------------------------------------------
(* transitionToFailed and finalizeFailure, shared by both failure handlers    *)

\* The check is made on the request's own copy of the row; the write is not
\* conditional.  A transient failure goes on to schedule a retry.
TransitionToFailed(r, expected, classification) ==
  IF CanTransition(seen[r].status, "FAILED")
    THEN /\ UpdateStatus(expected, "FAILED")
         /\ lastFailure' = classification
         /\ IF classification = "transient" THEN Goto(r, "schedule") ELSE Return(r)
    ELSE /\ Return(r)
         /\ UNCHANGED <<status, overwritten, lastFailure>>

\* engine.translate threw: handleTranslationFailure.
TranslationFails(r, classification) ==
  /\ Translating(r)
  /\ classification \in UntranslatedAs
  /\ TransitionToFailed(r, "PENDING", classification)
  /\ UNCHANGED <<text, retries, due, offered, accepted, ambiguous, rawDraft, rawSent>>

\* scheduleNextRetry counts the retry_scheduled events ...
CountRetries(r) ==
  /\ pc[r] = "schedule"
  /\ Goto(r, IF NextRetryDecision(retries) = "DEAD_LETTER" THEN "bury" ELSE "insertRetry")
  /\ UNCHANGED <<row, offered, history>>

\* ... and then inserts the next one, ...
InsertRetryScheduled(r) ==
  /\ pc[r] = "insertRetry"
  /\ retries' = retries + 1
  /\ due' = FALSE
  /\ Return(r)
  /\ UNCHANGED <<status, text, lastFailure, offered, history>>

\* ... or gives up.
MoveToDeadLetter(r) ==
  /\ pc[r] = "bury"
  /\ UpdateStatus("FAILED", "DEAD_LETTER")
  /\ Return(r)
  /\ UNCHANGED <<text, retries, due, lastFailure, offered, accepted, ambiguous,
                 rawDraft, rawSent>>

-----------------------------------------------------------------------------
(* confirmAndSend                                                            *)

\* A client that was answered DRAFT confirms it; nothing else calls the Server
\* Action, and a second click may call it again.
Confirm(r) ==
  /\ pc[r] = "idle" /\ r \in Users
  /\ offered
  /\ Goto(r, "confirm")
  /\ UNCHANGED <<row, offered, history>>

\* The fast-path test: ConflictError without a write unless the row reads PENDING.
CheckSendable(r) ==
  /\ pc[r] = "confirm"
  /\ IF status = "PENDING" THEN Goto(r, "claim") ELSE Return(r)
  /\ UNCHANGED <<row, offered, history>>

\* No identity links the contact to this channel (any more): NotFoundError.
NoIdentity(r) ==
  /\ pc[r] = "claim"
  /\ Return(r)
  /\ UNCHANGED <<row, offered, history>>

SendableStatus == {"PENDING"}

ClaimSend(r) ==
  /\ pc[r] = "claim"
  /\ \/ ClaimForTransition(SendableStatus, "SENDING") /\ Goto(r, "claimed")
     \/ status \notin SendableStatus /\ Return(r) /\ UNCHANGED status
  /\ UNCHANGED <<text, retries, due, lastFailure, offered, history>>

RereadClaimed(r) ==
  /\ pc[r] = "claimed"
  /\ Reread(r, "call")
  /\ UNCHANGED <<row, offered, history>>

\* The channel takes the message (translatedText ?? originalText); its answer
\* is still on the way.
AdapterAccepts(r) ==
  /\ pc[r] = "call"
  /\ accepted' = IF accepted < 2 THEN accepted + 1 ELSE 2
  /\ rawSent' = (rawSent \/ seen[r].text = "none")
  /\ pc' = [pc EXCEPT ![r] = "accepted"]
  /\ UNCHANGED <<row, seen, offered, overwritten, ambiguous, rawDraft>>

\* Mutant: a permanent refusal is rethrown before it is recorded.
SendFails_Rethrown(r, classification) ==
  /\ pc[r] = "call" /\ classification = "permanent"
  /\ Return(r)
  /\ UNCHANGED <<row, offered, history>>

\* adapter.sendMessage threw: handleSendFailure.  Either the channel refused, or it
\* accepted and the answer was lost or had no id of a message.
SendFails(r, classification) ==
  /\ \/ pc[r] = "call" /\ classification \in RefusedAs
     \/ pc[r] = "accepted" /\ classification \in LostAs
  /\ ambiguous' = (ambiguous \/ pc[r] = "accepted")
  /\ TransitionToFailed(r, "SENDING", classification)
  /\ UNCHANGED <<text, retries, due, offered, accepted, rawDraft, rawSent>>

\* The answer arrived: assertValidTransition on the copy, then the plain update.
RecordSendResult(r) ==
  /\ pc[r] = "accepted"
  /\ IF CanTransition(seen[r].status, Accepted)
       THEN UpdateStatus("SENDING", Accepted)
       ELSE UNCHANGED <<status, overwritten>>
  /\ Return(r)
  /\ UNCHANGED <<text, retries, due, lastFailure, offered, accepted, ambiguous,
                 rawDraft, rawSent>>

-----------------------------------------------------------------------------
(* retryMessage, called by the retry button and by runRetryWorkerOnce         *)

\* Mutants: the retry also rescues rows stuck in SENDING; it also resends.
RetryableStatus_Stuck == {"FAILED", "DEAD_LETTER", "SENDING"}
RetryableStatus_Resend == {"FAILED", "DEAD_LETTER", Accepted}

RetryableStatus == {"FAILED", "DEAD_LETTER"}

\* The button is shown on a message that has failed for good.
RetryManually(r) ==
  /\ pc[r] = "idle" /\ r \in Users
  /\ status \in RetryableStatus
  /\ Goto(r, "retry")
  /\ UNCHANGED <<row, offered, history>>

\* Mutant: the pass leaves out a row whose last attempt has been scheduled.
IsDue_BelowCap == due /\ retries < MaxAttempts

\* runRetryWorkerOnce's isDue: the latest schedule has passed, or there is none.
IsDue == due

\* The pass takes its snapshot of FAILED rows and decides from it; the retry
\* itself comes later.
WorkerPass(r) ==
  /\ pc[r] = "idle" /\ r \in Workers
  /\ status = "FAILED"
  /\ IsDue
  /\ Goto(r, "retry")
  /\ UNCHANGED <<row, offered, history>>

ClaimRetry(r) ==
  /\ pc[r] = "retry"
  /\ \/ ClaimForTransition(RetryableStatus, "PENDING") /\ Goto(r, "retryRead")
     \/ status \notin RetryableStatus /\ Return(r) /\ UNCHANGED status
  /\ UNCHANGED <<text, retries, due, lastFailure, offered, history>>

\* Mutant: the retry goes straight to the send step.
RereadRetried_Untranslated(r) ==
  /\ pc[r] = "retryRead"
  /\ Reread(r, "confirm")
  /\ UNCHANGED <<row, offered, history>>

\* A row that never got its translation is translated first.
RereadRetried(r) ==
  /\ pc[r] = "retryRead"
  /\ Reread(r, IF text = "none" THEN "translate" ELSE "confirm")
  /\ UNCHANGED <<row, offered, history>>

-----------------------------------------------------------------------------
(* recordTranslationEdit: a read that checks PENDING, then a plain update.    *)

EditDraft(r) ==
  /\ pc[r] = "idle" /\ r \in Users
  /\ offered /\ status = "PENDING"
  /\ Goto(r, "edit")
  /\ UNCHANGED <<row, offered, history>>

MarkTranslationEdited(r) ==
  /\ pc[r] = "edit"
  /\ text' = "edited"
  /\ overwritten' = (overwritten \/ status # "PENDING")
  /\ Return(r)
  /\ UNCHANGED <<status, retries, due, lastFailure, offered, accepted, ambiguous,
                 rawDraft, rawSent>>

-----------------------------------------------------------------------------
(* The environment: scheduledFor passes; a server instance dies.              *)

ScheduledTimePasses ==
  /\ ~due
  /\ due' = TRUE
  /\ UNCHANGED <<status, text, retries, lastFailure, pc, seen, offered, history>>

Crash(r) ==
  /\ CanCrash
  /\ pc[r] # "idle"
  /\ Return(r)
  /\ UNCHANGED <<row, offered, history>>

-----------------------------------------------------------------------------
\* The steps a request takes by itself once it has begun.
Step(r) ==
  \/ StoreTranslation(r)
  \/ \E c \in FailureClassification : TranslationFails(r, c)
  \/ CountRetries(r) \/ InsertRetryScheduled(r) \/ MoveToDeadLetter(r)
  \/ CheckSendable(r) \/ NoIdentity(r) \/ ClaimSend(r) \/ RereadClaimed(r)
  \/ AdapterAccepts(r)
  \/ \E c \in FailureClassification : SendFails(r, c)
  \/ RecordSendResult(r)
  \/ ClaimRetry(r) \/ RereadRetried(r)
  \/ MarkTranslationEdited(r)

\* The calls that begin a request.
Begin(r) ==
  \/ \E review \in BOOLEAN : InsertMessage(r, review)
  \/ ReturnExisting(r) \/ Confirm(r) \/ EditDraft(r) \/ RetryManually(r)
  \/ WorkerPass(r)

Next ==
  \/ \E r \in Requests : Begin(r) \/ Step(r) \/ Crash(r)
  \/ ScheduledTimePasses

Spec == Init /\ [][Next]_vars

\* A handler that has started runs to its end, the scheduler keeps calling the
\* worker, and time goes on.  Users promise nothing.
Fairness ==
  /\ \A r \in Requests : WF_vars(Step(r))
  /\ \A r \in Workers : WF_vars(WorkerPass(r))
  /\ WF_vars(ScheduledTimePasses)

FairSpec == Spec /\ Fairness

-----------------------------------------------------------------------------
(* Safety                                                                     *)

Owners == {r \in Requests : pc[r] \in {"claimed", "call", "accepted"}}

\* The claim before the adapter call makes its winner the only request that may
\* be talking to the channel, and the row stays SENDING until that request is
\* done -- as long as no update without a status predicate has landed on a
\* status its author did not expect (confirmAndSend's "exclusive owner").
ExclusiveOwner ==
  ~overwritten => /\ \A r, s \in Owners : r = s
                  /\ Owners # {} => status = "SENDING"

\* The contact receives a message at most once, whatever clicks, worker passes
\* and crashes overlap, unless such an overwrite happened or the channel
\* accepted a call it then reported as failed.
NoDuplicateDelivery == accepted > 1 => overwritten \/ ambiguous

\* originalText reaches the channel only if some client had been answered DRAFT
\* for a row whose translation was still missing: no retry, worker pass, crash
\* or double confirm alone can send the untranslated text.
RawTextOnlyFromRawDraft == rawSent => rawDraft

\* Counting and inserting retry_scheduled are two statements, so the cap can be
\* overrun, but by no more than one attempt for each other concurrent request.
RetryOvershootBounded == retries <= MaxAttempts + Cardinality(Requests) - 1

\* The phase of the message that a status stands for.
Phase ==
  CASE status = "ABSENT"      -> "none"
    [] status = "PENDING"     -> "open"
    [] status = "SENDING"     -> "sending"
    [] status = "FAILED"      -> "failed"
    [] status = "DEAD_LETTER" -> "givenUp"
    [] OTHER                  -> "delivered"

Promise == INSTANCE Delivery WITH
  phase     <- Phase,
  taken     <- accepted,
  attempts  <- retries,
  disturbed <- overwritten \/ ambiguous

\* Whatever requests and crashes overlap, the row goes through what Delivery allows:
\* one attempt at a time, taken once, never sent or retried again once it was taken,
\* given up only when the attempts are used up -- until an overwrite or an accepted
\* call that is reported as an error.
DeliversAsPromised == Promise!Spec

\* Every step that changes the status follows VALID_TRANSITIONS, also where the
\* code checks it against an old copy, unless that step overwrote a status its
\* author did not expect.
StatusFollowsLifecycle ==
  [][status # "ABSENT" /\ (overwritten' <=> overwritten) /\ ~overwritten
       => CanTransition(status, status')]_vars

\* A message the channel took is never offered for sending again: SENT (QUEUED)
\* is left only by an overwrite.
TakenIsFinal == [][status = Accepted /\ status' # Accepted => overwritten']_vars

\* Nobody gives a message up before its automatic attempts are used up, even
\* when several requests fail it at once.
DeadLetterOnlyAtCap ==
  [][status' = "DEAD_LETTER" /\ status # "DEAD_LETTER" => retries >= MaxAttempts]_vars

(* Liveness, when no server instance dies                                     *)

\* A message whose latest failure was transient is retried or given up.  The property
\* asks nothing about the permanent failures: IsDue has them retried as well, for want of
\* a schedule, though finalizeFailure's comment says they stay FAILED.
FailedIsPickedUp ==
  (status = "FAILED" /\ lastFailure = "transient") ~> (status # "FAILED")

\* SENDING only lasts as long as the adapter call.
SendingResolves == (status = "SENDING") ~> (status # "SENDING")

=============================================================================
