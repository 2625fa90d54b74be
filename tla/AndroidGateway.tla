--------------------------- MODULE AndroidGateway ---------------------------
(***************************************************************************)
(* One outbound SMS between the server and the phone that sends it: the    *)
(* server's message handlers (gateways/messageLifecycle.ts), the phone's   *)
(* poll loop (GatewayForegroundService.kt, SmsSendManager.kt) with its     *)
(* store of undelivered reports (PendingActionStore.kt), and the network   *)
(* between them, which loses requests and answers and delays requests past *)
(* the phone's time-out.                                                   *)
(*                                                                         *)
(* The row enters QUEUED, as confirmAndSend left it.  The retry worker's   *)
(* way back to QUEUED is Outbound.tla's, reduced to its three writes of    *)
(* the status; retry scheduling is reduced to the count it keeps.          *)
(* (Its names are apart from those of Devices and DeviceInbox: PhoneProofs *)
(* extends all three.)                                                     *)
(***************************************************************************)
EXTENDS MessageStatus, Naturals, FiniteSets

CONSTANTS
  Handlers,     \* server requests that may be processing a report at once
  MaxAttempts,  \* DEFAULT_RETRY_POLICY.maxAttempts
  MaxCrashes,   \* bound: times the phone's process dies
  NoHandler     \* the phone is not waiting for an answer

ASSUME GatewayHandlersAssumption == IsFiniteSet(Handlers) /\ NoHandler \notin Handlers
ASSUME GatewayAttemptsAssumption == MaxAttempts \in Nat \ {0}
ASSUME MaxCrashesAssumption == MaxCrashes \in Nat

VARIABLES
  \* --- the database ---
  status,    \* Message.status
  retries,   \* number of retry_scheduled events
  \* --- the server ---
  pc,        \* where each report handler is suspended, or the answer it holds
  worker,    \* the retry worker's place between its claims
  \* --- the phone ---
  dpc,       \* the poll loop's place
  report,    \* the outcome it is reporting: ACKNOWLEDGE or FAIL
  tries,     \* calls made for this report so far (withBackoff)
  waiting,   \* the handler whose answer it awaits
  entry,     \* PendingActionStore's entry for the message
  \* --- history ---
  copies,    \* SMSs the contact received, also in part (2 means "2 or more")
  unsure,    \* an outcome was not reported, or the phone did not learn that it was
  crashes

message     == <<status, retries>>
phone       == <<dpc, report, tries, waiting, entry>>
gatewayVars == <<message, pc, worker, phone, copies, unsure, crashes>>

Outcome == {"ACKNOWLEDGE", "FAIL"}
MaxTries == 2

\* The row, the handlers, the phone and its store are well-formed.
GatewayTypeOK ==
  /\ status \in Status
  /\ retries \in 0..MaxAttempts
  /\ pc \in [Handlers -> {"idle", "ack", "ackWrite", "fail", "failWrite", "schedule",
                          "200", "409"}]
  /\ worker \in {"idle", "claim", "sending"}
  /\ dpc \in {"flush", "flushing", "poll", "radio", "report", "reporting"}
  /\ report \in Outcome \cup {"none"}
  /\ tries \in 0..MaxTries
  /\ waiting \in Handlers \cup {NoHandler}
  /\ entry \in Outcome \cup {"none"}
  /\ copies \in 0..2 /\ unsure \in BOOLEAN /\ crashes \in 0..MaxCrashes
  /\ waiting # NoHandler => pc[waiting] # "idle"

GatewayInit ==
  /\ status = "QUEUED" /\ retries = 0
  /\ pc = [h \in Handlers |-> "idle"] /\ worker = "idle"
  /\ dpc = "flush" /\ report = "none" /\ tries = 0 /\ waiting = NoHandler
  /\ entry = "none"
  /\ copies = 0 /\ unsure = FALSE /\ crashes = 0

-----------------------------------------------------------------------------
(* The server: acknowledgeMessage and failMessage                             *)

\* A handler whose caller has gone answers nobody.
Answer(h, code) == pc' = [pc EXCEPT ![h] = IF waiting = h THEN code ELSE "idle"]

HandlerAt(h, label) == pc' = [pc EXCEPT ![h] = label]

ServerRest == UNCHANGED <<worker, phone, copies, unsure, crashes>>

\* Already sent: 200 at once.  A row that was given up is not revived: 409.
AckRead(h) ==
  /\ pc[h] = "ack"
  /\ IF status \in {"SENT", "DELIVERED", "READ"} THEN Answer(h, "200")
     ELSE IF CanTransition(status, "SENT") THEN HandlerAt(h, "ackWrite")
     ELSE Answer(h, "409")
  /\ UNCHANGED message /\ ServerRest

\* Mutant: the event is recorded in place of the status.
AckWrite_EventOnly(h) ==
  /\ pc[h] = "ackWrite"
  /\ Answer(h, "200")
  /\ UNCHANGED message /\ ServerRest

AckWrite(h) ==
  /\ pc[h] = "ackWrite"
  /\ status' = "SENT"
  /\ Answer(h, "200")
  /\ UNCHANGED retries /\ ServerRest

\* handleSendFailure, with the row read by requireMessageForDevice.
FailRead(h) ==
  /\ pc[h] = "fail"
  /\ IF CanTransition(status, "FAILED") THEN HandlerAt(h, "failWrite") ELSE Answer(h, "409")
  /\ UNCHANGED message /\ ServerRest

ANDROID_FAILURE_REASONS == {"NO_SIGNAL", "INVALID_NUMBER", "SIM_ERROR", "UNKNOWN"}
IsTransientFailureReason(reason) == reason # "INVALID_NUMBER"

\* A transient reason goes on to schedule a retry.
FailWrite(h, reason) ==
  /\ pc[h] = "failWrite"
  /\ status' = "FAILED"
  /\ IF IsTransientFailureReason(reason) THEN HandlerAt(h, "schedule") ELSE Answer(h, "200")
  /\ UNCHANGED retries /\ ServerRest

ScheduleRetry(h) ==
  /\ pc[h] = "schedule"
  /\ IF retries < MaxAttempts
       THEN retries' = retries + 1 /\ UNCHANGED status
       ELSE status' = "DEAD_LETTER" /\ UNCHANGED retries
  /\ Answer(h, "200")
  /\ ServerRest

Handler(h) ==
  \/ AckRead(h) \/ AckWrite(h) \/ FailRead(h) \/ ScheduleRetry(h)
  \/ \E reason \in ANDROID_FAILURE_REASONS : FailWrite(h, reason)

(* The retry worker, or an agent's retry: back to QUEUED                      *)

WorkerRest == UNCHANGED <<retries, pc, phone, copies, unsure, crashes>>

\* Mutant: a message without a delivery receipt may be retried too.
ClaimRetry_Unconfirmed ==
  /\ worker = "idle"
  /\ status \in {"FAILED", "DEAD_LETTER", "SENT"}
  /\ status' = "PENDING" /\ worker' = "claim"
  /\ WorkerRest

ClaimRetry ==
  /\ worker = "idle"
  /\ status \in {"FAILED", "DEAD_LETTER"}
  /\ status' = "PENDING" /\ worker' = "claim"
  /\ WorkerRest

ClaimSend ==
  /\ worker = "claim"
  /\ IF status = "PENDING"
       THEN status' = "SENDING" /\ worker' = "sending"
       ELSE worker' = "idle" /\ UNCHANGED status
  /\ WorkerRest

\* Mutant: queueing for the phone is taken for sending.
RecordQueued_Optimistic ==
  /\ worker = "sending"
  /\ status' = "SENT" /\ worker' = "idle"
  /\ WorkerRest

\* AndroidSmsAdapter answers QUEUED; updateStatus has no predicate.
RecordQueued ==
  /\ worker = "sending"
  /\ status' = "QUEUED" /\ worker' = "idle"
  /\ WorkerRest

-----------------------------------------------------------------------------
(* The phone and its network.  Each call is one HTTP request; a request that  *)
(* is lost, refused with a 5xx, or not answered in time is a NetworkFailure.  *)

PhoneRest == UNCHANGED <<message, worker, crashes>>

\* The request reaches the server and the phone waits.
CallServer(outcome, label) ==
  \E h \in Handlers :
    /\ pc[h] = "idle"
    /\ HandlerAt(h, IF outcome = "ACKNOWLEDGE" THEN "ack" ELSE "fail")
    /\ waiting' = h
    /\ dpc' = label

\* The call has an answer: the handler is done with.
Answered(code) ==
  /\ waiting # NoHandler /\ pc[waiting] = code
  /\ HandlerAt(waiting, "idle")
  /\ waiting' = NoHandler

\* The phone gives up on the answer: it was lost, or is still being computed.
\* The handler, if still at work, goes on.
AnswerLost ==
  /\ waiting # NoHandler
  /\ pc' = [pc EXCEPT ![waiting] = IF @ \in {"200", "409"} THEN "idle" ELSE @]
  /\ waiting' = NoHandler

\* PendingActionStore keeps one entry for a message: a later outcome replaces it.
Enqueue(outcome) == entry' = outcome
Remove           == entry' = "none"

\* writeText truncates the file before it writes, and a file that cannot be parsed
\* reads as empty: dying in a write, of whichever message, loses every entry.
DieWriting == entry' = "none"

\* flushPendingActions
FlushStored ==
  /\ dpc = "flush"
  /\ IF entry = "none"
       THEN dpc' = "poll" /\ UNCHANGED <<pc, waiting>>
       ELSE CallServer(entry, "flushing")
  /\ UNCHANGED <<report, tries, entry, copies, unsure>> /\ PhoneRest

\* The request does not get through, or a 429 comes back: the entry is kept, and
\* this cycle goes on to poll all the same.
FlushUnreachable ==
  /\ dpc = "flush" /\ entry # "none"
  /\ dpc' = "poll"
  /\ UNCHANGED <<pc, waiting, report, tries, entry, copies, unsure>> /\ PhoneRest

\* Success removes the entry; so does a 4xx, which would never succeed.
FlushAnswered ==
  /\ dpc = "flushing"
  /\ \E code \in {"200", "409"} : Answered(code)
  /\ Remove /\ dpc' = "poll"
  /\ UNCHANGED <<report, tries, copies, unsure>> /\ PhoneRest

FlushAnswerLost ==
  /\ dpc = "flushing"
  /\ AnswerLost
  /\ dpc' = "poll"
  /\ UNCHANGED <<report, tries, entry, copies, unsure>> /\ PhoneRest

\* Mutant: the page also holds what is being sent by someone else.
Pending_Unsent == {"QUEUED", "SENT"}

Pending == {"QUEUED"}

\* pollAndSendOnce: the page is a snapshot; the message's turn comes later.
Poll ==
  /\ dpc = "poll"
  /\ dpc' = IF status \in Pending THEN "radio" ELSE "flush"
  /\ UNCHANGED <<pc, report, tries, waiting, entry, copies, unsure>> /\ PhoneRest

PollUnreachable ==
  /\ dpc = "poll"
  /\ dpc' = "flush"
  /\ UNCHANGED <<pc, report, tries, waiting, entry, copies, unsure>> /\ PhoneRest

Received == copies' = IF copies < 2 THEN copies + 1 ELSE 2

Report(outcome) == dpc' = "report" /\ report' = outcome /\ tries' = 0

\* Every segment's sent broadcast says RESULT_OK.
SmsSent ==
  /\ dpc = "radio"
  /\ Received
  /\ Report("ACKNOWLEDGE")
  /\ UNCHANGED <<pc, waiting, entry, unsure>> /\ PhoneRest

\* One segment failed; the others may have arrived.
SmsFails(partly) ==
  /\ dpc = "radio"
  /\ IF partly THEN Received /\ unsure' = TRUE ELSE UNCHANGED <<copies, unsure>>
  /\ Report("FAIL")
  /\ UNCHANGED <<pc, waiting, entry>> /\ PhoneRest

\* acknowledgeOrQueue and failOrQueue
SendReport ==
  /\ dpc = "report"
  /\ CallServer(report, "reporting")
  /\ tries' = tries + 1
  /\ UNCHANGED <<report, entry, copies, unsure>> /\ PhoneRest

NextCycle == dpc' = "flush" /\ report' = "none" /\ tries' = 0

\* Success, or a 4xx: nothing more to do.
ReportAnswered ==
  /\ dpc = "reporting"
  /\ \E code \in {"200", "409"} : Answered(code)
  /\ NextCycle
  /\ UNCHANGED <<entry, copies, unsure>> /\ PhoneRest

\* The retryable outcome of the n-th call: once more, then into the store, where
\* it replaces an earlier entry of the message.
AfterLostCall(n) ==
  IF n < MaxTries
    THEN dpc' = "report" /\ tries' = n /\ UNCHANGED <<report, entry>>
    ELSE NextCycle /\ Enqueue(report)

ReportLost ==
  /\ \/ dpc = "report" /\ AfterLostCall(tries + 1) /\ UNCHANGED <<pc, waiting>>
     \/ dpc = "reporting" /\ AnswerLost /\ AfterLostCall(tries)
  /\ unsure' = TRUE
  /\ UNCHANGED copies /\ PhoneRest

\* A 429 is terminal for the call, and only retryable outcomes are stored: the
\* report is dropped.
ReportRateLimited ==
  /\ dpc = "report"
  /\ NextCycle
  /\ unsure' = TRUE
  /\ UNCHANGED <<pc, waiting, entry, copies>> /\ PhoneRest

\* The process dies and START_STICKY brings it back.  What it had given to the
\* radio may still go out.
PhoneCrash ==
  /\ crashes < MaxCrashes
  /\ crashes' = crashes + 1
  /\ \/ dpc = "radio" /\ Received
     \/ UNCHANGED copies
  /\ unsure' = (unsure \/ dpc \in {"radio", "report", "reporting"})
  /\ NextCycle
  /\ IF waiting = NoHandler THEN UNCHANGED <<pc, waiting>> ELSE AnswerLost
  /\ DieWriting \/ UNCHANGED entry
  /\ UNCHANGED <<message, worker>>

-----------------------------------------------------------------------------
PhoneStep ==
  \/ FlushStored \/ FlushUnreachable \/ FlushAnswered \/ FlushAnswerLost
  \/ Poll \/ PollUnreachable
  \/ SmsSent \/ \E partly \in BOOLEAN : SmsFails(partly)
  \/ SendReport \/ ReportAnswered \/ ReportLost \/ ReportRateLimited

Worker == ClaimRetry \/ ClaimSend \/ RecordQueued

GatewayNext ==
  \/ \E h \in Handlers : Handler(h)
  \/ Worker
  \/ PhoneStep
  \/ PhoneCrash

GatewaySpec == GatewayInit /\ [][GatewayNext]_gatewayVars

\* The poll loop never stops, server requests run to their end, and the network
\* keeps coming back: a call or a poll made again and again gets through in the
\* end, and so does an answer.
GatewayFairness ==
  /\ WF_gatewayVars(PhoneStep)
  /\ WF_gatewayVars(ClaimSend) /\ WF_gatewayVars(RecordQueued)
  /\ \A h \in Handlers : WF_gatewayVars(Handler(h))
  /\ SF_gatewayVars(Poll)
  /\ SF_gatewayVars(FlushStored) /\ SF_gatewayVars(FlushAnswered)
  /\ SF_gatewayVars(SendReport) /\ SF_gatewayVars(ReportAnswered)

GatewayFairSpec == GatewaySpec /\ GatewayFairness

-----------------------------------------------------------------------------
\* SENT on the server means that an SMS really left the phone: nothing on the
\* way marks a message sent optimistically, whatever is lost, delayed, retried
\* or queued again.
SentMeansSent == status = "SENT" => copies > 0

\* The contact gets the SMS once, as long as every outcome was reported and every
\* report answered: polling again, the worker's requeueing and delayed handlers
\* alone never repeat it.
NoRepeatedSms == copies > 1 => unsure

\* Under the same condition an acknowledged message stays SENT: no late failure
\* report or queueing overwrites it.
SentIsFinal == [][status = "SENT" /\ status' # "SENT" => unsure]_gatewayVars

\* A message the phone can fetch does not stay queued for ever, through lost
\* calls, time-outs and crashes of the phone.
QueuedResolves == (status = "QUEUED") ~> (status # "QUEUED")

=============================================================================
