--------------------------- MODULE DeliveryStatus ---------------------------
(***************************************************************************)
(* The delivery-status callbacks of a channel (deliveryStatusService.ts,   *)
(* whatsapp/parse.ts) meeting the sends and retries of the outbound row    *)
(* they are about.                                                         *)
(*                                                                         *)
(* Callbacks reach any number of concurrent webhook requests, more than    *)
(* once and in any order.  The sending side is Outbound.tla's, reduced to  *)
(* the statements that touch the columns the callbacks read and write:     *)
(* status and externalMessageId.  The channel is honest: a message it      *)
(* delivered it never reports failed, and a call it answers with an error  *)
(* it did not accept (the ambiguous errors are Outbound.tla's subject).    *)
(***************************************************************************)
EXTENDS MessageStatus, Naturals, FiniteSets

CONSTANTS
  Handlers,  \* webhook requests processing a callback
  Senders,   \* requests retrying and sending the row
  MaxSends,  \* bound: times the channel accepts the message
  CanCrash   \* whether a webhook request may die between two steps

ASSUME DeliveryRequestsAssumption ==
  Handlers \cap Senders = {} /\ IsFiniteSet(Handlers \cup Senders)
ASSUME MaxSendsAssumption == MaxSends \in Nat \ {0}
ASSUME DeliveryCrashAssumption == CanCrash \in BOOLEAN

VARIABLES
  \* --- the database ---
  status,      \* Message.status
  externalId,  \* Message.externalMessageId: the accepted send it names, 0 for null
  events,      \* the callbacks recorded as MessageEvent rows
  \* --- the requests ---
  pc,          \* where each request is suspended
  seen,        \* the callback a handler works on, and the status it read
  \* --- the channel ---
  sends,       \* number of accepted sends
  fate,        \* how far each accepted send has come
  \* --- history ---
  overlapped,  \* two handlers have been at work on the row at once
  resent       \* the channel accepted the row again after delivering it

channel == <<sends, fate>>
history == <<overlapped, resent>>
vars    == <<status, externalId, events, pc, seen, channel, history>>

Requests == Handlers \cup Senders
SendIds  == 1..MaxSends
Fates    == {"none", "accepted", "sent", "delivered", "read", "failed"}

\* A callback is one status of one send.  Redelivering it changes nothing in it,
\* so it also stands for externalEventId, "id:status:timestamp".
Callbacks == [send : SendIds, status : {"SENT", "DELIVERED", "READ", "FAILED"}]
NoCopy    == [send |-> 0, status |-> "none", read |-> "none"]

\* The row, the log of events, the requests and the channel are well-formed.
TypeOK ==
  /\ status \in Status
  /\ externalId \in 0..MaxSends
  /\ events \subseteq Callbacks
  /\ pc \in [Requests -> {"idle", "record", "write", "claim", "call", "accepted"}]
  /\ seen \in [Requests -> [send : 0..MaxSends,
                            status : {"none", "SENT", "DELIVERED", "READ", "FAILED"},
                            read : Status \cup {"none"}]]
  /\ sends \in 0..MaxSends
  /\ fate \in [SendIds -> Fates]
  /\ overlapped \in BOOLEAN /\ resent \in BOOLEAN
  /\ \A i \in SendIds : fate[i] = "none" <=> i > sends

Init ==
  /\ status = "PENDING" /\ externalId = 0 /\ events = {}
  /\ pc = [r \in Requests |-> "idle"]
  /\ seen = [r \in Requests |-> NoCopy]
  /\ sends = 0 /\ fate = [i \in SendIds |-> "none"]
  /\ overlapped = FALSE /\ resent = FALSE

Goto(r, label, copy) ==
  /\ pc' = [pc EXCEPT ![r] = label]
  /\ seen' = [seen EXCEPT ![r] = copy]

Return(r) == Goto(r, "idle", NoCopy)

-----------------------------------------------------------------------------
(* The channel: a send is sent, then delivered and read, or it fails.         *)

Later(f) ==
  CASE f = "accepted"  -> {"sent", "failed"}
    [] f = "sent"      -> {"delivered", "failed"}
    [] f = "delivered" -> {"read"}
    [] OTHER           -> {}

ChannelProgress(i) ==
  /\ \E f \in Later(fate[i]) : fate' = [fate EXCEPT ![i] = f]
  /\ UNCHANGED <<status, externalId, events, pc, seen, sends, history>>

\* What the channel has by now told, about send i, or may still tell again.
Told(i) ==
  CASE fate[i] = "sent"      -> {"sent"}
    [] fate[i] = "delivered" -> {"sent", "delivered"}
    [] fate[i] = "read"      -> {"sent", "delivered", "read"}
    [] fate[i] = "failed"    -> {"sent", "failed"}
    [] OTHER                 -> {}

-----------------------------------------------------------------------------
(* applyDeliveryStatusUpdate                                                  *)

STATUS_MAP ==
  [sent |-> "SENT", delivered |-> "DELIVERED", read |-> "READ", failed |-> "FAILED"]

\* Mutant: an accepted message counts as delivered.
MapStatus_SentIsDelivered(s) == IF s = "sent" THEN "DELIVERED" ELSE STATUS_MAP[s]

\* mapWhatsAppStatus
MapStatus(s) == STATUS_MAP[s]

\* findByExternalMessageId: a callback about a send the row does not name (not
\* yet, or no longer) is answered 200 and forgotten.
ReceiveCallback(h, i, s) ==
  /\ pc[h] = "idle" /\ h \in Handlers
  /\ s \in Told(i)
  /\ externalId = i
  /\ Goto(h, "record", [send |-> i, status |-> MapStatus(s), read |-> status])
  /\ overlapped' = (overlapped \/ \E g \in Handlers : pc[g] # "idle")
  /\ UNCHANGED <<status, externalId, events, channel, resent>>

Callback(h) == [send |-> seen[h].send, status |-> seen[h].status]

\* Mutant: the transition is not checked.
Applies_Always(h) == TRUE

\* The unique constraint (messageId, eventType, externalEventId).
IsDuplicate(h) == Callback(h) \in events

\* canTransition, on the status read before the event was inserted.
Applies(h) == CanTransition(seen[h].read, seen[h].status)

\* The event is inserted first; a duplicate ends here, and so does a status the
\* row cannot move to.
RecordEvent(h) ==
  /\ pc[h] = "record"
  /\ events' = events \cup {Callback(h)}
  /\ IF ~IsDuplicate(h) /\ Applies(h) THEN Goto(h, "write", seen[h]) ELSE Return(h)
  /\ UNCHANGED <<status, externalId, channel, history>>

\* updateStatus without a predicate.
WriteStatus(h) ==
  /\ pc[h] = "write"
  /\ status' = seen[h].status
  /\ Return(h)
  /\ UNCHANGED <<externalId, events, channel, history>>

\* The request dies: what it recorded stays recorded, what it had still to write
\* is not written, and the channel's next attempt is a duplicate.
Crash(h) ==
  /\ CanCrash
  /\ pc[h] \in {"record", "write"}
  /\ Return(h)
  /\ UNCHANGED <<status, externalId, events, channel, history>>

-----------------------------------------------------------------------------
(* The sending side: retryMessage and confirmAndSend                          *)

\* Mutant: a message that was only sent, not delivered, may be retried too.
RetryableStatus_Unconfirmed == {"FAILED", "DEAD_LETTER", "SENT"}

RetryableStatus == {"FAILED", "DEAD_LETTER"}

ClaimRetry(r) ==
  /\ pc[r] = "idle" /\ r \in Senders
  /\ status \in RetryableStatus
  /\ status' = "PENDING"
  /\ Goto(r, "claim", NoCopy)
  /\ UNCHANGED <<externalId, events, channel, history>>

\* A confirm of the draft (the first send), or the send step of a retry.
ClaimSend(r) ==
  /\ pc[r] \in {"idle", "claim"} /\ r \in Senders
  /\ \/ status = "PENDING" /\ status' = "SENDING" /\ Goto(r, "call", NoCopy)
     \/ status # "PENDING" /\ pc[r] = "claim" /\ Return(r) /\ UNCHANGED status
  /\ UNCHANGED <<externalId, events, channel, history>>

AdapterAccepts(r) ==
  /\ pc[r] = "call"
  /\ sends < MaxSends
  /\ sends' = sends + 1
  /\ fate' = [fate EXCEPT ![sends + 1] = "accepted"]
  /\ resent' = (resent \/ \E i \in SendIds : fate[i] \in {"delivered", "read"})
  /\ Goto(r, "accepted", [NoCopy EXCEPT !.send = sends + 1])
  /\ UNCHANGED <<status, externalId, events, overlapped>>

\* The channel refused: transitionToFailed, by a copy that reads SENDING.
AdapterRefuses(r) ==
  /\ pc[r] = "call"
  /\ status' = "FAILED"
  /\ Return(r)
  /\ UNCHANGED <<externalId, events, channel, history>>

\* Only now does the row name the send its callbacks will be about.
RecordSendResult(r) ==
  /\ pc[r] = "accepted"
  /\ status' = "SENT"
  /\ externalId' = seen[r].send
  /\ Return(r)
  /\ UNCHANGED <<events, channel, history>>

-----------------------------------------------------------------------------
HandlerStep(h) == RecordEvent(h) \/ WriteStatus(h) \/ Crash(h)

SenderStep(r) ==
  \/ ClaimRetry(r) \/ ClaimSend(r)
  \/ AdapterAccepts(r) \/ AdapterRefuses(r) \/ RecordSendResult(r)

Next ==
  \/ \E i \in SendIds : ChannelProgress(i)
  \/ \E h \in Handlers :
       \/ \E i \in SendIds : \E s \in Told(i) : ReceiveCallback(h, i, s)
       \/ HandlerStep(h)
  \/ \E r \in Senders : SenderStep(r)

Spec == Init /\ [][Next]_vars

-----------------------------------------------------------------------------
Received(i) == fate[i] \in {"delivered", "read"}

\* The inbox shows "delivered" (or "read") only if the send that the row names reached
\* the contact (and was read), whatever sends, retries and callbacks overlap and
\* whichever of the row's sends the callback was about.
ShownDeliveredIsTrue ==
  status \in {"DELIVERED", "READ"} =>
    /\ externalId # 0 /\ Received(externalId)
    /\ status = "READ" => fate[externalId] = "read"

\* The contact receives at most one of the sends of a row, and nothing is handed to
\* the channel again after that: no late, repeated or overwritten callback makes a
\* row retryable whose send has arrived or may still arrive.
DeliveredNotResent ==
  ~resent /\ \A i, j \in SendIds : Received(i) /\ Received(j) => i = j

\* One callback changes the row at most once: of all the requests that process
\* it, at most one gets past the insert of its event.
OneWriterPerCallback ==
  \A g, h \in Handlers :
    pc[g] = "write" /\ pc[h] = "write" /\ Callback(g) = Callback(h) => g = h

\* Once delivered, the row only moves on to READ -- unless two callbacks were
\* processed at the same moment.
DeliveredOnlyForward ==
  [][(status = "DELIVERED" \/ status = "READ") /\ status' # status
       => status' = "READ" \/ overlapped]_vars

=============================================================================
