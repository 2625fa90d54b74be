--------------------------- MODULE OutboundProofs ---------------------------
(***************************************************************************)
(* What holds of Outbound for any number of requests, any retry cap and    *)
(* every channel, and that it implements Delivery.                         *)
(***************************************************************************)
EXTENDS Outbound, FiniteSetTheorems, TLAPS

-----------------------------------------------------------------------------
(* Failures                                                                   *)

LEMMA AcceptedIsAnAnswer == Accepted \in {"SENT", "QUEUED"}
BY DEF Accepted, Answered

\* What the classifier is given is an error it knows how to read, so that it always
\* answers one of the two classes.
LEMMA ErrorsTyped ==
  ASSUME NEW took \in BOOLEAN, NEW e \in SendMessage(Channel, took)
  PROVE  e \in AppError /\ ClassifyAdapterFailure(e) \in FailureClassification
<1>1. Plain \in AppError /\ NetworkError \in AppError /\ Hinted("permanent") \in AppError
  BY DEF Plain, NetworkError, Hinted, AppError, FailureClassification
<1>2. ASSUME NEW s \in HttpStatus PROVE WithStatus(s) \in AppError
  BY DEF WithStatus, Plain, AppError, FailureClassification
<1>3. e \in {Plain, NetworkError, Hinted("permanent")} \cup {WithStatus(s) : s \in HttpStatus}
  BY ChannelAssumption DEF SendMessage, Channels, TelegramSendMessage, WhatsAppSendMessage,
     AndroidSendMessage, DecryptTelegramCredentials, DecryptWhatsAppCredentials,
     CallTelegramApi, PostMessage, HttpStatus
<1>4. e \in AppError
  BY <1>1, <1>2, <1>3
<1> QED
  BY <1>4 DEF AppError, ClassifyAdapterFailure, ClassifyByHttpStatus, FailureClassification

\* A message the channel took is never given up at once: whatever may then still go
\* wrong - the answer is lost, unreadable or without an id - is classified transient,
\* so the message is sent again by itself.
THEOREM TakenThenTransient == LostAs \subseteq {"transient"}
<1> SUFFICES ASSUME NEW e \in SendMessage(Channel, TRUE)
             PROVE  ClassifyAdapterFailure(e) = "transient"
  BY DEF LostAs
<1>1. e = NetworkError \/ e \in {WithStatus(s) : s \in {200} \cup Broken}
  BY ChannelAssumption DEF SendMessage, Channels, TelegramSendMessage, WhatsAppSendMessage,
     AndroidSendMessage, DecryptTelegramCredentials, DecryptWhatsAppCredentials,
     CallTelegramApi, PostMessage
<1>2. CASE e = NetworkError
  BY <1>2 DEF NetworkError, Hinted, Plain, ClassifyAdapterFailure
<1>3. ASSUME NEW s \in {200} \cup Broken, e = WithStatus(s)
      PROVE  ClassifyAdapterFailure(e) = "transient"
  <2>1. e.hint = "none" /\ e.status = s
    BY <1>3 DEF WithStatus, Plain
  <2> QED BY <2>1 DEF ClassifyAdapterFailure, ClassifyByHttpStatus, Broken
<1> QED BY <1>1, <1>2, <1>3

\* A translation that fails is always tried again: the provider wraps whatever its client
\* throws without the status and the message that failureClassifier.ts looks for.
THEOREM UntranslatedIsTransient == UntranslatedAs = {"transient"}
<1>1. Translate = {Plain}
  BY DEF Translate, GetClient, Wrapped
<1>2. ClassifyTranslationFailure(Plain) = "transient"
  BY DEF ClassifyTranslationFailure, Plain, ClassifyAdapterFailure, ClassifyByHttpStatus
<1> QED BY <1>1, <1>2 DEF UntranslatedAs

-----------------------------------------------------------------------------
(* Typing                                                                     *)

\* TypeOK without the flags: what SMT reasons about best.
DataOK ==
  /\ status \in Status \cup {"ABSENT"}
  /\ text \in Text
  /\ retries \in Nat
  /\ lastFailure \in FailureClassification \cup {"none"}
  /\ pc \in [Requests -> Labels]
  /\ seen \in [Requests -> [status : Status \cup {"ABSENT"}, text : Text]]
  /\ accepted \in 0..2

\* Every step of a request, and every other step, keeps the flags Boolean.
LEMMA FlagsStep == FlagsOK /\ [Next]_vars => FlagsOK'
<1> SUFFICES ASSUME FlagsOK, [Next]_vars PROVE FlagsOK'
  OBVIOUS
<1> USE DEF FlagsOK, row, history
<1>1. ASSUME NEW r \in Requests, Begin(r) PROVE FlagsOK'
  BY <1>1, Zenon DEF Begin, InsertMessage, ReturnExisting, Confirm, EditDraft,
     RetryManually, WorkerPass
<1>2. ASSUME NEW r \in Requests, Step(r) PROVE FlagsOK'
  <2>1. CASE StoreTranslation(r)
    BY <2>1, Zenon DEF StoreTranslation
  <2>2. ASSUME NEW c \in FailureClassification, TranslationFails(r, c) PROVE FlagsOK'
    BY <2>2, Zenon DEF TranslationFails, TransitionToFailed, UpdateStatus
  <2>3. CASE CountRetries(r) \/ InsertRetryScheduled(r)
    BY <2>3, Zenon DEF CountRetries, InsertRetryScheduled
  <2>4. CASE MoveToDeadLetter(r)
    BY <2>4, Zenon DEF MoveToDeadLetter, UpdateStatus
  <2>5. CASE CheckSendable(r) \/ NoIdentity(r) \/ RereadClaimed(r) \/ RereadRetried(r)
    BY <2>5, Zenon DEF CheckSendable, NoIdentity, RereadClaimed, RereadRetried
  <2>6. CASE ClaimSend(r) \/ ClaimRetry(r)
    BY <2>6, Zenon DEF ClaimSend, ClaimRetry
  <2>7. CASE AdapterAccepts(r)
    BY <2>7, Zenon DEF AdapterAccepts
  <2>8. ASSUME NEW c \in FailureClassification, SendFails(r, c) PROVE FlagsOK'
    BY <2>8, Zenon DEF SendFails, TransitionToFailed, UpdateStatus
  <2>9. CASE RecordSendResult(r)
    BY <2>9, Zenon DEF RecordSendResult, UpdateStatus
  <2>10. CASE MarkTranslationEdited(r)
    BY <2>10, Zenon DEF MarkTranslationEdited
  <2> QED
    BY <1>2, <2>1, <2>2, <2>3, <2>4, <2>5, <2>6, <2>7, <2>8, <2>9, <2>10 DEF Step
<1>3. ASSUME NEW r \in Requests, Crash(r) PROVE FlagsOK'
  BY <1>3, Zenon DEF Crash
<1>4. CASE ScheduledTimePasses
  BY <1>4, Zenon DEF ScheduledTimePasses
<1>5. CASE UNCHANGED vars
  BY <1>5, Zenon DEF vars
<1> QED
  BY <1>1, <1>2, <1>3, <1>4, <1>5 DEF Next

\* Every step keeps the row, the counters and the requests in their types.
LEMMA DataStep == DataOK /\ [Next]_vars => DataOK'
<1> SUFFICES ASSUME DataOK, [Next]_vars PROVE DataOK'
  OBVIOUS
<1> USE DEF DataOK, Labels, Text, NoRow, Status, FailureClassification, row, history
<1>1. ASSUME NEW r \in Requests, Begin(r) PROVE DataOK'
  <2>1. ASSUME NEW review \in BOOLEAN, InsertMessage(r, review) PROVE DataOK'
    BY <2>1 DEF InsertMessage
  <2>2. CASE ReturnExisting(r)
    BY <2>2 DEF ReturnExisting
  <2>3. CASE Confirm(r) \/ EditDraft(r) \/ RetryManually(r) \/ WorkerPass(r)
    BY <2>3 DEF Confirm, EditDraft, RetryManually, WorkerPass, Goto
  <2> QED BY <1>1, <2>1, <2>2, <2>3 DEF Begin
<1>2. ASSUME NEW r \in Requests, Step(r) PROVE DataOK'
  <2>1. CASE StoreTranslation(r)
    BY <2>1 DEF StoreTranslation, Return, Goto
  <2>2. ASSUME NEW c \in FailureClassification, TranslationFails(r, c) PROVE DataOK'
    BY <2>2 DEF TranslationFails, TransitionToFailed, UpdateStatus, Return, Goto
  <2>3. CASE CountRetries(r) \/ InsertRetryScheduled(r)
    BY <2>3 DEF CountRetries, InsertRetryScheduled, Return, Goto
  <2>4. CASE MoveToDeadLetter(r)
    BY <2>4 DEF MoveToDeadLetter, UpdateStatus, Return, Goto
  <2>5. CASE CheckSendable(r) \/ NoIdentity(r)
    BY <2>5 DEF CheckSendable, NoIdentity, Return, Goto
  <2>6. CASE ClaimSend(r)
    BY <2>6 DEF ClaimSend, ClaimForTransition, Return, Goto
  <2>7. CASE RereadClaimed(r) \/ RereadRetried(r)
    BY <2>7 DEF RereadClaimed, RereadRetried, Reread
  <2>8. CASE AdapterAccepts(r)
    BY <2>8 DEF AdapterAccepts
  <2>9. ASSUME NEW c \in FailureClassification, SendFails(r, c) PROVE DataOK'
    BY <2>9 DEF SendFails, TransitionToFailed, UpdateStatus, Return, Goto
  <2>10. CASE RecordSendResult(r)
    BY <2>10, AcceptedIsAnAnswer DEF RecordSendResult, UpdateStatus, Return, Goto
  <2>11. CASE ClaimRetry(r)
    BY <2>11 DEF ClaimRetry, ClaimForTransition, Return, Goto
  <2>12. CASE MarkTranslationEdited(r)
    BY <2>12 DEF MarkTranslationEdited, Return, Goto
  <2> QED
    BY <1>2, <2>1, <2>2, <2>3, <2>4, <2>5, <2>6, <2>7, <2>8, <2>9, <2>10, <2>11,
       <2>12 DEF Step
<1>3. ASSUME NEW r \in Requests, Crash(r) PROVE DataOK'
  BY <1>3 DEF Crash, Return, Goto
<1>4. CASE ScheduledTimePasses
  BY <1>4 DEF ScheduledTimePasses
<1>5. CASE UNCHANGED vars
  BY <1>5 DEF vars
<1> QED
  BY <1>1, <1>2, <1>3, <1>4, <1>5 DEF Next

\* Every request keeps to the labels, and the row to its columns' types.
THEOREM TypeCorrect == Spec => []TypeOK
<1>1. Init => FlagsOK
  BY Zenon DEF Init, FlagsOK
<1>2. Init => DataOK
  BY DEF Init, DataOK, Requests, Labels, Text, NoRow, Status
<1>3. TypeOK <=> DataOK /\ FlagsOK
  BY Zenon DEF TypeOK, DataOK
<1> QED BY <1>1, <1>2, <1>3, FlagsStep, DataStep, PTL DEF Spec

-----------------------------------------------------------------------------
(* Exclusive ownership of the row and at-most-once delivery.                  *)
(*                                                                            *)
(* Both need TypeOK only for the domain of pc, and neither looks at any       *)
(* request's copy of the row: ownership follows from the claim's predicate,   *)
(* from "overwritten" recording every write that ignored the row's status,    *)
(* and from the fact that an owner leaves the owning labels in the same step  *)
(* as it moves the row out of SENDING.                                        *)

PcOK == pc \in [Requests -> Labels]

\* While neither history flag is set, an accepted message is still SENDING with
\* nobody left who could call the adapter, or it is recorded as taken.
AcceptedOnce ==
  ~overwritten /\ ~ambiguous =>
    \/ accepted = 0
    \/ /\ accepted = 1
       /\ status \in {"SENDING", Accepted}
       /\ \A r \in Requests : pc[r] \notin {"claimed", "call"}

DispatchInv == ExclusiveOwner /\ AcceptedOnce

\* The two are inductive together: ownership says who may move "accepted".
LEMMA DispatchStep == PcOK /\ DispatchInv /\ [Next]_vars => DispatchInv'
<1> SUFFICES ASSUME PcOK, DispatchInv, [Next]_vars PROVE DispatchInv'
  OBVIOUS
<1> USE AcceptedIsAnAnswer DEF PcOK, DispatchInv, ExclusiveOwner, Owners, AcceptedOnce,
        Labels, Return, Goto, row, history
<1>1. ASSUME NEW r \in Requests, Begin(r) PROVE DispatchInv'
  <2>1. ASSUME NEW review \in BOOLEAN, InsertMessage(r, review) PROVE DispatchInv'
    BY <2>1 DEF InsertMessage
  <2>2. CASE ReturnExisting(r)
    BY <2>2 DEF ReturnExisting
  <2>3. CASE Confirm(r) \/ EditDraft(r) \/ RetryManually(r) \/ WorkerPass(r)
    BY <2>3 DEF Confirm, EditDraft, RetryManually, WorkerPass
  <2> QED BY <1>1, <2>1, <2>2, <2>3 DEF Begin
<1>2. ASSUME NEW r \in Requests, Step(r) PROVE DispatchInv'
  <2>1. CASE StoreTranslation(r)
    BY <2>1 DEF StoreTranslation, Translating
  <2>2. ASSUME NEW c \in FailureClassification, TranslationFails(r, c) PROVE DispatchInv'
    BY <2>2 DEF TranslationFails, Translating, TransitionToFailed, UpdateStatus
  <2>3. CASE CountRetries(r) \/ InsertRetryScheduled(r)
    BY <2>3 DEF CountRetries, InsertRetryScheduled
  <2>4. CASE MoveToDeadLetter(r)
    BY <2>4 DEF MoveToDeadLetter, UpdateStatus
  <2>5. CASE CheckSendable(r) \/ NoIdentity(r)
    BY <2>5 DEF CheckSendable, NoIdentity
  <2>6. CASE ClaimSend(r)
    BY <2>6 DEF ClaimSend, ClaimForTransition, SendableStatus
  <2>7. CASE RereadClaimed(r) \/ RereadRetried(r)
    BY <2>7 DEF RereadClaimed, RereadRetried, Reread
  <2>8. CASE AdapterAccepts(r)
    BY <2>8 DEF AdapterAccepts
  <2>9. ASSUME NEW c \in FailureClassification, SendFails(r, c) PROVE DispatchInv'
    <3>1. /\ pc' = [pc EXCEPT ![r] = "schedule"] \/ pc' = [pc EXCEPT ![r] = "idle"]
          /\ r \in Owners /\ accepted' = accepted
      BY <2>9 DEF SendFails, TransitionToFailed
    <3>2. CASE CanTransition(seen[r].status, "FAILED")
      <4>1. ~overwritten' => ~overwritten /\ status = "SENDING"
        BY <2>9, <3>2, Zenon DEF SendFails, TransitionToFailed, UpdateStatus
      <4>2. ~ambiguous' => ~ambiguous /\ pc[r] = "call"
        BY <2>9 DEF SendFails
      <4> QED BY <3>1, <4>1, <4>2
    <3>3. CASE ~CanTransition(seen[r].status, "FAILED")
      <4>1. status' = status /\ overwritten' = overwritten
        BY <2>9, <3>3, Zenon DEF SendFails, TransitionToFailed
      <4>2. ~ambiguous' => ~ambiguous
        BY <2>9, Zenon DEF SendFails
      <4> QED BY <3>1, <4>1, <4>2
    <3> QED BY <3>2, <3>3
  <2>10. CASE RecordSendResult(r)
    <3>1. /\ pc' = [pc EXCEPT ![r] = "idle"]
          /\ r \in Owners /\ accepted' = accepted /\ ambiguous' = ambiguous
      BY <2>10 DEF RecordSendResult
    <3>2. CASE CanTransition(seen[r].status, Accepted)
      <4>1. status' = Accepted
        BY <2>10, <3>2, Zenon DEF RecordSendResult, UpdateStatus
      <4>2. ~overwritten' => ~overwritten /\ status = "SENDING"
        BY <2>10, <3>2, Zenon DEF RecordSendResult, UpdateStatus
      <4> QED BY <3>1, <4>1, <4>2
    <3>3. CASE ~CanTransition(seen[r].status, Accepted)
      <4>1. status' = status /\ overwritten' = overwritten
        BY <2>10, <3>3, Zenon DEF RecordSendResult
      <4> QED BY <3>1, <4>1
    <3> QED BY <3>2, <3>3
  <2>11. CASE ClaimRetry(r)
    BY <2>11 DEF ClaimRetry, ClaimForTransition, RetryableStatus
  <2>12. CASE MarkTranslationEdited(r)
    BY <2>12 DEF MarkTranslationEdited
  <2> QED
    BY <1>2, <2>1, <2>2, <2>3, <2>4, <2>5, <2>6, <2>7, <2>8, <2>9, <2>10, <2>11,
       <2>12 DEF Step
<1>3. ASSUME NEW r \in Requests, Crash(r) PROVE DispatchInv'
  BY <1>3 DEF Crash
<1>4. CASE ScheduledTimePasses
  BY <1>4 DEF ScheduledTimePasses
<1>5. CASE UNCHANGED vars
  BY <1>5 DEF vars
<1> QED
  BY <1>1, <1>2, <1>3, <1>4, <1>5 DEF Next

\* Nobody owns the row, and nothing is accepted, at the start.
LEMMA DispatchInit == Init => DispatchInv
BY DEF Init, DispatchInv, ExclusiveOwner, Owners, AcceptedOnce, Requests

\* The part of TypeOK that DispatchStep needs.
LEMMA TypedPc == TypeOK => PcOK
BY Zenon DEF TypeOK, PcOK

\* The claim is exclusive, and while no update has been lost an accepted message
\* never becomes claimable again: the inductive invariant of the send step.
THEOREM DispatchCorrect == Spec => []DispatchInv
<1>1. TypeOK /\ DispatchInv /\ [Next]_vars => DispatchInv'
  BY DispatchStep, TypedPc
<1> QED BY <1>1, DispatchInit, TypeCorrect, PTL DEF Spec

\* Until some update has landed on a status its author did not expect, at most
\* one request is between winning the claim and recording the adapter's answer,
\* and the row stays SENDING while there is one.
THEOREM OwnershipIsExclusive == Spec => []ExclusiveOwner
<1>1. DispatchInv => ExclusiveOwner
  BY DEF DispatchInv
<1> QED BY <1>1, DispatchCorrect, PTL

\* Crashes, double clicks and overlapping worker passes never make the channel
\* take the message twice: that needs such an overwrite, or a channel that
\* accepts what it reports as failed.
THEOREM DeliveredAtMostOnce == Spec => []NoDuplicateDelivery
<1>1. TypeOK /\ DispatchInv => NoDuplicateDelivery
  BY DEF TypeOK, DispatchInv, AcceptedOnce, NoDuplicateDelivery
<1> QED BY <1>1, TypeCorrect, DispatchCorrect, PTL

-----------------------------------------------------------------------------
(* Which text is sent.                                                        *)
(*                                                                            *)
(* translatedText never goes back to null, so it is enough to follow the      *)
(* requests that may claim the row while it is null: without a raw draft      *)
(* there is none, because a retry that finds it null translates first.        *)

RawInv ==
  /\ RawTextOnlyFromRawDraft
  /\ ~rawDraft =>
       /\ offered => text # "none"
       /\ \A r \in Requests :
            /\ pc[r] \in {"confirm", "claim", "claimed"} => text # "none"
            /\ pc[r] \in {"call", "accepted"} => seen[r].text # "none"

SeenOK == pc \in [Requests -> Labels] /\ DOMAIN seen = Requests

\* No step lets a request that may send see a missing translation, unless the
\* row was drafted without one.
LEMMA RawStep == SeenOK /\ RawInv /\ [Next]_vars => RawInv'
<1> SUFFICES ASSUME SeenOK, RawInv, [Next]_vars PROVE RawInv'
  OBVIOUS
<1> USE DEF SeenOK, RawInv, RawTextOnlyFromRawDraft, Labels, Return, Goto, row, history
<1>1. ASSUME NEW r \in Requests, Begin(r) PROVE RawInv'
  <2>1. ASSUME NEW review \in BOOLEAN, InsertMessage(r, review) PROVE RawInv'
    BY <2>1 DEF InsertMessage
  <2>2. CASE ReturnExisting(r)
    BY <2>2 DEF ReturnExisting
  <2>3. CASE Confirm(r)
    BY <2>3 DEF Confirm
  <2>4. CASE EditDraft(r) \/ RetryManually(r) \/ WorkerPass(r)
    BY <2>4 DEF EditDraft, RetryManually, WorkerPass
  <2> QED BY <1>1, <2>1, <2>2, <2>3, <2>4 DEF Begin
<1>2. ASSUME NEW r \in Requests, Step(r) PROVE RawInv'
  <2>1. CASE StoreTranslation(r)
    BY <2>1 DEF StoreTranslation, Translating
  <2>2. ASSUME NEW c \in FailureClassification, TranslationFails(r, c) PROVE RawInv'
    BY <2>2 DEF TranslationFails, Translating, TransitionToFailed
  <2>3. CASE CountRetries(r) \/ InsertRetryScheduled(r) \/ MoveToDeadLetter(r)
    BY <2>3 DEF CountRetries, InsertRetryScheduled, MoveToDeadLetter
  <2>4. CASE CheckSendable(r) \/ NoIdentity(r) \/ ClaimSend(r)
    BY <2>4 DEF CheckSendable, NoIdentity, ClaimSend
  <2>5. CASE RereadClaimed(r)
    BY <2>5 DEF RereadClaimed, Reread
  <2>6. CASE AdapterAccepts(r)
    BY <2>6 DEF AdapterAccepts
  <2>7. ASSUME NEW c \in FailureClassification, SendFails(r, c) PROVE RawInv'
    BY <2>7 DEF SendFails, TransitionToFailed
  <2>8. CASE RecordSendResult(r)
    BY <2>8 DEF RecordSendResult
  <2>9. CASE ClaimRetry(r)
    BY <2>9 DEF ClaimRetry
  <2>10. CASE RereadRetried(r)
    BY <2>10 DEF RereadRetried, Reread
  <2>11. CASE MarkTranslationEdited(r)
    BY <2>11 DEF MarkTranslationEdited
  <2> QED
    BY <1>2, <2>1, <2>2, <2>3, <2>4, <2>5, <2>6, <2>7, <2>8, <2>9, <2>10,
       <2>11 DEF Step
<1>3. ASSUME NEW r \in Requests, Crash(r) PROVE RawInv'
  BY <1>3 DEF Crash
<1>4. CASE ScheduledTimePasses
  BY <1>4 DEF ScheduledTimePasses
<1>5. CASE UNCHANGED vars
  BY <1>5 DEF vars
<1> QED
  BY <1>1, <1>2, <1>3, <1>4, <1>5 DEF Next

\* Untranslated text is sent only after a client was answered DRAFT for a row
\* that was still being translated: the retry paths never cause it themselves.
THEOREM RawTextNeedsRawDraft == Spec => []RawTextOnlyFromRawDraft
<1>1. Init => RawInv
  BY DEF Init, RawInv, RawTextOnlyFromRawDraft
<1>2. TypeOK => SeenOK
  BY DEF TypeOK, SeenOK
<1>3. TypeOK /\ RawInv /\ [Next]_vars => RawInv'
  BY <1>2, RawStep
<1>4. RawInv => RawTextOnlyFromRawDraft
  BY DEF RawInv
<1> QED BY <1>1, <1>3, <1>4, TypeCorrect, PTL DEF Spec

-----------------------------------------------------------------------------
(* The retry cap.                                                             *)
(*                                                                            *)
(* A request counts the retry_scheduled events and later inserts one more, so *)
(* the requests that have counted but not inserted are a debt on the counter. *)
(* The debt never exceeds one attempt per request, and a request joins it     *)
(* only while the counter is below the cap.                                   *)

Inserting == {r \in Requests : pc[r] = "insertRetry"}

RetryInv ==
  /\ retries + Cardinality(Inserting) <= MaxAttempts + Cardinality(Requests) - 1
  /\ \A r \in Requests : pc[r] = "bury" => retries >= MaxAttempts

\* Requests can be counted ...
LEMMA RequestsFinite == IsFiniteSet(Requests) /\ Cardinality(Requests) \in Nat
BY RequestsAssumption, FS_CardinalityType DEF Requests

\* ... and so can those that are in debt, who are no more.
LEMMA InsertingFinite ==
  /\ IsFiniteSet(Inserting)
  /\ Cardinality(Inserting) \in Nat
  /\ \A r \in Requests \ Inserting :
       Cardinality(Inserting \cup {r}) = Cardinality(Inserting) + 1
  /\ \A r \in Inserting : Cardinality(Inserting \ {r}) = Cardinality(Inserting) - 1
  /\ \A r \in Requests \ Inserting :
       Cardinality(Inserting) <= Cardinality(Requests) - 1
<1>1. Inserting \subseteq Requests
  BY DEF Inserting
<1>2. IsFiniteSet(Inserting) /\ Cardinality(Inserting) \in Nat
  BY <1>1, RequestsFinite, FS_Subset, FS_CardinalityType
<1>3. \A r \in Requests \ Inserting :
        Cardinality(Inserting \cup {r}) = Cardinality(Inserting) + 1
  BY <1>2, FS_AddElement
<1>4. \A r \in Inserting : Cardinality(Inserting \ {r}) = Cardinality(Inserting) - 1
  BY <1>2, FS_RemoveElement
<1>5. ASSUME NEW r \in Requests \ Inserting
      PROVE  Cardinality(Inserting) <= Cardinality(Requests) - 1
  <2>1. Inserting \cup {r} \subseteq Requests
    BY <1>1
  <2>2. Cardinality(Inserting \cup {r}) <= Cardinality(Requests)
    BY <2>1, RequestsFinite, FS_Subset
  <2> QED BY <1>2, <1>3, <2>2, RequestsFinite
<1> QED BY <1>2, <1>3, <1>4, <1>5

\* A step that leaves the counter alone, and moves no request to insertRetry or
\* bury, can only shrink the debt.
LEMMA DebtShrinks ==
  ASSUME RetryInv, retries \in Nat, retries' = retries, PcOK, NEW r \in Requests,
         NEW label \in Labels \ {"insertRetry", "bury"},
         pc' = [pc EXCEPT ![r] = label]
  PROVE  RetryInv'
<1>1. Inserting' = Inserting \ {r}
  BY DEF Inserting, PcOK
<1>2. Cardinality(Inserting') <= Cardinality(Inserting) /\ Cardinality(Inserting') \in Nat
  <2>1. Inserting' \subseteq Inserting
    BY <1>1
  <2> QED BY <2>1, InsertingFinite, FS_Subset, FS_CardinalityType
<1>3. \A s \in Requests : pc'[s] = "bury" => retries' >= MaxAttempts
  BY DEF RetryInv, PcOK
<1> QED
  BY <1>2, <1>3, InsertingFinite, RequestsFinite, MaxAttemptsAssumption DEF RetryInv

\* Counter and debt together stay within the bound.
LEMMA RetryStep == DataOK /\ RetryInv /\ [Next]_vars => RetryInv'
<1> SUFFICES ASSUME DataOK, RetryInv, [Next]_vars PROVE RetryInv'
  OBVIOUS
<1>0. PcOK /\ retries \in Nat
  BY DEF DataOK, PcOK
<1> USE DEF row, history
<1>1. ASSUME UNCHANGED <<pc, retries>> PROVE RetryInv'
  BY <1>1 DEF RetryInv, Inserting
<1>2. ASSUME NEW r \in Requests, CountRetries(r) PROVE RetryInv'
  <2>1. CASE retries + 1 > MaxAttempts
    <3>1. pc' = [pc EXCEPT ![r] = "bury"] /\ retries' = retries /\ r \notin Inserting
      BY <1>2, <2>1 DEF CountRetries, NextRetryDecision, Goto, Inserting
    <3>2. Inserting' = Inserting
      BY <3>1, <1>0 DEF Inserting, PcOK
    <3>3. retries >= MaxAttempts
      BY <2>1, <1>0, MaxAttemptsAssumption
    <3> QED BY <3>1, <3>2, <3>3, <1>0 DEF RetryInv, PcOK
  <2>2. CASE ~(retries + 1 > MaxAttempts)
    <3>1. /\ pc' = [pc EXCEPT ![r] = "insertRetry"]
          /\ retries' = retries
          /\ r \in Requests \ Inserting
      BY <1>2, <2>2 DEF CountRetries, NextRetryDecision, Goto, Inserting
    <3>2. Inserting' = Inserting \cup {r}
      BY <3>1, <1>0 DEF Inserting, PcOK
    <3>3. retries <= MaxAttempts - 1
      BY <2>2, <1>0, MaxAttemptsAssumption
    <3>4. retries' + Cardinality(Inserting') <= MaxAttempts + Cardinality(Requests) - 1
      BY <3>1, <3>2, <3>3, <1>0, InsertingFinite, RequestsFinite, MaxAttemptsAssumption
    <3>5. \A s \in Requests : pc'[s] = "bury" => retries' >= MaxAttempts
      BY <3>1, <1>0 DEF RetryInv, PcOK
    <3> QED BY <3>4, <3>5 DEF RetryInv
  <2> QED BY <2>1, <2>2
<1>3. ASSUME NEW r \in Requests, InsertRetryScheduled(r) PROVE RetryInv'
  <2>1. /\ pc' = [pc EXCEPT ![r] = "idle"]
        /\ retries' = retries + 1
        /\ r \in Inserting
    BY <1>3 DEF InsertRetryScheduled, Return, Goto, Inserting
  <2>2. Inserting' = Inserting \ {r}
    BY <2>1, <1>0 DEF Inserting, PcOK
  <2>3. retries' + Cardinality(Inserting') = retries + Cardinality(Inserting)
    BY <2>1, <2>2, <1>0, InsertingFinite
  <2>4. \A s \in Requests : pc'[s] = "bury" => retries' >= MaxAttempts
    BY <2>1, <1>0, MaxAttemptsAssumption DEF RetryInv, PcOK
  <2> QED BY <2>3, <2>4 DEF RetryInv
<1>4. ASSUME NEW r \in Requests, NEW label \in Labels \ {"insertRetry", "bury"},
             retries' = retries, pc' = [pc EXCEPT ![r] = label]
      PROVE  RetryInv'
  BY <1>0, <1>4, DebtShrinks
<1>5. ASSUME NEW r \in Requests, Begin(r) PROVE RetryInv'
  <2>1. ASSUME NEW review \in BOOLEAN, InsertMessage(r, review) PROVE RetryInv'
    BY <2>1, <1>4 DEF InsertMessage, Labels
  <2>2. CASE ReturnExisting(r)
    BY <2>2, <1>1 DEF ReturnExisting
  <2>3. CASE Confirm(r) \/ EditDraft(r) \/ RetryManually(r) \/ WorkerPass(r)
    BY <2>3, <1>4 DEF Confirm, EditDraft, RetryManually, WorkerPass, Goto, Labels
  <2> QED BY <1>5, <2>1, <2>2, <2>3 DEF Begin
<1>6. ASSUME NEW r \in Requests, Step(r) PROVE RetryInv'
  <2> USE DEF Return, Goto, Labels
  <2>1. CASE StoreTranslation(r)
    BY <2>1, <1>4 DEF StoreTranslation
  <2>2. ASSUME NEW c \in FailureClassification, TranslationFails(r, c) PROVE RetryInv'
    BY <2>2, <1>4 DEF TranslationFails, TransitionToFailed
  <2>3. CASE MoveToDeadLetter(r) \/ CheckSendable(r) \/ NoIdentity(r) \/ ClaimSend(r)
    BY <2>3, <1>4 DEF MoveToDeadLetter, CheckSendable, NoIdentity, ClaimSend
  <2>4. CASE RereadClaimed(r) \/ RereadRetried(r)
    BY <2>4, <1>4 DEF RereadClaimed, RereadRetried, Reread
  <2>5. CASE AdapterAccepts(r) \/ RecordSendResult(r)
    BY <2>5, <1>4 DEF AdapterAccepts, RecordSendResult
  <2>6. ASSUME NEW c \in FailureClassification, SendFails(r, c) PROVE RetryInv'
    <3>1. retries' = retries
      BY <2>6 DEF SendFails
    <3>2. PICK label \in {"schedule", "idle"} : pc' = [pc EXCEPT ![r] = label]
      BY <2>6 DEF SendFails, TransitionToFailed
    <3> QED BY <3>1, <3>2, <1>4
  <2>7. CASE ClaimRetry(r) \/ MarkTranslationEdited(r)
    BY <2>7, <1>4 DEF ClaimRetry, MarkTranslationEdited
  <2> QED
    BY <1>6, <1>2, <1>3, <2>1, <2>2, <2>3, <2>4, <2>5, <2>6, <2>7 DEF Step
<1>7. ASSUME NEW r \in Requests, Crash(r) PROVE RetryInv'
  BY <1>7, <1>4 DEF Crash, Return, Goto, Labels
<1>8. CASE ScheduledTimePasses
  BY <1>8, <1>1 DEF ScheduledTimePasses
<1>9. CASE UNCHANGED vars
  BY <1>9, <1>1 DEF vars
<1> QED
  BY <1>5, <1>6, <1>7, <1>8, <1>9 DEF Next

\* Counted but not yet inserted attempts included, the retry_scheduled events
\* stay within the cap and one more for each other request: the inductive
\* invariant of scheduleNextRetry.
THEOREM RetryInvariant == Spec => []RetryInv
<1>1. Init => RetryInv
  <2> SUFFICES ASSUME Init PROVE RetryInv
    OBVIOUS
  <2>1. Inserting = {} /\ retries = 0 /\ \A r \in Requests : pc[r] = "idle"
    BY DEF Init, Inserting
  <2> QED
    BY <2>1, FS_EmptySet, RequestsFinite, MaxAttemptsAssumption DEF RetryInv
<1>2. TypeOK => DataOK
  BY Zenon DEF TypeOK, DataOK
<1>3. TypeOK /\ RetryInv /\ [Next]_vars => RetryInv'
  BY <1>2, RetryStep
<1> QED BY <1>1, <1>3, TypeCorrect, PTL DEF Spec

\* The automatic attempts of a message exceed the cap by at most one for each
\* request that can be failing it at the same time, beyond the first.
THEOREM RetryOvershoot == Spec => []RetryOvershootBounded
<1>1. TypeOK /\ RetryInv => RetryOvershootBounded
  BY InsertingFinite, RequestsFinite, MaxAttemptsAssumption
  DEF TypeOK, RetryInv, RetryOvershootBounded
<1> QED BY <1>1, TypeCorrect, RetryInvariant, PTL

\* Only MoveToDeadLetter writes DEAD_LETTER, and only after counting the cap.
THEOREM DeadLetterNeedsCap == Spec => DeadLetterOnlyAtCap
<1> DEFINE A == status' = "DEAD_LETTER" /\ status # "DEAD_LETTER" => retries >= MaxAttempts
<1>1. TypeOK /\ RetryInv /\ [Next]_vars => [A]_vars
  <2> SUFFICES ASSUME RetryInv, [Next]_vars, status' = "DEAD_LETTER",
                      status # "DEAD_LETTER"
               PROVE  retries >= MaxAttempts
    OBVIOUS
  <2>1. PICK r \in Requests : MoveToDeadLetter(r)
    <3> USE DEF row, history
    <3>1. ASSUME NEW r \in Requests, Begin(r) PROVE FALSE
      BY <3>1 DEF Begin, InsertMessage, ReturnExisting, Confirm, EditDraft,
         RetryManually, WorkerPass
    <3>2. ASSUME NEW r \in Requests, Step(r) PROVE MoveToDeadLetter(r)
      <4>1. ASSUME StoreTranslation(r) \/ CountRetries(r) \/ InsertRetryScheduled(r)
            PROVE  FALSE
        BY <4>1 DEF StoreTranslation, CountRetries, InsertRetryScheduled
      <4>2. ASSUME NEW c \in FailureClassification,
                   TranslationFails(r, c) \/ SendFails(r, c)
            PROVE  FALSE
        BY <4>2 DEF TranslationFails, SendFails, TransitionToFailed, UpdateStatus
      <4>3. ASSUME CheckSendable(r) \/ NoIdentity(r) \/ ClaimSend(r) \/ RereadClaimed(r)
            PROVE  FALSE
        BY <4>3 DEF CheckSendable, NoIdentity, ClaimSend, RereadClaimed, ClaimForTransition
      <4>4. ASSUME AdapterAccepts(r) \/ RecordSendResult(r) PROVE FALSE
        BY <4>4, AcceptedIsAnAnswer DEF AdapterAccepts, RecordSendResult, UpdateStatus
      <4>5. ASSUME ClaimRetry(r) \/ RereadRetried(r) \/ MarkTranslationEdited(r)
            PROVE  FALSE
        BY <4>5 DEF ClaimRetry, RereadRetried, MarkTranslationEdited, ClaimForTransition
      <4> QED BY <3>2, <4>1, <4>2, <4>3, <4>4, <4>5 DEF Step
    <3>3. ASSUME NEW r \in Requests, Crash(r) PROVE FALSE
      BY <3>3 DEF Crash
    <3>4. ~ScheduledTimePasses /\ ~UNCHANGED vars
      BY DEF ScheduledTimePasses, vars
    <3> QED BY <3>1, <3>2, <3>3, <3>4 DEF Next
  <2> QED BY <2>1 DEF RetryInv, MoveToDeadLetter
<1> QED BY <1>1, TypeCorrect, RetryInvariant, PTL DEF Spec, DeadLetterOnlyAtCap
-----------------------------------------------------------------------------
(* The life cycle.                                                            *)
(*                                                                            *)
(* Both action properties hold of every single step, reachable or not: the    *)
(* conditional updates cannot break them, and the unconditional ones record   *)
(* in "overwritten" whenever the status was not the one they rely on.         *)

\* Where a step changes the status of a stored row, and under which test.
LEMMA StatusWrites ==
  ASSUME [Next]_vars, status # "ABSENT", status' # status
  PROVE  \/ status' = "PENDING" /\ (status \in RetryableStatus \/ overwritten')
         \/ status' = "SENDING" /\ status \in SendableStatus
         \/ status' = "FAILED" /\ (status \in {"PENDING", "SENDING"} \/ overwritten')
         \/ status' = Accepted /\ (status = "SENDING" \/ overwritten')
         \/ status' = "DEAD_LETTER" /\ (status = "FAILED" \/ overwritten')
<1> USE DEF row, history
<1>1. ~(status' = status)
  OBVIOUS
<1>2. ASSUME NEW r \in Requests, Begin(r) PROVE FALSE
  BY <1>1, <1>2, Zenon DEF Begin, InsertMessage, ReturnExisting, Confirm, EditDraft,
     RetryManually, WorkerPass
<1>3. ASSUME NEW r \in Requests, Crash(r) PROVE FALSE
  BY <1>1, <1>3, Zenon DEF Crash
<1>4. ~ScheduledTimePasses /\ ~UNCHANGED vars
  BY <1>1, Zenon DEF ScheduledTimePasses, vars
<1>5. PICK r \in Requests : Step(r)
  BY <1>2, <1>3, <1>4, Zenon DEF Next
<1>6. CASE StoreTranslation(r)
  <2>1. status' = "PENDING" /\ (status = "PENDING" \/ overwritten')
    BY <1>6, Zenon DEF StoreTranslation
  <2> QED BY <2>1, <1>1, Zenon
<1>7. ASSUME NEW c \in FailureClassification, TranslationFails(r, c) \/ SendFails(r, c)
      PROVE  status' = "FAILED" /\ (status \in {"PENDING", "SENDING"} \/ overwritten')
  BY <1>1, <1>7, Zenon DEF TranslationFails, SendFails, TransitionToFailed, UpdateStatus
<1>8. CASE MoveToDeadLetter(r)
  BY <1>8, Zenon DEF MoveToDeadLetter, UpdateStatus
<1>9. CASE ClaimSend(r)
  BY <1>1, <1>9, Zenon DEF ClaimSend, ClaimForTransition
<1>10. CASE ClaimRetry(r)
  BY <1>1, <1>10, Zenon DEF ClaimRetry, ClaimForTransition
<1>11. CASE RecordSendResult(r)
  BY <1>1, <1>11, Zenon DEF RecordSendResult, UpdateStatus
<1>12. ASSUME \/ CountRetries(r) \/ InsertRetryScheduled(r) \/ CheckSendable(r)
              \/ NoIdentity(r) \/ RereadClaimed(r) \/ AdapterAccepts(r)
              \/ RereadRetried(r) \/ MarkTranslationEdited(r)
       PROVE  FALSE
  BY <1>1, <1>12, Zenon DEF CountRetries, InsertRetryScheduled, CheckSendable, NoIdentity,
     RereadClaimed, AdapterAccepts, RereadRetried, MarkTranslationEdited
<1> QED
  BY <1>5, <1>6, <1>7, <1>8, <1>9, <1>10, <1>11, <1>12, Zenon DEF Step

\* A stored row only ever moves along VALID_TRANSITIONS, whichever copies the
\* checks were made on, until some update lands on a status its author did not
\* expect.
THEOREM LifecycleFollowed == Spec => StatusFollowsLifecycle
<1> DEFINE A == status # "ABSENT" /\ (overwritten' <=> overwritten) /\ ~overwritten
                  => CanTransition(status, status')
<1>1. [Next]_vars => [A]_vars
  <2> SUFFICES ASSUME [Next]_vars, status # "ABSENT", ~overwritten', status' # status
               PROVE  CanTransition(status, status')
    BY Zenon DEF CanTransition
  <2>1. \/ status' = "PENDING" /\ status \in RetryableStatus
        \/ status' = "SENDING" /\ status \in SendableStatus
        \/ status' = "FAILED" /\ status \in {"PENDING", "SENDING"}
        \/ status' = Accepted /\ status = "SENDING"
        \/ status' = "DEAD_LETTER" /\ status = "FAILED"
    BY StatusWrites, Zenon
  <2> QED
    BY <2>1, AcceptedIsAnAnswer
    DEF CanTransition, VALID_TRANSITIONS, RetryableStatus, SendableStatus
<1> QED BY <1>1, PTL DEF Spec, StatusFollowsLifecycle

\* Once the row says that the channel took the message, no retry, confirm or
\* failure takes that back, except by such an overwrite.
THEOREM TakenStays == Spec => TakenIsFinal
<1> DEFINE A == status = Accepted /\ status' # Accepted => overwritten'
<1>1. [Next]_vars => [A]_vars
  <2> SUFFICES ASSUME [Next]_vars, status = Accepted, status' # Accepted
               PROVE  overwritten'
    OBVIOUS
  <2>1. /\ status # "ABSENT" /\ status # "SENDING" /\ status # "PENDING"
        /\ status # "FAILED" /\ status # "DEAD_LETTER"
    BY AcceptedIsAnAnswer
  <2>2. status' # status
    OBVIOUS
  <2> QED
    BY <2>1, <2>2, StatusWrites, Zenon DEF RetryableStatus, SendableStatus
<1> QED BY <1>1, PTL DEF Spec, TakenIsFinal

-----------------------------------------------------------------------------
(* Outbound implements Delivery: every step of a request is a step of the     *)
(* promise or leaves it where it was.                                         *)

Disturbed == overwritten \/ ambiguous

\* Whoever waits for the answer of an accepted call has made "accepted" positive.
TakenKnown == \A r \in Requests : pc[r] = "accepted" => accepted # 0

\* "accepted" is set when a request gets there and is never reset.
LEMMA TakenKnownStep == DataOK /\ TakenKnown /\ [Next]_vars => TakenKnown'
<1> SUFFICES ASSUME DataOK, TakenKnown, [Next]_vars PROVE TakenKnown'
  OBVIOUS
<1>0. PcOK /\ accepted \in 0..2
  BY DEF DataOK, PcOK
<1> USE DEF row, history, PcOK, Labels, Goto, Return
<1>1. ASSUME NEW r \in Requests, NEW label \in Labels \ {"accepted"},
             pc' = [pc EXCEPT ![r] = label], accepted' = accepted
      PROVE  TakenKnown'
  BY <1>0, <1>1 DEF TakenKnown
<1>2. ASSUME UNCHANGED <<pc, accepted>> PROVE TakenKnown'
  BY <1>2 DEF TakenKnown
<1>3. ASSUME NEW r \in Requests, Begin(r) PROVE TakenKnown'
  <2>1. ASSUME NEW review \in BOOLEAN, InsertMessage(r, review) PROVE TakenKnown'
    BY <2>1, <1>1 DEF InsertMessage
  <2>2. CASE ReturnExisting(r)
    BY <2>2, <1>2 DEF ReturnExisting
  <2>3. CASE Confirm(r) \/ EditDraft(r) \/ RetryManually(r) \/ WorkerPass(r)
    BY <2>3, <1>1 DEF Confirm, EditDraft, RetryManually, WorkerPass
  <2> QED BY <1>3, <2>1, <2>2, <2>3 DEF Begin
<1>4. ASSUME NEW r \in Requests, Step(r) PROVE TakenKnown'
  <2>1. CASE AdapterAccepts(r)
    BY <2>1, <1>0 DEF AdapterAccepts, TakenKnown
  <2>2. ASSUME NEW c \in FailureClassification, TranslationFails(r, c) \/ SendFails(r, c)
        PROVE  TakenKnown'
    <3>1. accepted' = accepted
      BY <2>2 DEF TranslationFails, SendFails
    <3>2. PICK label \in {"schedule", "idle"} : pc' = [pc EXCEPT ![r] = label]
      BY <2>2 DEF TranslationFails, SendFails, TransitionToFailed
    <3> QED BY <3>1, <3>2, <1>1
  <2>3. CASE StoreTranslation(r) \/ CountRetries(r) \/ InsertRetryScheduled(r) \/ MoveToDeadLetter(r)
    BY <2>3, <1>1 DEF StoreTranslation, CountRetries, InsertRetryScheduled, MoveToDeadLetter
  <2>4. CASE CheckSendable(r) \/ NoIdentity(r) \/ ClaimSend(r) \/ RecordSendResult(r)
    BY <2>4, <1>1 DEF CheckSendable, NoIdentity, ClaimSend, RecordSendResult
  <2>5. CASE RereadClaimed(r) \/ ClaimRetry(r) \/ RereadRetried(r) \/ MarkTranslationEdited(r)
    BY <2>5, <1>1 DEF RereadClaimed, ClaimRetry, RereadRetried, MarkTranslationEdited, Reread
  <2> QED BY <1>4, <2>1, <2>2, <2>3, <2>4, <2>5 DEF Step
<1>5. ASSUME NEW r \in Requests, Crash(r) PROVE TakenKnown'
  BY <1>5, <1>1 DEF Crash
<1>6. CASE ScheduledTimePasses
  BY <1>6, <1>2 DEF ScheduledTimePasses
<1>7. CASE UNCHANGED vars
  BY <1>7, <1>2 DEF vars
<1> QED
  BY <1>3, <1>4, <1>5, <1>6, <1>7 DEF Next

\* What the refinement rests on.
RefinementInv == TypeOK /\ DispatchInv /\ RetryInv /\ TakenKnown

THEOREM RefinementInvariant == Spec => []RefinementInv
<1>1. Init => TakenKnown
  BY DEF Init, TakenKnown
<1>2. TypeOK => DataOK
  BY Zenon DEF TypeOK, DataOK
<1>3. TypeOK /\ TakenKnown /\ [Next]_vars => TakenKnown'
  BY <1>2, TakenKnownStep
<1>4. TypeOK /\ DispatchInv /\ RetryInv /\ TakenKnown => RefinementInv
  BY Zenon DEF RefinementInv
<1> QED
  BY <1>1, <1>3, <1>4, TypeCorrect, DispatchCorrect, RetryInvariant, PTL DEF Spec

\* What was disturbed stays disturbed.
LEMMA DisturbedStays == FlagsOK /\ [Next]_vars /\ Disturbed => Disturbed'
<1> SUFFICES ASSUME FlagsOK, [Next]_vars, Disturbed PROVE Disturbed'
  OBVIOUS
<1> USE DEF FlagsOK, Disturbed, row, history
<1>1. ASSUME NEW r \in Requests, Begin(r) PROVE Disturbed'
  BY <1>1, Zenon DEF Begin, InsertMessage, ReturnExisting, Confirm, EditDraft,
     RetryManually, WorkerPass
<1>2. ASSUME NEW r \in Requests, Step(r) PROVE Disturbed'
  <2>1. CASE StoreTranslation(r)
    BY <2>1, Zenon DEF StoreTranslation
  <2>2. ASSUME NEW c \in FailureClassification, TranslationFails(r, c) \/ SendFails(r, c)
        PROVE  Disturbed'
    BY <2>2, Zenon DEF TranslationFails, SendFails, TransitionToFailed, UpdateStatus
  <2>3. CASE CountRetries(r) \/ InsertRetryScheduled(r)
    BY <2>3, Zenon DEF CountRetries, InsertRetryScheduled
  <2>4. CASE MoveToDeadLetter(r)
    BY <2>4, Zenon DEF MoveToDeadLetter, UpdateStatus
  <2>5. CASE CheckSendable(r) \/ NoIdentity(r) \/ RereadClaimed(r) \/ RereadRetried(r)
    BY <2>5, Zenon DEF CheckSendable, NoIdentity, RereadClaimed, RereadRetried
  <2>6. CASE ClaimSend(r) \/ ClaimRetry(r)
    BY <2>6, Zenon DEF ClaimSend, ClaimRetry
  <2>7. CASE AdapterAccepts(r)
    BY <2>7, Zenon DEF AdapterAccepts
  <2>8. CASE RecordSendResult(r)
    BY <2>8, Zenon DEF RecordSendResult, UpdateStatus
  <2>9. CASE MarkTranslationEdited(r)
    BY <2>9, Zenon DEF MarkTranslationEdited
  <2> QED
    BY <1>2, <2>1, <2>2, <2>3, <2>4, <2>5, <2>6, <2>7, <2>8, <2>9 DEF Step
<1>3. ASSUME NEW r \in Requests, Crash(r) PROVE Disturbed'
  BY <1>3, Zenon DEF Crash
<1>4. CASE ScheduledTimePasses
  BY <1>4, Zenon DEF ScheduledTimePasses
<1>5. CASE UNCHANGED vars
  BY <1>5, Zenon DEF vars
<1> QED
  BY <1>1, <1>2, <1>3, <1>4, <1>5 DEF Next

Undisturbed == ~overwritten /\ ~overwritten' /\ ~ambiguous /\ ~ambiguous'

\* Without a disturbance a step moves the three data of the promise as Delivery does.
PromiseStep ==
  \/ UNCHANGED <<status, accepted, retries>>
  \/ status = "ABSENT" /\ status' = "PENDING" /\ UNCHANGED <<accepted, retries>>
  \/ status = "PENDING" /\ status' = "SENDING" /\ UNCHANGED <<accepted, retries>>
  \/ status = "SENDING" /\ accepted = 0 /\ accepted' = 1 /\ UNCHANGED <<status, retries>>
  \/ /\ status = "SENDING" /\ accepted = 1 /\ status' = Accepted
     /\ UNCHANGED <<accepted, retries>>
  \/ /\ status \in {"PENDING", "SENDING"} /\ accepted = 0 /\ status' = "FAILED"
     /\ UNCHANGED <<accepted, retries>>
  \/ retries' = retries + 1 /\ UNCHANGED <<status, accepted>>
  \/ /\ status = "FAILED" /\ retries >= MaxAttempts /\ status' = "DEAD_LETTER"
     /\ UNCHANGED <<accepted, retries>>
  \/ /\ status \in {"FAILED", "DEAD_LETTER"} /\ status' = "PENDING"
     /\ UNCHANGED <<accepted, retries>>

\* One case for each step of a request.
LEMMA UndisturbedStep ==
  ASSUME RefinementInv, [Next]_vars, Undisturbed
  PROVE  PromiseStep
<1>0. DataOK /\ DispatchInv /\ RetryInv /\ TakenKnown
  BY Zenon DEF RefinementInv, TypeOK, DataOK
<1>a. PcOK /\ status \in Status \cup {"ABSENT"} /\ accepted \in 0..2
  BY <1>0 DEF DataOK, PcOK
<1>b. \A r \in Requests : pc[r] \in {"claimed", "call", "accepted"} => status = "SENDING"
  BY <1>0 DEF DispatchInv, ExclusiveOwner, Owners, Undisturbed
<1>c. \A r \in Requests : pc[r] \in {"claimed", "call"} => accepted = 0
  BY <1>0 DEF DispatchInv, AcceptedOnce, Undisturbed
<1>d. \A r \in Requests : pc[r] = "accepted" => accepted = 1
  BY <1>0, <1>a DEF DispatchInv, AcceptedOnce, Undisturbed, TakenKnown
<1>e. status = "PENDING" => accepted = 0
  BY <1>0, AcceptedIsAnAnswer DEF DispatchInv, AcceptedOnce, Undisturbed
<1> USE DEF row, history
<1>1. ASSUME NEW r \in Requests, Begin(r) PROVE PromiseStep
  <2>1. ASSUME NEW review \in BOOLEAN, InsertMessage(r, review) PROVE PromiseStep
    BY <2>1 DEF InsertMessage, PromiseStep
  <2>2. CASE ReturnExisting(r)
    BY <2>2 DEF ReturnExisting, PromiseStep
  <2>3. CASE Confirm(r) \/ EditDraft(r) \/ RetryManually(r) \/ WorkerPass(r)
    BY <2>3 DEF Confirm, EditDraft, RetryManually, WorkerPass, PromiseStep
  <2> QED BY <1>1, <2>1, <2>2, <2>3 DEF Begin
<1>2. ASSUME NEW r \in Requests, Step(r) PROVE PromiseStep
  <2>1. CASE StoreTranslation(r)
    <3>1. status' = "PENDING" /\ status = "PENDING"
      BY <2>1, Zenon DEF StoreTranslation, Undisturbed
    <3>2. UNCHANGED <<accepted, retries>>
      BY <2>1 DEF StoreTranslation
    <3> QED BY <3>1, <3>2 DEF PromiseStep
  <2>2. ASSUME NEW c \in FailureClassification, TranslationFails(r, c) PROVE PromiseStep
    <3>1. UNCHANGED <<accepted, retries>>
      BY <2>2 DEF TranslationFails
    <3>2. status' = status \/ (status' = "FAILED" /\ status = "PENDING")
      BY <2>2, Zenon DEF TranslationFails, TransitionToFailed, UpdateStatus, Undisturbed
    <3> QED BY <3>1, <3>2, <1>e DEF PromiseStep
  <2>3. CASE CountRetries(r)
    BY <2>3 DEF CountRetries, PromiseStep
  <2>4. CASE InsertRetryScheduled(r)
    BY <2>4 DEF InsertRetryScheduled, PromiseStep
  <2>5. CASE MoveToDeadLetter(r)
    <3>1. UNCHANGED <<accepted, retries>> /\ pc[r] = "bury"
      BY <2>5 DEF MoveToDeadLetter
    <3>2. status' = "DEAD_LETTER" /\ status = "FAILED"
      BY <2>5, Zenon DEF MoveToDeadLetter, UpdateStatus, Undisturbed
    <3> QED BY <3>1, <3>2, <1>0 DEF PromiseStep, RetryInv
  <2>6. CASE CheckSendable(r) \/ NoIdentity(r) \/ RereadClaimed(r) \/ RereadRetried(r)
    BY <2>6 DEF CheckSendable, NoIdentity, RereadClaimed, RereadRetried, PromiseStep
  <2>7. CASE ClaimSend(r)
    BY <2>7 DEF ClaimSend, ClaimForTransition, SendableStatus, PromiseStep
  <2>8. CASE AdapterAccepts(r)
    BY <2>8, <1>b, <1>c DEF AdapterAccepts, PromiseStep
  <2>9. ASSUME NEW c \in FailureClassification, SendFails(r, c) PROVE PromiseStep
    <3>1. UNCHANGED <<accepted, retries>> /\ pc[r] \in {"call", "accepted"}
      BY <2>9 DEF SendFails
    <3>2. pc[r] = "call"
      <4>1. pc[r] # "accepted"
        BY <2>9, Zenon DEF SendFails, Undisturbed
      <4> QED BY <3>1, <4>1
    <3>3. status' = status \/ status' = "FAILED"
      BY <2>9, Zenon DEF SendFails, TransitionToFailed, UpdateStatus
    <3> QED BY <3>1, <3>2, <3>3, <1>b, <1>c DEF PromiseStep
  <2>10. CASE RecordSendResult(r)
    <3>1. UNCHANGED <<accepted, retries>> /\ pc[r] = "accepted"
      BY <2>10 DEF RecordSendResult
    <3>2. status' = status \/ status' = Accepted
      BY <2>10, Zenon DEF RecordSendResult, UpdateStatus
    <3> QED BY <3>1, <3>2, <1>b, <1>d DEF PromiseStep
  <2>11. CASE ClaimRetry(r)
    BY <2>11 DEF ClaimRetry, ClaimForTransition, RetryableStatus, PromiseStep
  <2>12. CASE MarkTranslationEdited(r)
    BY <2>12 DEF MarkTranslationEdited, PromiseStep
  <2> QED
    BY <1>2, <2>1, <2>2, <2>3, <2>4, <2>5, <2>6, <2>7, <2>8, <2>9, <2>10, <2>11,
       <2>12 DEF Step
<1>3. ASSUME NEW r \in Requests, Crash(r) PROVE PromiseStep
  BY <1>3 DEF Crash, PromiseStep
<1>4. CASE ScheduledTimePasses
  BY <1>4 DEF ScheduledTimePasses, PromiseStep
<1>5. CASE UNCHANGED vars
  BY <1>5 DEF vars, PromiseStep
<1> QED
  BY <1>1, <1>2, <1>3, <1>4, <1>5 DEF Next

\* The statuses, and so the rows, go through the phases of the promise.
LEMMA PhaseStep ==
  ASSUME status \in Status \cup {"ABSENT"}, PromiseStep, Undisturbed
  PROVE  [Promise!Next]_(Promise!vars)
<1> USE AcceptedIsAnAnswer DEF Promise!Next, Promise!vars, Promise!Moves
<1>0. (overwritten \/ ambiguous)' = (overwritten \/ ambiguous)
  BY Zenon DEF Undisturbed
<1>1. CASE UNCHANGED <<status, accepted, retries>>
  <2>1. Phase' = Phase
    BY <1>1 DEF Phase
  <2> QED BY <1>0, <1>1, <2>1, Zenon
<1>2. CASE status = "ABSENT" /\ status' = "PENDING" /\ UNCHANGED <<accepted, retries>>
  <2>1. Phase = "none" /\ Phase' = "open"
    BY <1>2 DEF Phase
  <2> QED BY <1>0, <1>2, <2>1 DEF Promise!Compose
<1>3. CASE status = "PENDING" /\ status' = "SENDING" /\ UNCHANGED <<accepted, retries>>
  <2>1. Phase = "open" /\ Phase' = "sending"
    BY <1>3 DEF Phase
  <2> QED BY <1>0, <1>3, <2>1 DEF Promise!Attempt
<1>4. CASE /\ status = "SENDING" /\ accepted = 0 /\ accepted' = 1
           /\ UNCHANGED <<status, retries>>
  <2>1. Phase = "sending" /\ Phase' = "sending"
    BY <1>4 DEF Phase
  <2> QED BY <1>0, <1>4, <2>1 DEF Promise!Take
<1>5. CASE /\ status = "SENDING" /\ accepted = 1 /\ status' = Accepted
           /\ UNCHANGED <<accepted, retries>>
  <2>1. Phase = "sending" /\ Phase' = "delivered"
    BY <1>5 DEF Phase
  <2> QED BY <1>0, <1>5, <2>1 DEF Promise!Deliver
<1>6. CASE /\ status \in {"PENDING", "SENDING"} /\ accepted = 0 /\ status' = "FAILED"
           /\ UNCHANGED <<accepted, retries>>
  <2>1. Phase \in {"open", "sending"} /\ Phase' = "failed"
    BY <1>6 DEF Phase
  <2> QED BY <1>0, <1>6, <2>1 DEF Promise!Fail
<1>7. CASE retries' = retries + 1 /\ UNCHANGED <<status, accepted>>
  <2>1. Phase' = Phase
    BY <1>7 DEF Phase
  <2> QED BY <1>0, <1>7, <2>1 DEF Promise!Schedule
<1>8. CASE /\ status = "FAILED" /\ retries >= MaxAttempts /\ status' = "DEAD_LETTER"
           /\ UNCHANGED <<accepted, retries>>
  <2>1. Phase = "failed" /\ Phase' = "givenUp"
    BY <1>8 DEF Phase
  <2> QED BY <1>0, <1>8, <2>1 DEF Promise!GiveUp
<1>9. CASE /\ status \in {"FAILED", "DEAD_LETTER"} /\ status' = "PENDING"
           /\ UNCHANGED <<accepted, retries>>
  <2>1. Phase \in {"failed", "givenUp"} /\ Phase' = "open"
    BY <1>9 DEF Phase
  <2> QED BY <1>0, <1>9, <2>1 DEF Promise!Retry
<1> QED
  BY <1>1, <1>2, <1>3, <1>4, <1>5, <1>6, <1>7, <1>8, <1>9 DEF PromiseStep

\* Outbound implements Delivery: whatever requests overlap or die, the message is
\* attempted once at a time, taken once, and given up only at the cap.
THEOREM OutboundImplementsDelivery == Spec => DeliversAsPromised
<1>1. Init => Promise!Init
  <2> SUFFICES ASSUME Init PROVE Promise!Init
    OBVIOUS
  <2>1. Phase = "none" /\ accepted = 0 /\ retries = 0
    BY DEF Init, Phase
  <2>2. (overwritten \/ ambiguous) = FALSE
    BY Zenon DEF Init
  <2> QED BY <2>1, <2>2, Zenon DEF Promise!Init
<1>2. RefinementInv /\ RefinementInv' /\ [Next]_vars => [Promise!Next]_(Promise!vars)
  <2> SUFFICES ASSUME RefinementInv, RefinementInv', [Next]_vars
               PROVE  [Promise!Next]_(Promise!vars)
    OBVIOUS
  <2>0. FlagsOK /\ FlagsOK' /\ status \in Status \cup {"ABSENT"}
    BY Zenon DEF RefinementInv, TypeOK
  <2>1. CASE Disturbed'
    <3>1. (overwritten \/ ambiguous)' = TRUE
      BY <2>1, Zenon DEF Disturbed
    <3> QED BY <3>1, Zenon DEF Promise!Next, Promise!Disturb
  <2>2. CASE ~Disturbed'
    <3>1. Undisturbed
      BY <2>0, <2>2, DisturbedStays, Zenon DEF Undisturbed, Disturbed
    <3> QED BY <2>0, <3>1, UndisturbedStep, PhaseStep
  <2> QED BY <2>1, <2>2
<1> QED
  BY <1>1, <1>2, RefinementInvariant, PTL DEF Spec, DeliversAsPromised, Promise!Spec
=============================================================================
