-------------------------- MODULE ChannelAdapters --------------------------
(***************************************************************************)
(* What the sendMessage of each channel adapter and the translation        *)
(* provider may throw, and how failureClassifier.ts reads it.  An error is *)
(* what the classifier can tell apart: the hint and the status in its      *)
(* detail, and whether its message says that a language is not supported.  *)
(***************************************************************************)
EXTENDS MessageStatus, Naturals

Channels == {"TELEGRAM", "WHATSAPP", "ANDROID_SMS"}

\* The HTTP statuses that stand for the answers of the channels: 200, refusals of
\* several kinds, too many requests, and failures of the service.
Refused  == {400, 401, 403, 404, 429}
Broken   == {500, 502, 503}
HttpStatus == {200} \cup Refused \cup Broken

\* An AppError; status 0 when its detail has none.  Only an UpstreamAdapterError is
\* ever thrown with a hint or a status.
AppError == [hint : FailureClassification \cup {"none"},
             status : HttpStatus \cup {0}, unsupported : BOOLEAN]

Plain         == [hint |-> "none", status |-> 0, unsupported |-> FALSE]
Hinted(class) == [Plain EXCEPT !.hint = class]
WithStatus(s) == [Plain EXCEPT !.status = s]

-----------------------------------------------------------------------------
(* failureClassifier                                                          *)

ClassifyByHttpStatus(s) ==
  IF s >= 400 /\ s < 500 /\ s # 429 THEN "permanent" ELSE "transient"

\* Whatever says nothing of itself is taken for transient.
ClassifyAdapterFailure(error) ==
  IF error.hint # "none" THEN error.hint ELSE ClassifyByHttpStatus(error.status)

ClassifyTranslationFailure(error) ==
  IF error.unsupported THEN "permanent" ELSE ClassifyAdapterFailure(error)

-----------------------------------------------------------------------------
(* What a call may throw; "took" says whether the channel took the message.   *)

\* No stored credentials, or malformed ones: the call is not made.  The class of the
\* error says so, its detail does not.
DecryptTelegramCredentials(took) == IF took THEN {} ELSE {Plain}
DecryptWhatsAppCredentials(took) == IF took THEN {} ELSE {Plain}

NetworkError == Hinted("transient")

\* A refusal has the status of the answer.  The answer to a message that was taken may
\* be lost, be unreadable, or be replaced by an error of a proxy.
CallTelegramApi(took) ==
  {NetworkError} \cup {WithStatus(s) : s \in IF took THEN {200} \cup Broken
                                               ELSE Refused \cup Broken}

\* Any answer without the id of a message is an error, a 200 too.
PostMessage(took) ==
  {NetworkError} \cup {WithStatus(s) : s \in IF took THEN {200} \cup Broken
                                               ELSE HttpStatus}

TelegramSendMessage(took) == DecryptTelegramCredentials(took) \cup CallTelegramApi(took)
WhatsAppSendMessage(took) == DecryptWhatsAppCredentials(took) \cup PostMessage(took)

\* No call: a revoked device is refused, every other message is queued for pickup.
AndroidSendMessage(took) == IF took THEN {} ELSE {Hinted("permanent")}

SendMessage(channel, took) ==
  CASE channel = "TELEGRAM"    -> TelegramSendMessage(took)
    [] channel = "WHATSAPP"    -> WhatsAppSendMessage(took)
    [] channel = "ANDROID_SMS" -> AndroidSendMessage(took)

\* What sendMessage answers when it does not throw.
Answered(channel) == IF channel = "ANDROID_SMS" THEN "QUEUED" ELSE "SENT"

\* Without an API key the provider throws before it calls.
GetClient == {Plain}

\* Whatever the OpenAI client throws is wrapped, with neither its status nor its message.
Wrapped(error) == Plain

Translate == GetClient \cup {Wrapped(WithStatus(s)) : s \in HttpStatus}
=============================================================================
