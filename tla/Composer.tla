------------------------------ MODULE Composer ------------------------------
(***************************************************************************)
(* An agent writes in one conversation: the page and its compose field     *)
(* (composer.tsx, message-thread.tsx), the server actions they call        *)
(* (actions/messages.ts) and what sendMessage and confirmAndSend do with a *)
(* text, while colleagues, the contact and the language detection change   *)
(* the languages.  The page knows what it was told when it was loaded or   *)
(* refreshed.  Claims and concurrent requests on one row are the subject   *)
(* of Outbound; here one page has one request under way.                   *)
(***************************************************************************)
EXTENDS Languages, Naturals, Sequences, FiniteSets

CONSTANTS
  Glossary,     \* the languages there are glossary terms for, from the agent's own
  MaxMessages,  \* bound: rows this page inserts
  MaxChanges    \* bound: changes of a language setting

ASSUME ComposerBounds ==
  Glossary \subseteq Langs /\ MaxMessages \in Nat /\ MaxChanges \in Nat

VARIABLES
  \* --- the database ---
  ctx,       \* the language settings
  messages,  \* the rows inserted from this page, in order
  retried,   \* the rows that a retry is at work on
  \* --- the page ---
  shown,     \* targetLanguage, as the page was told it
  ui,        \* what the compose field shows, and whether a request is pending
  draft,     \* the row under review: its number, the text last told and the box; 0 if none
  text,      \* which text the agent is writing: 1, 2, ...
  \* --- the request ---
  request,   \* the step the server is at, and on which row
  \* --- history ---
  changes,   \* how many language settings have changed
  asOf,      \* how many had when the page was told
  lost,      \* the texts whose request was not answered
  failed     \* rows whose translation failed; whose edit was stored by a confirmation that
             \* failed; and those an error was answered for after they had left PENDING

vars == <<ctx, messages, retried, shown, ui, draft, text, request, changes, asOf, lost, failed>>

NoRequest == [at |-> "none", row |-> 0, review |-> FALSE, shown |-> Null, asOf |-> 0]
NoDraft   == [row |-> 0, told |-> "none", box |-> "none"]
Rows      == 1..Len(messages)
Texts     == 1..(MaxMessages + 1)
Contents  == {"none", "machine", "edited"}  \* of translatedText: null, translated, rewritten

\* The steps of a request at which its row may have left PENDING, and all of them.
Claimed == {"channel", "taken", "record"}
Working == {"insert", "translate", "send", "edit", "store", "confirm"} \cup Claimed

TypeOK ==
  /\ ctx \in Context /\ shown \in Langs
  /\ messages \in Seq([lang : Langs, shown : Langs, excused : BOOLEAN, of : Texts,
                       review : BOOLEAN, terms : BOOLEAN, content : Contents,
                       approved : Contents, confirmed : SUBSET Contents, sent : Contents,
                       status : {"PENDING", "SENDING", "FAILED", "SENT"}])
  /\ Len(messages) <= MaxMessages /\ retried \subseteq Rows
  /\ ui \in {"compose", "sending", "review", "confirming"}
  /\ draft \in [row : {0} \cup Rows, told : Contents, box : Contents]
  /\ text \in Texts
  /\ request \in [at : Working \cup {"none", "draft", "ok", "error"},
                  row : {0} \cup Rows, review : BOOLEAN, shown : Optional, asOf : 0..MaxChanges]
  /\ changes \in 0..MaxChanges /\ asOf \in 0..changes
  /\ lost \subseteq Texts
  /\ failed \in [translation : SUBSET Rows, afterEdit : SUBSET Rows, answer : SUBSET Rows]
  /\ ui \in {"compose", "review"} <=> request.at = "none"

Init ==
  /\ ctx \in [override : {Null}, preferred : Optional, detected : Optional, org : Langs]
  /\ messages = <<>> /\ retried = {}
  /\ shown = ResolveTargetLanguage(ctx)
  /\ ui = "compose" /\ draft = NoDraft /\ text = 1 /\ request = NoRequest
  /\ changes = 0 /\ asOf = 0 /\ lost = {}
  /\ failed = [translation |-> {}, afterEdit |-> {}, answer |-> {}]

-----------------------------------------------------------------------------
(* The languages change                                                       *)

Change(new) ==
  /\ changes < MaxChanges /\ new # ctx
  /\ ctx' = new /\ changes' = changes + 1
  /\ UNCHANGED <<messages, retried, shown, ui, draft, text, request, asOf, lost, failed>>

SetLanguageOverride(l) == [ctx EXCEPT !.override = l]

SetConversationLanguageOverride(l) == Change(SetLanguageOverride(l))

\* setContactLanguage of an agent, handleCallbackQuery of the Telegram webhook.
UpdatePreferredLanguage(l) == Change([ctx EXCEPT !.preferred = l])

\* Every inbound message of a contact without a preferred language.
UpdateDetectedLanguage(l) == ctx.preferred = Null /\ Change([ctx EXCEPT !.detected = l])

UpdateOrgSettings(l) == Change([ctx EXCEPT !.org = l])

-----------------------------------------------------------------------------
(* The page                                                                   *)

Told == shown' = ResolveTargetLanguage(ctx) /\ asOf' = changes

\* router.refresh: the server's props are new, the state of the client stays.
RefreshPage ==
  /\ asOf # changes
  /\ Told
  /\ UNCHANGED <<ctx, messages, retried, ui, draft, text, request, changes, lost, failed>>

\* The agent leaves or reloads the page: a draft under review is forgotten, and so
\* is the answer to a request; the server finishes the request all the same.
ReloadPage ==
  /\ request.at \in {"none", "draft", "ok", "error"}
  /\ Told
  /\ ui' = "compose" /\ draft' = NoDraft
  /\ lost' = IF request.at = "none" THEN lost ELSE lost \cup {text}
  /\ request' = NoRequest
  /\ UNCHANGED <<ctx, messages, retried, text, changes, failed>>

\* handleSubmit in the mode "reply", with the review box ticked or not; whatever
\* the organization's reviewBeforeSendDefault, the page passes false.
Submit(review) ==
  /\ ui = "compose" /\ Len(messages) < MaxMessages
  /\ ui' = "sending"
  /\ request' = [at |-> "insert", row |-> 0, review |-> review, shown |-> shown, asOf |-> asOf]
  /\ UNCHANGED <<ctx, messages, retried, shown, draft, text, changes, asOf, lost, failed>>

\* The agent rewrites the draft, or restores what the translation said.
EditDraft(box) ==
  /\ ui = "review" /\ draft.box # box
  /\ draft' = [draft EXCEPT !.box = box]
  /\ UNCHANGED <<ctx, messages, retried, shown, ui, text, request, changes, asOf, lost, failed>>

\* Mutant: an edited draft is confirmed without being stored.
HandleConfirmSend_NoEdit ==
  /\ ui = "review"
  /\ ui' = "confirming"
  /\ request' = [NoRequest EXCEPT !.at = "confirm", !.row = draft.row]
  /\ messages' = [messages EXCEPT ![draft.row].approved = draft.box,
                                  ![draft.row].confirmed = @ \cup {draft.box}]
  /\ UNCHANGED <<ctx, retried, shown, draft, text, changes, asOf, lost, failed>>

\* handleConfirmSend: the box is compared with the text the page was told when the
\* draft came back, not with what an earlier attempt has stored.
HandleConfirmSend ==
  /\ ui = "review"
  /\ ui' = "confirming"
  /\ request' = [NoRequest EXCEPT !.at = IF draft.box # draft.told THEN "edit" ELSE "confirm",
                                !.row = draft.row]
  /\ messages' = [messages EXCEPT ![draft.row].approved = draft.box,
                                  ![draft.row].confirmed = @ \cup {draft.box}]
  /\ UNCHANGED <<ctx, retried, shown, draft, text, changes, asOf, lost, failed>>

\* Mutant: an answered text stays in the field to be sent again.
ReceiveAnswer_TextStays ==
  /\ request.at \in {"draft", "ok", "error"}
  /\ request' = NoRequest
  /\ ui' = IF request.at = "draft" \/ ui = "confirming" THEN "review" ELSE "compose"
  /\ draft' = IF request.at = "draft"
              THEN [row |-> request.row, told |-> "machine", box |-> "machine"] ELSE draft
  /\ UNCHANGED <<ctx, messages, retried, shown, text, changes, asOf, lost, failed>>

\* The answer arrives: a draft to review, a message that was sent or failed (the
\* field is cleared for the next text), or an error (everything stays).
ReceiveAnswer ==
  /\ request.at \in {"draft", "ok", "error"}
  /\ request' = NoRequest
  /\ CASE request.at = "draft" ->
            /\ ui' = "review"
            /\ draft' = [row |-> request.row, told |-> "machine", box |-> "machine"]
            /\ UNCHANGED text
       [] request.at = "ok" -> ui' = "compose" /\ draft' = NoDraft /\ text' = text + 1
       [] request.at = "error" ->
            /\ ui' = IF ui = "sending" THEN "compose" ELSE "review"
            /\ UNCHANGED <<draft, text>>
  /\ UNCHANGED <<ctx, messages, retried, shown, changes, asOf, lost, failed>>

-----------------------------------------------------------------------------
(* The server                                                                 *)

At(step) == request.at = step
Proceed(step, row) == request' = [request EXCEPT !.at = step, !.row = row]
Unmoved == UNCHANGED <<ctx, retried, shown, ui, draft, text, changes, asOf, lost>>

\* Mutant: the row takes the default language of the organization.
InsertReply_OrgDefault ==
  /\ At("insert")
  /\ messages' = Append(messages,
       [lang |-> ctx.org, shown |-> request.shown,
        excused |-> request.asOf # changes, of |-> text, review |-> request.review,
        terms |-> FALSE, content |-> "none", approved |-> "none", confirmed |-> {},
        sent |-> "none", status |-> "PENDING"])
  /\ Proceed("translate", Len(messages) + 1)
  /\ Unmoved /\ UNCHANGED failed

\* sendMessage resolves the language anew and inserts; the compose field sends no
\* clientIdempotencyKey, so a text submitted twice makes two rows.
InsertReply ==
  /\ At("insert")
  /\ messages' = Append(messages,
       [lang |-> ResolveTargetLanguage(ctx), shown |-> request.shown,
        excused |-> request.asOf # changes, of |-> text, review |-> request.review,
        terms |-> FALSE, content |-> "none", approved |-> "none", confirmed |-> {},
        sent |-> "none", status |-> "PENDING"])
  /\ Proceed("translate", Len(messages) + 1)
  /\ Unmoved /\ UNCHANGED failed

\* The terms the engine gives to the provider.  It looks them up for a known source
\* language only, and sendMessage and its retries supply none.
SourceSupplied == Null
AppliesTerms(lang) == SourceSupplied # Null /\ lang \in Glossary

\* The review gate: a draft is answered, anything else goes to the channel.
TranslateReply ==
  /\ At("translate")
  /\ messages' = [messages EXCEPT ![request.row].content = "machine",
                    ![request.row].terms = AppliesTerms(messages[request.row].lang)]
  /\ Proceed(IF request.review THEN "draft" ELSE "send", request.row)
  /\ Unmoved /\ UNCHANGED failed

\* FAILED is stored, also for a text that was to be reviewed.
TranslationFails ==
  /\ At("translate")
  /\ messages' = [messages EXCEPT ![request.row].status = "FAILED"]
  /\ failed' = [failed EXCEPT !.translation = @ \cup {request.row}]
  /\ Proceed("record", request.row)
  /\ Unmoved

\* recordTranslationEdit reads the row, which must be PENDING, ...
RecordTranslationEdit ==
  /\ At("edit")
  /\ Proceed(IF messages[request.row].status = "PENDING" THEN "store" ELSE "error", request.row)
  /\ Unmoved /\ UNCHANGED <<messages, failed>>

\* ... and writes the wording, whatever has become of the row meanwhile.
MarkTranslationEdited ==
  /\ At("store")
  /\ messages' = [messages EXCEPT ![request.row].content = draft.box]
  /\ Proceed("confirm", request.row)
  /\ Unmoved /\ UNCHANGED failed

\* confirmAndSend claims the row: a row that is not PENDING is refused.
ClaimReply ==
  /\ At("send") \/ At("confirm")
  /\ IF messages[request.row].status = "PENDING"
     THEN /\ messages' = [messages EXCEPT ![request.row].status = "SENDING"]
          /\ Proceed("channel", request.row)
     ELSE Proceed("error", request.row) /\ UNCHANGED messages
  /\ Unmoved /\ UNCHANGED failed

\* The channel takes the wording, and SENT is stored; or the channel refuses it, and
\* FAILED is stored.
ChannelTakes ==
  /\ At("channel")
  /\ messages' = [messages EXCEPT ![request.row].sent = messages[request.row].content]
  /\ Proceed("taken", request.row)
  /\ Unmoved /\ UNCHANGED failed

StoreOutcome ==
  /\ \/ At("taken") /\ messages' = [messages EXCEPT ![request.row].status = "SENT"]
     \/ At("channel") /\ messages' = [messages EXCEPT ![request.row].status = "FAILED"]
  /\ Proceed("record", request.row)
  /\ Unmoved /\ UNCHANGED failed

\* The event of the outcome is inserted, the next retry scheduled, the outcome answered.
AnswerOutcome ==
  /\ At("record")
  /\ Proceed("ok", request.row)
  /\ Unmoved /\ UNCHANGED <<messages, failed>>

\* A call throws, at any of these steps: the action answers with an error and the row
\* stays as it is, be it PENDING, left in SENDING, or already SENT or FAILED.
ActionFails ==
  /\ request.at \in Working
  /\ failed' = [failed EXCEPT
       !.afterEdit = IF draft.row # 0 /\ messages[draft.row].content # draft.told
                     THEN @ \cup {draft.row} ELSE @,
       !.answer = IF request.at \in Claimed THEN @ \cup {request.row} ELSE @]
  /\ Proceed("error", request.row)
  /\ Unmoved /\ UNCHANGED messages

\* retryMessage, by the worker or by "Retry" in the thread, claims a FAILED row, whatever
\* the page is doing with it: the row is PENDING again.
RetryReply(i) ==
  /\ messages[i].status = "FAILED"
  /\ messages' = [messages EXCEPT ![i].status = "PENDING"]
  /\ retried' = retried \cup {i}
  /\ UNCHANGED <<ctx, shown, ui, draft, text, request, changes, asOf, lost, failed>>

\* The retry goes on, unless somebody else has claimed the row: a row without
\* translation is translated, and sent without review.  One that stops half way leaves
\* the row PENDING (it takes no step here) or SENDING, which the page is refused as it is
\* a row that is SENT, or FAILED and not retried.
RetrySends(i) ==
  /\ i \in retried /\ messages[i].status = "PENDING"
  /\ LET now == [messages[i] EXCEPT
           !.content = IF @ = "none" THEN "machine" ELSE @,
           !.terms = IF messages[i].content = "none" THEN AppliesTerms(messages[i].lang) ELSE @]
     IN  messages' \in {
           [messages EXCEPT ![i] = [now EXCEPT !.status = "SENT", !.sent = now.content]],
           [messages EXCEPT ![i] = [now EXCEPT !.status = "FAILED"]],
           [messages EXCEPT ![i].status = "FAILED"]}
  /\ retried' = retried \ {i}
  /\ UNCHANGED <<ctx, shown, ui, draft, text, request, changes, asOf, lost, failed>>

-----------------------------------------------------------------------------
Next ==
  \/ \E l \in Optional : SetConversationLanguageOverride(l)
  \/ \E l \in Langs :
       UpdatePreferredLanguage(l) \/ UpdateDetectedLanguage(l) \/ UpdateOrgSettings(l)
  \/ RefreshPage \/ ReloadPage
  \/ \E review \in BOOLEAN : Submit(review)
  \/ \E box \in {"machine", "edited"} : EditDraft(box)
  \/ HandleConfirmSend \/ ReceiveAnswer
  \/ InsertReply \/ TranslateReply \/ TranslationFails
  \/ RecordTranslationEdit \/ MarkTranslationEdited
  \/ ClaimReply \/ ChannelTakes \/ StoreOutcome \/ AnswerOutcome \/ ActionFails
  \/ \E i \in Rows : RetryReply(i) \/ RetrySends(i)

Spec == Init /\ [][Next]_vars

-----------------------------------------------------------------------------
(* Properties                                                                 *)

\* What reaches a contact after a review is a wording the agent confirmed, and the one
\* confirmed last.  A translation that failed breaks it all: its row is retried and sent
\* without a review.  Two things can bring back a wording confirmed before the last
\* one: an edit stored by a confirmation that then failed, which stays when the agent
\* puts the old wording back; and an error answered for a row that had left PENDING,
\* since the row goes out as it is and what the agent confirms next is refused.
SentAsReviewed ==
  \A i \in Rows :
    messages[i].review /\ messages[i].sent # "none" =>
      \/ i \in failed.translation
      \/ /\ messages[i].sent \in messages[i].confirmed
         /\ messages[i].sent = messages[i].approved \/ i \in failed.afterEdit \cup failed.answer

\* The text is worth writing again: its request was not answered, or an error was
\* answered though its row had been sent or had failed and would be retried.
MayBeRepeated(t) == t \in lost \/ \E k \in failed.answer : messages[k].of = t

\* Two rows of one text reach the contact only if the agent had reason to write it again.
OneMessagePerText ==
  \A i, j \in Rows :
    /\ messages[i].of = messages[j].of
    /\ messages[i].sent # "none" /\ messages[j].sent # "none"
    => i = j \/ MayBeRepeated(messages[i].of)

\* A text is translated to the language the page said it would be, unless a
\* setting has changed since the page was told.
TranslatedAsShown ==
  \A i \in Rows : messages[i].lang = messages[i].shown \/ messages[i].excused

\* glossary-section.tsx promises that the terms are merged into every translation
\* call for their languages: not into those of what an agent writes.
GlossaryApplied ==
  \A i \in Rows :
    messages[i].content # "none" => (messages[i].terms <=> messages[i].lang \in Glossary)
=============================================================================
