------------------------------ MODULE Inbound ------------------------------
(***************************************************************************)
(* The life of one inbound message row (inboundService.ts and the webhook  *)
(* routes that call it).  The channel may deliver the same message to any  *)
(* number of webhook requests, also at the same time, and agents may press *)
(* "Retry" on a failed translation; requests meet only in the database.    *)
(* A translation is made with the terms the organization's glossaries hold *)
(* for the language of the message (engine.ts, openai.ts), which managers  *)
(* edit at any time.  Contact resolution, which precedes the insert, is    *)
(* left to the request's first step: here it only succeeds or throws.  The *)
(* language translated to is stored with the row and never changes.        *)
(***************************************************************************)
EXTENDS MessageStatus, Naturals, FiniteSets

CONSTANTS
  Webhooks,  \* requests by which the channel delivers the message
  Users,     \* "Retry" requests of agents
  Langs,     \* languages a message may be in
  Null,      \* a null column
  Detections, \* what the provider may take the text of the message for
  Glossaries, \* the languages there are glossary terms for at first
  MaxEdits,  \* bound: edits of the glossaries and of the contact's languages
  CanCrash   \* whether a server instance may die between two steps

ASSUME InboundRequestsAssumption ==
  Webhooks \cap Users = {} /\ IsFiniteSet(Webhooks \cup Users)
ASSUME InboundCrashAssumption == CanCrash \in BOOLEAN
ASSUME InboundLanguagesAssumption ==
  Null \notin Langs /\ Detections \cup Glossaries \subseteq Langs /\ MaxEdits \in Nat

VARIABLES
  \* --- the database ---
  status,       \* Message.status, "ABSENT" before the insert
  source,       \* Message.sourceLanguage
  translation,  \* Message.translatedText: was it made with a glossary, begun when
  preferred,    \* Contact.preferredLanguage
  detected,     \* Contact.detectedLanguage
  glossary,     \* the languages there are glossary terms for
  \* --- the requests ---
  pc,           \* where each request is suspended
  seen,         \* the status and the language the request goes by
  \* --- the outside ---
  acked,        \* the channel was answered 200 and need not deliver again
  offered,      \* some agent's page shows the row as FAILED, with "Retry"
  \* --- history ---
  overlapped,   \* two requests have worked on the translation at once
  crashed,      \* a server instance has died
  begun,        \* how many deliveries of the message have set about its translation
  edits         \* how many edits of the glossaries and the contact's languages

row     == <<status, source, translation>>
contact == <<preferred, detected>>
terms   == <<glossary, edits>>
history == <<overlapped, crashed, begun>>
vars    == <<row, contact, terms, pc, seen, acked, offered, history>>

Requests == Webhooks \cup Users
Labels   == {"idle", "insert", "retry", "retryRead", "detect", "glossary", "translate"}
Optional == Langs \cup {Null}
NoCopy   == [status |-> "ABSENT", source |-> Null, detect |-> FALSE, terms |-> FALSE,
             asOf |-> 0]

\* The requests that will still write the outcome of a translation.
Working == {r \in Requests : pc[r] \in Labels \ {"idle", "insert"}}

\* The row, the requests and their copies are well-formed, and only webhooks
\* insert, only agents retry.
TypeOK ==
  /\ status \in {"ABSENT", "PENDING", "DELIVERED", "FAILED"}
  /\ source \in Optional /\ preferred \in Optional /\ detected \in Optional
  /\ translation \in {Null} \cup [terms : BOOLEAN, asOf : 0..MaxEdits]
  /\ glossary \subseteq Langs /\ edits \in 0..MaxEdits
  /\ pc \in [Requests -> Labels]
  /\ seen \in [Requests -> [status : Status \cup {"ABSENT"}, source : Optional,
                            detect : BOOLEAN, terms : BOOLEAN, asOf : 0..MaxEdits]]
  /\ acked \in BOOLEAN /\ offered \in BOOLEAN
  /\ overlapped \in BOOLEAN /\ crashed \in BOOLEAN /\ begun \in Nat
  /\ \A w \in Webhooks : pc[w] \notin {"retry", "retryRead"}
  /\ \A u \in Users : pc[u] # "insert"

Init ==
  /\ status = "ABSENT" /\ source = Null /\ translation = Null
  /\ preferred = Null /\ detected = Null
  /\ glossary = Glossaries /\ edits = 0
  /\ pc = [r \in Requests |-> "idle"]
  /\ seen = [r \in Requests |-> NoCopy]
  /\ acked = FALSE /\ offered = FALSE
  /\ overlapped = FALSE /\ crashed = FALSE /\ begun = 0

Goto(r, label, copy) ==
  /\ pc' = [pc EXCEPT ![r] = label]
  /\ seen' = [seen EXCEPT ![r] = copy]

Return(r) == Goto(r, "idle", NoCopy)

\* The answer 200 of a webhook, unless a later message of the same payload throws;
\* a retry answers only its own user.
ReturnOk(r) == Return(r) /\ acked' \in {acked, acked \/ r \in Webhooks}

StartsWorking(r) ==
  /\ overlapped' = (overlapped \/ Working # {})
  /\ begun' = IF r \in Webhooks THEN begun + 1 ELSE begun

-----------------------------------------------------------------------------
(* processInboundMessage                                                      *)

\* The channel delivers until it is answered 200, and possibly once more.  The
\* contact is resolved and its languages are read; what they say later does not
\* matter to this request.
Deliver(w) ==
  /\ pc[w] = "idle" /\ w \in Webhooks
  /\ Goto(w, "insert", [NoCopy EXCEPT
       !.status = "PENDING", !.asOf = edits,
       !.source = IF preferred # Null THEN preferred ELSE detected,
       !.detect = preferred = Null])
  /\ UNCHANGED <<row, contact, terms, acked, offered, history>>

\* Mutant: the route answers 200 whatever happened.
HandlerThrows_Swallowed(w) ==
  /\ pc[w] = "insert"
  /\ ReturnOk(w)
  /\ UNCHANGED <<row, contact, terms, offered, history>>

\* Resolving the contact or the insert itself throws: handleRouteError, a 500.
HandlerThrows(w) ==
  /\ pc[w] = "insert"
  /\ Return(w)
  /\ UNCHANGED <<row, contact, terms, acked, offered, history>>

\* The row is stored before any call to the translation provider.
InsertReceived(w) ==
  /\ pc[w] = "insert"
  /\ status = "ABSENT"
  /\ status' = "PENDING"
  /\ source' = seen[w].source
  /\ Goto(w, IF seen[w].detect THEN "detect" ELSE "glossary", seen[w])
  /\ StartsWorking(w)
  /\ UNCHANGED <<translation, contact, terms, acked, offered, crashed>>

\* Mutant: a redelivered message is translated once more.
AnswerDuplicate_Reprocessed(w) ==
  /\ pc[w] = "insert"
  /\ status # "ABSENT"
  /\ Goto(w, "glossary", seen[w])
  /\ StartsWorking(w)
  /\ UNCHANGED <<row, contact, terms, acked, offered, crashed>>

\* P2002 on idempotencyKey: 200 at once, even while the request that did insert
\* is still translating.
AnswerDuplicate(w) ==
  /\ pc[w] = "insert"
  /\ status # "ABSENT"
  /\ ReturnOk(w)
  /\ UNCHANGED <<row, contact, terms, offered, history>>

UpdateDetectedLanguage(l) == detected' = l

\* detectLanguage answered (or throws: TranslationFails), and the contact is updated
\* with the language.
LanguageDetected(r) ==
  /\ pc[r] = "detect"
  /\ \E l \in Detections :
       /\ UpdateDetectedLanguage(l)
       /\ Goto(r, "glossary", [seen[r] EXCEPT !.source = l])
  /\ UNCHANGED <<row, preferred, terms, acked, offered, history>>

\* findApplicableTerms, which the engine asks only about a known language.
ApplicableTerms(l) == l # Null /\ l \in glossary

\* engine.translate reads the glossaries, then awaits the provider.
FindApplicableTerms(r) ==
  /\ pc[r] = "glossary"
  /\ Goto(r, "translate", [seen[r] EXCEPT !.terms = ApplicableTerms(seen[r].source)])
  /\ UNCHANGED <<row, contact, terms, acked, offered, history>>

\* Mutant: what the model says about the language is preferred.
Translated_Echo(copy, echo) == [source |-> echo, terms |-> copy.terms]

\* The provider follows the terms in its prompt and names a language of its own, which
\* counts only where the caller supplied none.
Translated(copy, echo) ==
  [source |-> IF copy.source # Null THEN copy.source ELSE echo, terms |-> copy.terms]

\* One statement, with no status predicate.
UpdateTranslationResult(t, asOf) ==
  /\ status' = "DELIVERED" /\ source' = t.source
  /\ translation' = [terms |-> t.terms, asOf |-> asOf]

\* The provider answered.
StoreDelivered(r) ==
  /\ pc[r] = "translate"
  /\ \E echo \in Langs : UpdateTranslationResult(Translated(seen[r], echo), seen[r].asOf)
  /\ ReturnOk(r)
  /\ UNCHANGED <<contact, terms, offered, history>>

\* Mutant: the failure is noted but the status is left for later.
TranslationFails_NotRecorded(r) ==
  /\ pc[r] \in {"detect", "glossary", "translate"}
  /\ ReturnOk(r)
  /\ UNCHANGED <<row, contact, terms, offered, history>>

\* Any of the calls threw: transitionToFailed checks the copy and writes FAILED; the
\* webhook is still answered 200.
TranslationFails(r) ==
  /\ pc[r] \in {"detect", "glossary", "translate"}
  /\ IF CanTransition(seen[r].status, "FAILED")
       THEN /\ status' = "FAILED" /\ offered' = TRUE
            /\ ReturnOk(r)
       ELSE /\ Return(r)
            /\ UNCHANGED <<status, offered, acked>>
  /\ UNCHANGED <<source, translation, contact, terms, history>>

-----------------------------------------------------------------------------
(* retryInboundTranslation                                                    *)

\* Mutant: the retry does not look at the status.
RetryAllowed_Always == status # "ABSENT"

\* assertValidTransition(message.status, "PENDING"), on a plain read.
RetryAllowed == status # "ABSENT" /\ CanTransition(status, "PENDING")

\* A page that once showed FAILED may be stale when its button is pressed.
BeginRetry(u) ==
  /\ pc[u] = "idle" /\ u \in Users
  /\ offered
  /\ RetryAllowed
  /\ Goto(u, "retry", [NoCopy EXCEPT !.asOf = edits])
  /\ StartsWorking(u)
  /\ UNCHANGED <<row, contact, terms, acked, offered, crashed>>

\* updateStatus without a predicate ...
WritePending(u) ==
  /\ pc[u] = "retry"
  /\ status' = "PENDING"
  /\ Goto(u, "retryRead", seen[u])
  /\ UNCHANGED <<source, translation, contact, terms, acked, offered, history>>

\* ... and the re-read that ends it: the copy is the row as it then stands.
ReadPending(u) ==
  /\ pc[u] = "retryRead"
  /\ Goto(u, IF source = Null THEN "detect" ELSE "glossary",
          [seen[u] EXCEPT !.status = status, !.source = source, !.detect = source = Null])
  /\ UNCHANGED <<row, contact, terms, acked, offered, history>>

-----------------------------------------------------------------------------
(* The contact's own choice of a language, the glossaries, server crashes.    *)

\* handleCallbackQuery: /language, in the chat with the bot.
LanguageChosen(l) ==
  /\ edits < MaxEdits /\ edits' = edits + 1
  /\ preferred # l /\ preferred' = l
  /\ UNCHANGED <<row, detected, glossary, pc, seen, acked, offered, history>>

\* Another message of the contact is detected to be in l.
OtherDetected(l) ==
  /\ edits < MaxEdits /\ edits' = edits + 1
  /\ detected # l /\ UpdateDetectedLanguage(l)
  /\ UNCHANGED <<row, preferred, glossary, pc, seen, acked, offered, history>>

EditGlossary(new) ==
  /\ edits < MaxEdits /\ edits' = edits + 1
  /\ glossary' = new
  /\ UNCHANGED <<row, contact, pc, seen, acked, offered, history>>

CreateGlossary(l)    == l \notin glossary /\ EditGlossary(glossary \cup {l})
UpdateGlossary(l, k) == l \in glossary /\ k # l /\ EditGlossary((glossary \ {l}) \cup {k})
DeleteGlossary(l)    == l \in glossary /\ EditGlossary(glossary \ {l})

Crash(r) ==
  /\ CanCrash
  /\ pc[r] # "idle"
  /\ Return(r)
  /\ crashed' = TRUE
  /\ UNCHANGED <<row, contact, terms, acked, offered, overlapped, begun>>

Step(r) ==
  \/ HandlerThrows(r) \/ InsertReceived(r) \/ AnswerDuplicate(r)
  \/ LanguageDetected(r) \/ FindApplicableTerms(r) \/ StoreDelivered(r)
  \/ TranslationFails(r)
  \/ WritePending(r) \/ ReadPending(r)

Next ==
  \/ \E r \in Requests : Deliver(r) \/ BeginRetry(r) \/ Step(r) \/ Crash(r)
  \/ \E l \in Langs :
       LanguageChosen(l) \/ OtherDetected(l) \/ CreateGlossary(l) \/ DeleteGlossary(l)
  \/ \E l, k \in Langs : UpdateGlossary(l, k)

Spec == Init /\ [][Next]_vars

\* A request that has begun runs to its end (the provider's client has a
\* timeout); nobody is obliged to deliver or to press "Retry".
FairSpec == Spec /\ \A r \in Requests : WF_vars(Step(r))

-----------------------------------------------------------------------------
\* The channel stops delivering a message only once it is stored: whatever fails
\* before the insert, in whichever delivery, the message is not lost.
AckedIsStored == acked => status # "ABSENT"

\* However many deliveries of the message overlap, fail, die or come when it has long
\* been handled, one of them at most sets about its translation: the provider is not
\* called (and paid) again for a redelivery, not even where the first one failed.
WebhooksTranslateOnce == begun <= 1

\* A message that reached the inbox translated stays so: neither a redelivery,
\* nor a retry from a stale page, nor a crash takes DELIVERED back.  Only two
\* requests that worked on it at the same moment can.
DeliveredIsFinal ==
  [][status = "DELIVERED" /\ status' # "DELIVERED" => overlapped]_vars

\* Every stored message ends up translated or visibly FAILED, also when retries
\* overlap and overwrite each other -- as long as no server instance dies.
PendingResolves == []~crashed => ((status = "PENDING") ~> (status # "PENDING"))

\* A translation in the inbox was made with the terms of the language it says the
\* message is in, as they have been since the request that made it began: not with
\* those of the language the contact had before, or of the model's own guess.
TermsOfItsLanguage ==
  status = "DELIVERED" /\ translation.asOf = edits =>
    (translation.terms <=> source \in glossary)

=============================================================================
