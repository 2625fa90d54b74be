--------------------------- MODULE InboundProofs ---------------------------
(***************************************************************************)
(* What holds of Inbound for any number of deliveries and retries, any     *)
(* languages and glossaries, and however often those are edited.           *)
(***************************************************************************)
EXTENDS Inbound, TLAPS

USE DEF row, contact, terms, history, Return, Goto

-----------------------------------------------------------------------------
(* Typing                                                                     *)

Copy == [status : Status \cup {"ABSENT"}, source : Optional,
         detect : BOOLEAN, terms : BOOLEAN, asOf : 0..MaxEdits]

\* TypeOK in parts that the provers take one at a time.
RowOK ==
  /\ status \in {"ABSENT", "PENDING", "DELIVERED", "FAILED"}
  /\ source \in Optional /\ preferred \in Optional /\ detected \in Optional
  /\ glossary \subseteq Langs /\ edits \in 0..MaxEdits /\ begun \in Nat
  /\ pc \in [Requests -> Labels]

CopiesOK ==
  /\ seen \in [Requests -> Copy]
  /\ translation \in {Null} \cup [terms : BOOLEAN, asOf : 0..MaxEdits]

FlagsOK ==
  /\ acked \in BOOLEAN /\ offered \in BOOLEAN
  /\ overlapped \in BOOLEAN /\ crashed \in BOOLEAN

RolesOK ==
  /\ \A w \in Webhooks : pc[w] \notin {"retry", "retryRead"}
  /\ \A u \in Users : pc[u] # "insert"

LEMMA RowStep == RowOK /\ CopiesOK /\ [Next]_vars => RowOK'
<1> SUFFICES ASSUME RowOK, CopiesOK, [Next]_vars PROVE RowOK'
  OBVIOUS
<1> USE InboundLanguagesAssumption DEF RowOK, CopiesOK, Copy, Labels, Optional
<1>1. ASSUME NEW r \in Requests, Deliver(r) \/ BeginRetry(r) PROVE RowOK'
  BY <1>1 DEF Deliver, BeginRetry, StartsWorking
<1>2. ASSUME NEW r \in Requests, Step(r) PROVE RowOK'
  <2>1. CASE HandlerThrows(r) \/ AnswerDuplicate(r)
    BY <2>1 DEF HandlerThrows, AnswerDuplicate, ReturnOk
  <2>2. CASE InsertReceived(r)
    BY <2>2 DEF InsertReceived, StartsWorking
  <2>3. CASE LanguageDetected(r)
    BY <2>3 DEF LanguageDetected, UpdateDetectedLanguage
  <2>4. CASE FindApplicableTerms(r)
    BY <2>4 DEF FindApplicableTerms
  <2>5. CASE StoreDelivered(r)
    BY <2>5 DEF StoreDelivered, UpdateTranslationResult, Translated, ReturnOk
  <2>6. CASE TranslationFails(r)
    BY <2>6 DEF TranslationFails, ReturnOk
  <2>7. CASE WritePending(r) \/ ReadPending(r)
    BY <2>7 DEF WritePending, ReadPending
  <2> QED BY <1>2, <2>1, <2>2, <2>3, <2>4, <2>5, <2>6, <2>7 DEF Step
<1>3. ASSUME NEW r \in Requests, Crash(r) PROVE RowOK'
  BY <1>3 DEF Crash
<1>4. ASSUME NEW l \in Langs, LanguageChosen(l) \/ OtherDetected(l) PROVE RowOK'
  BY <1>4 DEF LanguageChosen, OtherDetected, UpdateDetectedLanguage
<1>5. ASSUME NEW l \in Langs, CreateGlossary(l) \/ DeleteGlossary(l) PROVE RowOK'
  BY <1>5 DEF CreateGlossary, DeleteGlossary, EditGlossary
<1>6. ASSUME NEW l \in Langs, NEW k \in Langs, UpdateGlossary(l, k) PROVE RowOK'
  BY <1>6 DEF UpdateGlossary, EditGlossary
<1>7. CASE UNCHANGED vars
  BY <1>7 DEF vars
<1> QED BY <1>1, <1>2, <1>3, <1>4, <1>5, <1>6, <1>7 DEF Next

\* Fields that are Booleans are set one at a time.
LEMMA CopyFields ==
  ASSUME NEW c \in Copy
  PROVE  /\ \A s \in Status \cup {"ABSENT"} : [c EXCEPT !.status = s] \in Copy
         /\ \A l \in Optional : [c EXCEPT !.source = l] \in Copy
         /\ \A b \in BOOLEAN : [c EXCEPT !.detect = b] \in Copy
         /\ \A b \in BOOLEAN : [c EXCEPT !.terms = b] \in Copy
         /\ \A n \in 0..MaxEdits : [c EXCEPT !.asOf = n] \in Copy
  BY DEF Copy

LEMMA CopiesStep == RowOK /\ CopiesOK /\ [Next]_vars => CopiesOK'
<1> SUFFICES ASSUME RowOK, CopiesOK, [Next]_vars PROVE CopiesOK'
  OBVIOUS
<1>a. NoCopy \in Copy /\ "PENDING" \in Status \cup {"ABSENT"}
  BY InboundLanguagesAssumption DEF NoCopy, Copy, Optional, Status
<1>b. \A r \in Requests : seen[r] \in Copy
  BY DEF CopiesOK
<1>c. ASSUME NEW r \in Requests, NEW c \in Copy,
             seen' = [seen EXCEPT ![r] = c], translation' = translation
      PROVE  CopiesOK'
  BY <1>c DEF CopiesOK
<1>d. ASSUME UNCHANGED <<seen, translation>> PROVE CopiesOK'
  BY <1>d DEF CopiesOK
<1>1. ASSUME NEW r \in Requests, Deliver(r) PROVE CopiesOK'
  <2> DEFINE l == IF preferred # Null THEN preferred ELSE detected
             c1 == [NoCopy EXCEPT !.status = "PENDING"]
             c2 == [c1 EXCEPT !.asOf = edits]
             c3 == [c2 EXCEPT !.source = l]
             c4 == [c3 EXCEPT !.detect = (preferred = Null)]
  <2>1. l \in Optional /\ edits \in 0..MaxEdits /\ (preferred = Null) \in BOOLEAN
    BY DEF RowOK
  <2>2. c4 \in Copy
    BY <1>a, <2>1, CopyFields, Zenon
  <2>3. c4 = [NoCopy EXCEPT !.status = "PENDING", !.asOf = edits, !.source = l,
                            !.detect = preferred = Null]
    BY Zenon DEF NoCopy
  <2> QED BY <1>1, <1>c, <2>2, <2>3 DEF Deliver
<1>2. ASSUME NEW r \in Requests, BeginRetry(r) PROVE CopiesOK'
  BY <1>2, <1>a, <1>c, CopyFields DEF BeginRetry, RowOK
<1>3. ASSUME NEW r \in Requests, Step(r) PROVE CopiesOK'
  <2>1. CASE HandlerThrows(r) \/ AnswerDuplicate(r) \/ TranslationFails(r)
    BY <2>1, <1>a, <1>c DEF HandlerThrows, AnswerDuplicate, TranslationFails, ReturnOk
  <2>2. CASE InsertReceived(r) \/ WritePending(r)
    BY <2>2, <1>b, <1>c DEF InsertReceived, WritePending
  <2>3. CASE LanguageDetected(r)
    BY <2>3, <1>b, <1>c, CopyFields, InboundLanguagesAssumption DEF LanguageDetected, Optional
  <2>4. CASE FindApplicableTerms(r)
    <3>1. ApplicableTerms(seen[r].source) \in BOOLEAN
      BY DEF ApplicableTerms
    <3> QED BY <2>4, <3>1, <1>b, <1>c, CopyFields, Zenon DEF FindApplicableTerms
  <2>5. CASE StoreDelivered(r)
    <3>1. PICK t \in [source : Optional, terms : BOOLEAN] :
            translation' = [terms |-> t.terms, asOf |-> seen[r].asOf]
      BY <2>5, <1>b DEF StoreDelivered, UpdateTranslationResult, Translated, Copy, Optional
    <3>2. translation' \in [terms : BOOLEAN, asOf : 0..MaxEdits]
      BY <3>1, <1>b DEF Copy
    <3>3. seen' = [seen EXCEPT ![r] = NoCopy]
      BY <2>5 DEF StoreDelivered, ReturnOk
    <3> QED BY <3>2, <3>3, <1>a DEF CopiesOK
  <2>6. CASE ReadPending(r)
    <3> DEFINE c1 == [seen[r] EXCEPT !.status = status]
               c2 == [c1 EXCEPT !.source = source]
               c3 == [c2 EXCEPT !.detect = (source = Null)]
    <3>1. status \in Status \cup {"ABSENT"} /\ source \in Optional /\ (source = Null) \in BOOLEAN
      BY DEF RowOK, Status
    <3>2. c3 \in Copy
      BY <1>b, <3>1, CopyFields, Zenon
    <3>3. c3 = [seen[r] EXCEPT !.status = status, !.source = source, !.detect = source = Null]
      BY Zenon
    <3> QED BY <2>6, <1>c, <3>2, <3>3 DEF ReadPending
  <2> QED BY <1>3, <2>1, <2>2, <2>3, <2>4, <2>5, <2>6 DEF Step
<1>4. ASSUME NEW r \in Requests, Crash(r) PROVE CopiesOK'
  BY <1>4, <1>a, <1>c DEF Crash
<1>5. ASSUME NEW l \in Langs, LanguageChosen(l) \/ OtherDetected(l) PROVE CopiesOK'
  BY <1>5, <1>d DEF LanguageChosen, OtherDetected
<1>6. ASSUME NEW l \in Langs, CreateGlossary(l) \/ DeleteGlossary(l) PROVE CopiesOK'
  BY <1>6, <1>d DEF CreateGlossary, DeleteGlossary, EditGlossary
<1>7. ASSUME NEW l \in Langs, NEW k \in Langs, UpdateGlossary(l, k) PROVE CopiesOK'
  BY <1>7, <1>d DEF UpdateGlossary, EditGlossary
<1>8. CASE UNCHANGED vars
  BY <1>8, <1>d DEF vars
<1> QED BY <1>1, <1>2, <1>3, <1>4, <1>5, <1>6, <1>7, <1>8 DEF Next
LEMMA FlagsStep == FlagsOK /\ [Next]_vars => FlagsOK'
<1> SUFFICES ASSUME FlagsOK, [Next]_vars PROVE FlagsOK'
  OBVIOUS
<1> USE DEF FlagsOK, ReturnOk, StartsWorking
<1>1. ASSUME NEW r \in Requests, Deliver(r) \/ BeginRetry(r) \/ Crash(r) PROVE FlagsOK'
  BY <1>1, Zenon DEF Deliver, BeginRetry, Crash
<1>2. ASSUME NEW r \in Requests, Step(r) PROVE FlagsOK'
  <2>1. CASE HandlerThrows(r) \/ AnswerDuplicate(r) \/ InsertReceived(r)
    BY <2>1, Zenon DEF HandlerThrows, AnswerDuplicate, InsertReceived
  <2>2. CASE LanguageDetected(r) \/ FindApplicableTerms(r)
    BY <2>2, Zenon DEF LanguageDetected, FindApplicableTerms
  <2>3. CASE StoreDelivered(r)
    BY <2>3, Zenon DEF StoreDelivered
  <2>4. CASE TranslationFails(r)
    BY <2>4, Zenon DEF TranslationFails
  <2>5. CASE WritePending(r) \/ ReadPending(r)
    BY <2>5, Zenon DEF WritePending, ReadPending
  <2> QED BY <1>2, <2>1, <2>2, <2>3, <2>4, <2>5 DEF Step
<1>3. ASSUME NEW l \in Langs, LanguageChosen(l) \/ OtherDetected(l) PROVE FlagsOK'
  BY <1>3, Zenon DEF LanguageChosen, OtherDetected
<1>4. ASSUME NEW l \in Langs, CreateGlossary(l) \/ DeleteGlossary(l) PROVE FlagsOK'
  BY <1>4, Zenon DEF CreateGlossary, DeleteGlossary, EditGlossary
<1>5. ASSUME NEW l \in Langs, NEW k \in Langs, UpdateGlossary(l, k) PROVE FlagsOK'
  BY <1>5, Zenon DEF UpdateGlossary, EditGlossary
<1>6. CASE UNCHANGED vars
  BY <1>6, Zenon DEF vars
<1> QED BY <1>1, <1>2, <1>3, <1>4, <1>5, <1>6 DEF Next

LEMMA RolesStep == RowOK /\ RolesOK /\ [Next]_vars => RolesOK'
<1> SUFFICES ASSUME RowOK, RolesOK, [Next]_vars PROVE RolesOK'
  OBVIOUS
<1> USE InboundRequestsAssumption DEF RowOK, RolesOK, Requests, Labels
<1>1. ASSUME NEW r \in Requests, Deliver(r) \/ BeginRetry(r) \/ Crash(r) PROVE RolesOK'
  BY <1>1 DEF Deliver, BeginRetry, Crash
<1>2. ASSUME NEW r \in Requests, Step(r) PROVE RolesOK'
  <2>1. CASE HandlerThrows(r) \/ AnswerDuplicate(r) \/ InsertReceived(r)
    BY <2>1 DEF HandlerThrows, AnswerDuplicate, InsertReceived, ReturnOk
  <2>2. CASE LanguageDetected(r) \/ FindApplicableTerms(r)
    BY <2>2 DEF LanguageDetected, FindApplicableTerms
  <2>3. CASE StoreDelivered(r) \/ TranslationFails(r)
    BY <2>3 DEF StoreDelivered, TranslationFails, ReturnOk
  <2>4. CASE WritePending(r) \/ ReadPending(r)
    BY <2>4 DEF WritePending, ReadPending
  <2> QED BY <1>2, <2>1, <2>2, <2>3, <2>4 DEF Step
<1>3. ASSUME NEW l \in Langs, LanguageChosen(l) \/ OtherDetected(l) PROVE RolesOK'
  BY <1>3 DEF LanguageChosen, OtherDetected
<1>4. ASSUME NEW l \in Langs, CreateGlossary(l) \/ DeleteGlossary(l) PROVE RolesOK'
  BY <1>4 DEF CreateGlossary, DeleteGlossary, EditGlossary
<1>5. ASSUME NEW l \in Langs, NEW k \in Langs, UpdateGlossary(l, k) PROVE RolesOK'
  BY <1>5 DEF UpdateGlossary, EditGlossary
<1>6. CASE UNCHANGED vars
  BY <1>6 DEF vars
<1> QED BY <1>1, <1>2, <1>3, <1>4, <1>5, <1>6 DEF Next

\* The row keeps its columns' types, every request its label and copy, and only
\* webhooks insert, only agents retry.
THEOREM TypeCorrect == Spec => []TypeOK
<1> DEFINE Parts == RowOK /\ CopiesOK /\ FlagsOK /\ RolesOK
<1>1. TypeOK <=> Parts
  BY Zenon DEF TypeOK, RowOK, CopiesOK, FlagsOK, RolesOK, Copy
<1>2. Init => Parts
  <2> SUFFICES ASSUME Init PROVE Parts
    OBVIOUS
  <2>1. RowOK
    BY InboundLanguagesAssumption DEF Init, RowOK, Labels, Optional
  <2>2. CopiesOK
    BY InboundLanguagesAssumption DEF Init, CopiesOK, Copy, NoCopy, Optional
  <2>3. FlagsOK
    BY Zenon DEF Init, FlagsOK
  <2>4. RolesOK
    BY DEF Init, RolesOK, Requests
  <2> QED BY <2>1, <2>2, <2>3, <2>4
<1>3. Parts /\ [Next]_vars => Parts'
  BY RowStep, CopiesStep, FlagsStep, RolesStep
<1> QED BY <1>1, <1>2, <1>3, PTL DEF Spec

-----------------------------------------------------------------------------
(* Who works on the translation                                               *)

\* Nobody translates, or has translated, a row that is not stored yet.
StoredFirst == status = "ABSENT" => Working = {} /\ begun = 0

\* Until two requests have met, one works at most, and nobody on what is DELIVERED.
Alone ==
  ~overlapped =>
    /\ \A q, r \in Working : q = r
    /\ status = "DELIVERED" => Working = {}

WorkInv == StoredFirst /\ WebhooksTranslateOnce /\ Alone

\* Leaving the work, or going on with it, keeps all three, unless the row is
\* DELIVERED by one who goes on; beginning it needs a reason.
LEMMA WorkStep == RowOK /\ RolesOK /\ WorkInv /\ [Next]_vars => WorkInv'
<1> SUFFICES ASSUME RowOK, RolesOK, WorkInv, [Next]_vars PROVE WorkInv'
  OBVIOUS
<1>0. pc \in [Requests -> Labels]
  BY DEF RowOK
<1> USE <1>0, InboundRequestsAssumption
    DEF WorkInv, StoredFirst, WebhooksTranslateOnce, Alone, Working, Requests, Labels
\* A request stays away from the work, or goes away from it.
<1>a. ASSUME NEW r \in Requests, NEW label \in {"idle", "insert"},
             pc' = [pc EXCEPT ![r] = label], overlapped' = overlapped, begun' = begun,
             \/ status' = status
             \/ status' \in {"PENDING", "DELIVERED", "FAILED"} /\ r \in Working
      PROVE  WorkInv'
  BY <1>a
\* A request that works goes on working.
<1>b. ASSUME NEW r \in Working, NEW label \in Labels \ {"idle", "insert"},
             pc' = [pc EXCEPT ![r] = label], overlapped' = overlapped, begun' = begun,
             status' \in {status, "PENDING"}, status # "ABSENT"
      PROVE  WorkInv'
  BY <1>b
<1>c. ASSUME UNCHANGED <<pc, status, overlapped, begun>> PROVE WorkInv'
  BY <1>c
<1>1. ASSUME NEW r \in Requests, Deliver(r) \/ Crash(r) PROVE WorkInv'
  BY <1>1, <1>a DEF Deliver, Crash
<1>2. ASSUME NEW r \in Requests, BeginRetry(r) PROVE WorkInv'
  <2>1. /\ r \in Users /\ r \notin Webhooks /\ pc[r] = "idle" /\ pc' = [pc EXCEPT ![r] = "retry"]
        /\ status' = status /\ status # "ABSENT"
    BY <1>2 DEF BeginRetry, RetryAllowed
  <2>2. status # "DELIVERED"
    BY <1>2 DEF BeginRetry, RetryAllowed, CanTransition, VALID_TRANSITIONS
  <2>3. (~overlapped' => ~overlapped /\ Working = {}) /\ begun' = begun
    BY <1>2, <2>1, Zenon DEF BeginRetry, StartsWorking
  <2> QED BY <2>1, <2>2, <2>3
<1>3. ASSUME NEW r \in Requests, Step(r) PROVE WorkInv'
  <2>1. CASE HandlerThrows(r) \/ AnswerDuplicate(r)
    BY <2>1, <1>a DEF HandlerThrows, AnswerDuplicate, ReturnOk
  <2>2. CASE InsertReceived(r)
    <3>1. /\ status = "ABSENT" /\ status' = "PENDING" /\ Working = {}
          /\ \E label \in {"detect", "glossary"} : pc' = [pc EXCEPT ![r] = label]
      BY <2>2 DEF InsertReceived
    <3>2. (~overlapped' => ~overlapped) /\ begun' \in {begun, begun + 1} /\ begun = 0
      BY <2>2, <3>1, Zenon DEF InsertReceived, StartsWorking
    <3> QED BY <3>1, <3>2
  <2>3. CASE LanguageDetected(r) \/ FindApplicableTerms(r)
    BY <2>3, <1>b DEF LanguageDetected, FindApplicableTerms
  <2>4. CASE StoreDelivered(r) \/ TranslationFails(r)
    BY <2>4, <1>a DEF StoreDelivered, UpdateTranslationResult, TranslationFails, ReturnOk
  <2>5. CASE WritePending(r) \/ ReadPending(r)
    BY <2>5, <1>b DEF WritePending, ReadPending
  <2> QED BY <1>3, <2>1, <2>2, <2>3, <2>4, <2>5 DEF Step
<1>4. ASSUME NEW l \in Langs, LanguageChosen(l) \/ OtherDetected(l) PROVE WorkInv'
  BY <1>4, <1>c DEF LanguageChosen, OtherDetected
<1>5. ASSUME NEW l \in Langs, CreateGlossary(l) \/ DeleteGlossary(l) PROVE WorkInv'
  BY <1>5, <1>c DEF CreateGlossary, DeleteGlossary, EditGlossary
<1>6. ASSUME NEW l \in Langs, NEW k \in Langs, UpdateGlossary(l, k) PROVE WorkInv'
  BY <1>6, <1>c DEF UpdateGlossary, EditGlossary
<1>7. CASE UNCHANGED vars
  BY <1>7, <1>c DEF vars
<1> QED BY <1>1, <1>2, <1>3, <1>4, <1>5, <1>6, <1>7 DEF Next

LEMMA WorkInvariant == Spec => [](RowOK /\ RolesOK /\ WorkInv)
<1>1. Init => WorkInv
  BY DEF Init, WorkInv, StoredFirst, WebhooksTranslateOnce, Alone, Working, Requests
<1>2. TypeOK => RowOK /\ RolesOK
  BY Zenon DEF TypeOK, RowOK, RolesOK
<1> QED BY <1>1, <1>2, TypeCorrect, WorkStep, PTL DEF Spec

\* However many deliveries of one message overlap, repeat, fail or die, at most one of
\* them ever sets about its translation.
THEOREM TranslatedByOneDelivery == Spec => []WebhooksTranslateOnce
<1>1. WorkInv => WebhooksTranslateOnce
  BY Zenon DEF WorkInv
<1> QED BY <1>1, WorkInvariant, PTL

\* Only overlapping work takes DELIVERED back: neither a redelivery nor a retry from
\* a stale page nor a crash can.
THEOREM DeliveredStays == Spec => DeliveredIsFinal
<1>1. ASSUME RowOK, WorkInv, [Next]_vars, status = "DELIVERED", status' # "DELIVERED"
      PROVE  overlapped
  <2>1. \E r \in Requests : Step(r)
    <3>1. UNCHANGED vars => status' = status
      BY DEF vars
    <3>2. \A r \in Requests : Deliver(r) \/ BeginRetry(r) \/ Crash(r) => status' = status
      BY DEF Deliver, BeginRetry, Crash
    <3>3. \A l \in Langs : LanguageChosen(l) \/ OtherDetected(l) => status' = status
      BY DEF LanguageChosen, OtherDetected
    <3>4. \A l, k \in Langs :
            CreateGlossary(l) \/ DeleteGlossary(l) \/ UpdateGlossary(l, k) => status' = status
      BY DEF CreateGlossary, DeleteGlossary, UpdateGlossary, EditGlossary
    <3> QED BY <1>1, <3>1, <3>2, <3>3, <3>4 DEF Next
  <2>2. PICK r \in Requests : Step(r)
    BY <2>1
  <2>3. r \in Working
    BY <1>1, <2>2 DEF Step, HandlerThrows, AnswerDuplicate, InsertReceived, LanguageDetected,
       FindApplicableTerms, StoreDelivered, TranslationFails, WritePending, ReadPending,
       Working, Labels
  <2> QED BY <1>1, <2>3, Zenon DEF WorkInv, Alone
<1>2. RowOK /\ WorkInv /\ [Next]_vars =>
        [status = "DELIVERED" /\ status' # "DELIVERED" => overlapped]_vars
  BY <1>1, Zenon
<1> QED BY <1>2, WorkInvariant, PTL DEF Spec, DeliveredIsFinal

-----------------------------------------------------------------------------
(* What is answered, and which terms were used                                *)

\* A row is stored for good.
LEMMA AckedStep ==
  RowOK /\ WorkInv /\ FlagsOK /\ AckedIsStored /\ [Next]_vars => AckedIsStored'
<1> SUFFICES ASSUME RowOK, WorkInv, FlagsOK, AckedIsStored, [Next]_vars
             PROVE  AckedIsStored'
  OBVIOUS
<1>a. ASSUME status' # "ABSENT" PROVE AckedIsStored'
  BY <1>a, Zenon DEF AckedIsStored
<1>b. ASSUME UNCHANGED <<status, acked>> PROVE AckedIsStored'
  BY <1>b DEF AckedIsStored
<1>1. ASSUME NEW r \in Requests, Deliver(r) \/ BeginRetry(r) \/ Crash(r) PROVE AckedIsStored'
  BY <1>1, <1>b DEF Deliver, BeginRetry, Crash
<1>2. ASSUME NEW r \in Requests, Step(r) PROVE AckedIsStored'
  <2>1. CASE HandlerThrows(r) \/ ReadPending(r)
    BY <2>1, <1>b DEF HandlerThrows, ReadPending
  <2>2. CASE InsertReceived(r) \/ AnswerDuplicate(r) \/ StoreDelivered(r) \/ WritePending(r)
    BY <2>2, <1>a DEF InsertReceived, AnswerDuplicate, StoreDelivered,
       UpdateTranslationResult, WritePending
  <2>3. CASE LanguageDetected(r) \/ FindApplicableTerms(r)
    BY <2>3, <1>b DEF LanguageDetected, FindApplicableTerms
  <2>4. CASE TranslationFails(r)
    <3>1. r \in Working
      BY <2>4 DEF TranslationFails, Working, Labels
    <3>2. status # "ABSENT"
      BY <3>1 DEF WorkInv, StoredFirst
    <3>3. status' # "ABSENT"
      BY <2>4, <3>2, Zenon DEF TranslationFails
    <3> QED BY <3>3, <1>a
  <2> QED BY <1>2, <2>1, <2>2, <2>3, <2>4 DEF Step
<1>3. ASSUME NEW l \in Langs, LanguageChosen(l) \/ OtherDetected(l) PROVE AckedIsStored'
  BY <1>3, <1>b DEF LanguageChosen, OtherDetected
<1>4. ASSUME NEW l \in Langs, CreateGlossary(l) \/ DeleteGlossary(l) PROVE AckedIsStored'
  BY <1>4, <1>b DEF CreateGlossary, DeleteGlossary, EditGlossary
<1>5. ASSUME NEW l \in Langs, NEW k \in Langs, UpdateGlossary(l, k) PROVE AckedIsStored'
  BY <1>5, <1>b DEF UpdateGlossary, EditGlossary
<1>6. CASE UNCHANGED vars
  BY <1>6, <1>b DEF vars
<1> QED BY <1>1, <1>2, <1>3, <1>4, <1>5, <1>6 DEF Next

\* The channel is not told 200 before the message is in the database.
THEOREM NothingAckedIsLost == Spec => []AckedIsStored
<1>1. Init => AckedIsStored
  BY Zenon DEF Init, AckedIsStored
<1>2. TypeOK => FlagsOK
  BY Zenon DEF TypeOK, FlagsOK
<1> QED BY <1>1, <1>2, TypeCorrect, WorkInvariant, AckedStep, PTL DEF Spec

\* What a request at label may know: a language before it asks for terms, and, as
\* long as nobody edits, the terms there are.
GoodCopy(label, c) ==
  /\ c.asOf <= edits
  /\ label \in {"glossary", "translate"} => c.source # Null
  /\ label = "insert" => c.source # Null \/ c.detect
  /\ label = "translate" /\ c.asOf = edits => (c.terms <=> c.source \in glossary)

GoodCopies  == \A r \in Requests : GoodCopy(pc[r], seen[r])
TermsStored == status = "DELIVERED" => translation \in [terms : BOOLEAN, asOf : 0..edits]
TermsInv    == GoodCopies /\ TermsStored /\ TermsOfItsLanguage

LEMMA TermsStep == RowOK /\ CopiesOK /\ TermsInv /\ [Next]_vars => TermsInv'
<1> SUFFICES ASSUME RowOK, CopiesOK, TermsInv, [Next]_vars PROVE TermsInv'
  OBVIOUS
<1>0. /\ pc \in [Requests -> Labels] /\ seen \in [Requests -> Copy]
      /\ edits \in Nat /\ MaxEdits \in Nat /\ Null \notin Langs
  BY InboundLanguagesAssumption DEF RowOK, CopiesOK
<1>i. GoodCopies /\ TermsStored /\ TermsOfItsLanguage
  BY Zenon DEF TermsInv
\* The copy of one request changes, and the status to anything but DELIVERED.
<1>a. ASSUME NEW r \in Requests, NEW label \in Labels, NEW c \in Copy, GoodCopy(label, c),
             pc' = [pc EXCEPT ![r] = label], seen' = [seen EXCEPT ![r] = c],
             UNCHANGED <<translation, terms>>,
             (status' = status /\ source' = source) \/ status' # "DELIVERED"
      PROVE  TermsInv'
  <2>1. GoodCopies'
    BY <1>a, <1>0, <1>i DEF GoodCopies, GoodCopy, Copy
  <2>2. TermsStored' /\ TermsOfItsLanguage'
    BY <1>a, <1>i DEF TermsStored, TermsOfItsLanguage
  <2> QED BY <2>1, <2>2, Zenon DEF TermsInv
\* An edit makes every copy, and the stored translation, a thing of the past.
<1>b. ASSUME edits' = edits + 1, UNCHANGED <<row, pc, seen>> PROVE TermsInv'
  <2>1. GoodCopies'
    BY <1>b, <1>0, <1>i DEF GoodCopies, GoodCopy, Copy
  <2>2. TermsStored' /\ TermsOfItsLanguage'
    BY <1>b, <1>0, <1>i DEF TermsStored, TermsOfItsLanguage
  <2> QED BY <2>1, <2>2, Zenon DEF TermsInv
<1>c. NoCopy \in Copy /\ \A r \in Requests : seen[r] \in Copy /\ GoodCopy(pc[r], seen[r])
  BY <1>0, <1>i DEF GoodCopies, NoCopy, Copy, Optional
<1>d. GoodCopy("idle", NoCopy)
  BY <1>0 DEF GoodCopy, NoCopy
<1>e. \A r \in Requests : seen'[r] \in Copy
  BY CopiesStep DEF CopiesOK
<1> USE DEF Labels
<1>1. ASSUME NEW r \in Requests, Deliver(r) PROVE TermsInv'
  <2> DEFINE c == [NoCopy EXCEPT !.status = "PENDING", !.asOf = edits,
                     !.source = IF preferred # Null THEN preferred ELSE detected,
                     !.detect = preferred = Null]
  <2>1. seen' = [seen EXCEPT ![r] = c] /\ pc' = [pc EXCEPT ![r] = "insert"]
    BY <1>1 DEF Deliver
  <2>2. c \in Copy
    BY <2>1, <1>0, <1>e
  <2>3. c.asOf = edits /\ (c.source # Null \/ c.detect)
    BY DEF NoCopy
  <2>4. GoodCopy("insert", c)
    BY <2>3, <1>0 DEF GoodCopy
  <2> QED BY <1>1, <1>a, <2>1, <2>2, <2>4 DEF Deliver
<1>2. ASSUME NEW r \in Requests, BeginRetry(r) PROVE TermsInv'
  <2> DEFINE c == [NoCopy EXCEPT !.asOf = edits]
  <2>1. seen' = [seen EXCEPT ![r] = c]
    BY <1>2 DEF BeginRetry
  <2>2. c \in Copy
    BY <2>1, <1>0, <1>e
  <2>3. GoodCopy("retry", c)
    BY <1>0 DEF GoodCopy, NoCopy
  <2> QED BY <1>2, <1>a, <2>1, <2>2, <2>3 DEF BeginRetry
<1>3. ASSUME NEW r \in Requests, Step(r) PROVE TermsInv'
  <2>1. CASE HandlerThrows(r) \/ AnswerDuplicate(r)
    BY <2>1, <1>a, <1>c, <1>d DEF HandlerThrows, AnswerDuplicate, ReturnOk
  <2>2. CASE InsertReceived(r)
    <3>1. PICK label \in {"detect", "glossary"} :
            /\ label = IF seen[r].detect THEN "detect" ELSE "glossary"
            /\ pc' = [pc EXCEPT ![r] = label] /\ seen' = [seen EXCEPT ![r] = seen[r]]
      BY <2>2 DEF InsertReceived
    <3>2. pc[r] = "insert" /\ status' = "PENDING" /\ UNCHANGED <<translation, terms>>
      BY <2>2 DEF InsertReceived
    <3>3. label = "glossary" => ~seen[r].detect
      BY <3>1, Zenon
    <3>4. GoodCopy(label, seen[r])
      BY <3>2, <3>3, <1>c DEF GoodCopy
    <3> QED BY <3>1, <3>2, <3>4, <1>a, <1>c
  <2>3. CASE LanguageDetected(r)
    <3>1. PICK l \in Detections : seen' = [seen EXCEPT ![r] = [seen[r] EXCEPT !.source = l]]
      BY <2>3 DEF LanguageDetected
    <3>2. l # Null
      BY InboundLanguagesAssumption
    <3>3. [seen[r] EXCEPT !.source = l] \in Copy
      BY <3>1, <1>0, <1>e
    <3>4. GoodCopy("glossary", [seen[r] EXCEPT !.source = l])
      BY <3>2, <1>c DEF GoodCopy, Copy
    <3> QED BY <2>3, <3>1, <3>3, <3>4, <1>a DEF LanguageDetected
  <2>4. CASE FindApplicableTerms(r)
    <3> DEFINE c == [seen[r] EXCEPT !.terms = ApplicableTerms(seen[r].source)]
    <3>1. pc[r] = "glossary" /\ seen' = [seen EXCEPT ![r] = c]
      BY <2>4 DEF FindApplicableTerms
    <3>2. c \in Copy
      BY <3>1, <1>0, <1>e
    <3>3. c.source = seen[r].source /\ c.asOf = seen[r].asOf /\ c.source # Null
      BY <3>1, <1>c DEF GoodCopy, Copy
    <3>4. c.terms = ApplicableTerms(seen[r].source)
      BY <1>c, Zenon DEF Copy
    <3>5. c.terms <=> c.source \in glossary
      BY <3>3, <3>4, Zenon DEF ApplicableTerms
    <3>6. GoodCopy("translate", c)
      BY <3>3, <3>5, <1>c DEF GoodCopy
    <3> QED BY <2>4, <3>1, <3>2, <3>6, <1>a DEF FindApplicableTerms
  <2>5. CASE StoreDelivered(r)
    <3>1. PICK echo \in Langs :
            UpdateTranslationResult(Translated(seen[r], echo), seen[r].asOf)
      BY <2>5 DEF StoreDelivered
    <3>2. /\ pc[r] = "translate" /\ UNCHANGED terms
          /\ pc' = [pc EXCEPT ![r] = "idle"] /\ seen' = [seen EXCEPT ![r] = NoCopy]
      BY <2>5 DEF StoreDelivered, ReturnOk
    <3>3. seen[r].source # Null
      BY <3>2, <1>c DEF GoodCopy
    <3>4. source' = seen[r].source /\ translation' = [terms |-> seen[r].terms, asOf |-> seen[r].asOf]
      BY <3>1, <3>3, Zenon DEF UpdateTranslationResult, Translated
    <3>5. translation'.asOf = edits' => (translation'.terms <=> source' \in glossary')
      BY <3>2, <3>4, <1>c DEF GoodCopy
    <3>6. translation' \in [terms : BOOLEAN, asOf : 0..edits']
      BY <3>2, <3>4, <1>0, <1>c DEF GoodCopy, Copy
    <3>7. GoodCopies'
      BY <3>2, <1>0, <1>c, <1>d DEF GoodCopies, GoodCopy
    <3> QED BY <3>5, <3>6, <3>7, Zenon DEF TermsInv, TermsStored, TermsOfItsLanguage
  <2>6. CASE TranslationFails(r)
    BY <2>6, <1>a, <1>c, <1>d DEF TranslationFails, ReturnOk
  <2>7. CASE WritePending(r)
    <3>1. pc[r] = "retry" /\ GoodCopy("retryRead", seen[r])
      BY <2>7, <1>c DEF WritePending, GoodCopy
    <3> QED BY <2>7, <3>1, <1>a, <1>c DEF WritePending
  <2>8. CASE ReadPending(r)
    <3> DEFINE c == [seen[r] EXCEPT !.status = status, !.source = source,
                                    !.detect = source = Null]
    <3>1. PICK label \in {"detect", "glossary"} :
            /\ label = IF source = Null THEN "detect" ELSE "glossary"
            /\ pc' = [pc EXCEPT ![r] = label] /\ seen' = [seen EXCEPT ![r] = c]
      BY <2>8 DEF ReadPending
    <3>2. c \in Copy
      BY <3>1, <1>0, <1>e
    <3>3. c.source = source /\ c.asOf = seen[r].asOf
      BY <1>c DEF Copy
    <3>4. GoodCopy(label, c)
      BY <3>1, <3>3, <1>c DEF GoodCopy
    <3> QED BY <2>8, <3>1, <3>2, <3>4, <1>a DEF ReadPending
  <2> QED BY <1>3, <2>1, <2>2, <2>3, <2>4, <2>5, <2>6, <2>7, <2>8 DEF Step
<1>4. ASSUME NEW r \in Requests, Crash(r) PROVE TermsInv'
  BY <1>4, <1>a, <1>c, <1>d DEF Crash
<1>5. ASSUME NEW l \in Langs, LanguageChosen(l) \/ OtherDetected(l) PROVE TermsInv'
  BY <1>5, <1>b DEF LanguageChosen, OtherDetected
<1>6. ASSUME NEW l \in Langs, CreateGlossary(l) \/ DeleteGlossary(l) PROVE TermsInv'
  BY <1>6, <1>b DEF CreateGlossary, DeleteGlossary, EditGlossary
<1>7. ASSUME NEW l \in Langs, NEW k \in Langs, UpdateGlossary(l, k) PROVE TermsInv'
  BY <1>7, <1>b DEF UpdateGlossary, EditGlossary
<1>8. CASE UNCHANGED vars
  BY <1>8, <1>i DEF vars, TermsInv, GoodCopies, GoodCopy, TermsStored, TermsOfItsLanguage
<1> QED BY <1>1, <1>2, <1>3, <1>4, <1>5, <1>6, <1>7, <1>8 DEF Next

\* A translation shown in the inbox was made with the terms of the language it names.
THEOREM RightTerms == Spec => []TermsOfItsLanguage
<1>1. Init => TermsInv
  <2> SUFFICES ASSUME Init PROVE TermsInv
    OBVIOUS
  <2>1. GoodCopies
    BY DEF Init, GoodCopies, GoodCopy, NoCopy
  <2> QED BY <2>1 DEF Init, TermsInv, TermsStored, TermsOfItsLanguage
<1>2. TypeOK => RowOK /\ CopiesOK
  BY Zenon DEF TypeOK, RowOK, CopiesOK, Copy
<1>3. TermsInv => TermsOfItsLanguage
  BY Zenon DEF TermsInv
<1> QED BY <1>1, <1>2, <1>3, TypeCorrect, TermsStep, PTL DEF Spec
=============================================================================
