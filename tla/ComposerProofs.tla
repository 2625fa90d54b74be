--------------------------- MODULE ComposerProofs ---------------------------
(***************************************************************************)
(* What the choice of a language and the two filters that ask for it have  *)
(* in common, and what holds of Composer, for any languages, any number of *)
(* messages and any number of changes of the settings.                     *)
(***************************************************************************)
EXTENDS Composer, SequenceTheorems, TLAPS

\* A contact is always written to in some language.
LEMMA ResolvedIsALanguage ==
  ASSUME NEW c \in Context
  PROVE  ResolveTargetLanguage(c) \in Langs
BY NullAssumption DEF Context, Optional, ResolveTargetLanguage

\* Without a search the inbox finds a conversation by exactly the language its contact is
\* written to, except under the organization's default, which its filter does not look
\* at.  With a search it finds what the search matches, in whatever language: the
\* language that was asked for as well is dropped.
THEOREM FilterFindsLanguage ==
  ASSUME NEW c \in Context, NEW l \in Langs, NEW search \in Searches
  PROVE  InboxFilter(c, l, search) <=>
           IF search = "none" THEN ResolveTargetLanguage(c) = l /\ ~DefaultOnly(c)
                              ELSE search = "matches"
BY NullAssumption
   DEF Context, Optional, ResolveTargetLanguage, InboxFilter, SpreadOr, DefaultOnly

\* Without a search the contact list and the inbox sort a contact under the same language
\* as long as its conversation has no override; with one, the contact list may name
\* another.  With a search neither list asks for the language: every language finds the
\* same rows.
THEOREM FiltersAgree ==
  ASSUME NEW c \in Context, NEW l \in Langs, NEW other \in Langs, NEW search \in Searches
  PROVE  /\ c.override = Null => (ContactsFilter(c, l, "none") <=> InboxFilter(c, l, "none"))
         /\ search # "none" => /\ InboxFilter(c, l, search) <=> InboxFilter(c, other, search)
                               /\ ContactsFilter(c, l, search) <=> ContactsFilter(c, other, search)
BY NullAssumption DEF Context, Optional, InboxFilter, ContactsFilter, SpreadOr

\* An override is meant for what is sent, and is used for what is received too:
\* the agent then reads an inbound message in the contact's language, whatever
\* the agent's own.
THEOREM OverrideBothWays ==
  ASSUME NEW c \in Context, c.override # Null, NEW own \in Optional
  PROVE  ReaderLanguage(c, own) = ResolveTargetLanguage(c)
BY DEF Context, Optional, ReaderLanguage, ResolveTargetLanguage

\* Without an override the language of the contact does not reach the reader.
THEOREM ReaderIgnoresContact ==
  ASSUME NEW c \in Context, c.override = Null, NEW own \in Optional,
         NEW l \in Optional, NEW k \in Optional
  PROVE  ReaderLanguage([c EXCEPT !.preferred = l, !.detected = k], own)
           = ReaderLanguage(c, own)
BY DEF Context, Optional, ReaderLanguage, ResolveTargetLanguage

-----------------------------------------------------------------------------
(* The compose field.                                                         *)

Message == [lang : Langs, shown : Langs, excused : BOOLEAN, of : Texts,
            review : BOOLEAN, terms : BOOLEAN, content : Contents,
            approved : Contents, confirmed : SUBSET Contents, sent : Contents,
            status : {"PENDING", "SENDING", "FAILED", "SENT"}]

\* The steps at which the request has a row of the text the agent is writing; those of a
\* confirmation before its claim; those at which nobody but the request can claim the row.
OnRow   == (Working \ {"insert"}) \cup {"draft", "ok"}
Storing == {"edit", "store", "confirm"}
Alone   == {"translate", "send", "draft"}
Msg(i)  == messages[i]

\* The row has never left PENDING; the row was claimed by nobody but the request.
Fresh(i) == Msg(i).status = "PENDING" /\ i \notin retried

PageInv ==
  /\ text <= Len(messages) + 1
  /\ request.at = "insert" => Len(messages) < MaxMessages
  /\ \A i \in Rows : Msg(i).of <= i /\ Msg(i).of <= text
  /\ request.at \in OnRow => request.row \in Rows /\ Msg(request.row).of = text
  /\ request.at \in Alone => Fresh(request.row)
  /\ request.at \in Claimed => ~Fresh(request.row)
  /\ request.at \in {"channel", "taken"} => Msg(request.row).status = "SENDING"
  /\ ui = "sending" => request.at \notin Storing
  /\ ui = "confirming" => /\ request.at \in Storing \cup Claimed \cup {"ok", "error"}
                          /\ request.row = draft.row
  /\ draft.row # 0 <=> ui \in {"review", "confirming"}
  /\ draft.row # 0 =>
       /\ Msg(draft.row).of = text /\ draft.told = "machine" /\ draft.box # "none"
       /\ \/ Fresh(draft.row) \/ draft.row \in failed.answer
          \/ request.at \in Claimed \cup {"ok"}

\* A wording of a row that may be sent to the contact, or has been.
Good(i, wording) ==
  Msg(i).review => /\ wording \in Msg(i).confirmed
                   /\ wording = Msg(i).approved \/ i \in failed.afterEdit \cup failed.answer

ReviewInv ==
  /\ request.at = "translate" => Msg(request.row).review = request.review
  /\ request.at = "send" => ~Msg(request.row).review /\ Msg(request.row).content # "none"
  /\ request.at = "draft" => Msg(request.row).content = "machine"
  /\ draft.row # 0 =>
       /\ Msg(draft.row).content # "none"
       /\ Msg(draft.row).content \in Msg(draft.row).confirmed \cup {draft.told}
       /\ request.at \in {"none", "edit", "store", "error"} =>
            \/ Msg(draft.row).content = draft.told
            \/ draft.row \in failed.afterEdit \cup failed.answer
  /\ request.at \in Storing => Msg(request.row).approved = draft.box
                              /\ draft.box \in Msg(request.row).confirmed
  /\ request.at = "confirm" => Good(request.row, Msg(request.row).content)
                              /\ Msg(request.row).content \in Msg(request.row).confirmed
  /\ \A i \in Rows : ~Fresh(i) =>
       i \in failed.translation \/ (Msg(i).content # "none" /\ Good(i, Msg(i).content))
  /\ \A i \in Rows : Msg(i).sent # "none" =>
       ~Fresh(i) /\ (i \in failed.translation \/ Good(i, Msg(i).sent))

OnceInv ==
  /\ \A i \in Rows : ~Fresh(i) =>
       \/ MayBeRepeated(Msg(i).of) \/ Msg(i).of < text
       \/ request.at \in Claimed \cup {"ok"} /\ request.row = i
  /\ \A i, j \in Rows : Msg(i).of = Msg(j).of /\ ~Fresh(i) /\ ~Fresh(j)
       => i = j \/ MayBeRepeated(Msg(i).of)

ToldInv ==
  /\ asOf = changes => shown = ResolveTargetLanguage(ctx)
  /\ request.asOf <= changes
  /\ request.at = "insert" =>
       request.shown \in Langs /\ (request.asOf = changes => request.shown = ResolveTargetLanguage(ctx))
  /\ TranslatedAsShown

Inv == TypeOK /\ PageInv /\ ReviewInv /\ OnceInv /\ ToldInv

-----------------------------------------------------------------------------
LEMMA Typed ==
  ASSUME TypeOK
  PROVE  /\ messages \in Seq(Message) /\ Len(messages) \in Nat
         /\ \A i \in Rows : messages[i] \in Message
         /\ ctx \in Context /\ ResolveTargetLanguage(ctx) \in Langs
         /\ text \in Nat /\ changes \in Nat /\ asOf \in Nat
         /\ \A i \in Rows : Msg(i).of \in Nat
<1>1. messages \in Seq(Message)
  BY DEF TypeOK, Message
<1>2. \A i \in Rows : messages[i] \in Message
  BY <1>1, ElementOfSeq DEF Rows
<1>3. ctx \in Context
  BY DEF TypeOK
<1>4. text \in Nat /\ changes \in Nat /\ asOf \in Nat
  BY ComposerBounds DEF TypeOK, Texts
<1>5. \A i \in Rows : Msg(i).of \in Nat
  BY <1>2 DEF Message, Texts, Msg
<1> QED BY <1>1, <1>2, <1>3, <1>4, <1>5, ResolvedIsALanguage

\* The page and the request stay well-formed while the rows are left alone.
Steps == Working \cup {"none", "draft", "ok", "error"}

RequestOK ==
  /\ request \in [at : Steps, row : {0} \cup Rows, review : BOOLEAN, shown : Optional,
                  asOf : 0..MaxChanges]
  /\ ui \in {"compose", "sending", "review", "confirming"}
  /\ ui \in {"compose", "review"} <=> request.at = "none"

DraftOK == draft \in [row : {0} \cup Rows, told : Contents, box : Contents]

Failures == [translation : SUBSET Rows, afterEdit : SUBSET Rows, answer : SUBSET Rows]

Parts ==
  /\ ctx \in Context /\ shown \in Langs /\ messages \in Seq(Message)
  /\ Len(messages) <= MaxMessages /\ retried \subseteq Rows
  /\ DraftOK /\ text \in Texts /\ RequestOK
  /\ changes \in 0..MaxChanges /\ asOf \in 0..changes /\ lost \subseteq Texts
  /\ failed \in Failures

LEMMA PartsTyped == (TypeOK <=> Parts) /\ (TypeOK' <=> Parts')
BY DEF TypeOK, Parts, Failures, Message, RequestOK, DraftOK, Steps

LEMMA NothingTyped ==
  /\ NoRequest \in [at : Steps, row : {0} \cup Rows, review : BOOLEAN, shown : Optional,
                     asOf : 0..MaxChanges]
  /\ NoDraft \in [row : {0} \cup Rows, told : Contents, box : Contents]
BY ComposerBounds DEF NoRequest, NoDraft, Steps, Optional, Contents

\* One row is written.
LEMMA RowWritten ==
  ASSUME TypeOK, NEW r \in Rows, NEW m \in Message, messages' = [messages EXCEPT ![r] = m]
  PROVE  /\ messages' \in Seq(Message) /\ Len(messages') = Len(messages) /\ Rows' = Rows
         /\ messages'[r] = m /\ \A i \in Rows \ {r} : messages'[i] = messages[i]
BY Typed DEF Rows

\* The settings change, or the page is told of them.
LEMMA LanguageStep ==
  ASSUME Inv, UNCHANGED <<messages, retried, ui, draft, text, request, lost, failed>>,
         \/ \E new \in Context : Change(new)
         \/ RefreshPage
  PROVE  Inv'
<1>1. TypeOK'
  <2>1. CASE \E new \in Context : Change(new)
    BY <2>1, ComposerBounds, Typed DEF Inv, TypeOK, Change, Rows
  <2>2. CASE RefreshPage
    BY <2>2, ComposerBounds, Typed DEF Inv, TypeOK, RefreshPage, Told, Rows
  <2> QED BY <2>1, <2>2
<1>2. PageInv' /\ ReviewInv' /\ OnceInv' /\ TranslatedAsShown'
  BY DEF Inv, PageInv, ReviewInv, OnceInv, ToldInv, TranslatedAsShown, Rows, Msg, Fresh, Good,
     MayBeRepeated
<1>3. ToldInv'
  <2>1. CASE \E new \in Context : Change(new)
    BY <1>2, <2>1, Typed, ComposerBounds DEF Inv, TypeOK, ToldInv, Change
  <2>2. CASE RefreshPage
    BY <1>2, <2>2, Typed DEF Inv, ToldInv, RefreshPage, Told
  <2> QED BY <2>1, <2>2
<1> QED BY <1>1, <1>2, <1>3 DEF Inv

\* The page alone: what it shows, what it has under review, what it asks for.
LEMMA PageStep ==
  ASSUME Inv, \/ ReloadPage \/ (\E review \in BOOLEAN : Submit(review))
              \/ (\E box \in {"machine", "edited"} : EditDraft(box)) \/ ReceiveAnswer
  PROVE  Inv'
<1> USE DEF Inv, Working, Claimed, OnRow, Storing, Alone, Fresh, Msg
<1>0. UNCHANGED <<messages, retried, ctx, changes, failed>>
  BY DEF ReloadPage, Submit, EditDraft, ReceiveAnswer
<1>1. CASE ReloadPage
  <2>a. request' = NoRequest /\ ui' = "compose" /\ draft' = NoDraft /\ text' = text
    BY <1>1 DEF ReloadPage
  <2>b. RequestOK' /\ DraftOK'
    BY <1>0, <2>a, NothingTyped DEF RequestOK, DraftOK, NoRequest, Rows
  <2>c. shown' \in Langs /\ asOf' \in 0..changes /\ lost' \subseteq Texts /\ text \in Texts
    BY <1>1, Typed, PartsTyped DEF Parts, Failures, ReloadPage, Told
  <2>1. TypeOK'
    BY <1>0, <2>a, <2>b, <2>c, PartsTyped DEF Parts, Failures, Rows
  <2>2. PageInv'
    BY <1>1, Typed DEF TypeOK, PageInv, ReloadPage, NoDraft, NoRequest, Rows
  <2>3. ReviewInv'
    BY <1>1 DEF ReviewInv, ReloadPage, NoDraft, NoRequest, Rows, Good
  <2>4. OnceInv'
    BY <1>1, Typed DEF PageInv, OnceInv, ReloadPage, NoRequest, Rows, MayBeRepeated
  <2>5. ToldInv'
    BY <1>1, Typed DEF ToldInv, ReloadPage, Told, NoRequest, TranslatedAsShown, Rows
  <2> QED BY <2>1, <2>2, <2>3, <2>4, <2>5
<1>2. ASSUME NEW review \in BOOLEAN, Submit(review) PROVE Inv'
  <2>0. ui = "compose" /\ draft.row = 0 /\ request.at = "none"
    BY <1>2 DEF Submit, PageInv, TypeOK
  <2>a. RequestOK' /\ DraftOK'
    BY <1>0, <1>2, <2>0, PartsTyped, ComposerBounds DEF Parts, RequestOK, DraftOK, Submit, Steps, Optional, Rows
  <2>1. TypeOK'
    BY <1>0, <1>2, <2>a, PartsTyped DEF Parts, Failures, Submit, Rows
  <2>2. PageInv'
    BY <1>2, <2>0 DEF PageInv, Submit, Rows
  <2>3. ReviewInv'
    BY <1>2, <2>0 DEF ReviewInv, Submit, Rows, Good
  <2>4. OnceInv'
    BY <1>2, <2>0 DEF OnceInv, Submit, Rows, MayBeRepeated
  <2>5. ToldInv'
    BY <1>2, Typed DEF TypeOK, ToldInv, Submit, TranslatedAsShown, Rows
  <2> QED BY <2>1, <2>2, <2>3, <2>4, <2>5
<1>3. ASSUME NEW box \in {"machine", "edited"}, EditDraft(box) PROVE Inv'
  <2>0. ui = "review" /\ request.at = "none" /\ draft' = [draft EXCEPT !.box = box]
        /\ UNCHANGED <<messages, retried, shown, ui, text, request, changes, asOf, lost, failed, ctx>>
    BY <1>3 DEF EditDraft, TypeOK
  <2>1. TypeOK'
    BY <2>0 DEF TypeOK, Contents, Rows
  <2>1a. draft'.row = draft.row /\ draft'.told = draft.told /\ draft'.box = box
    BY <2>0 DEF TypeOK
  <2>2. PageInv'
    BY <2>0, <2>1a DEF PageInv, Rows
  <2>3. ReviewInv'
    BY <2>0, <2>1a DEF ReviewInv, Rows, Good
  <2>4. OnceInv' /\ ToldInv'
    BY <2>0 DEF OnceInv, ToldInv, TranslatedAsShown, Rows, MayBeRepeated
  <2> QED BY <2>1, <2>2, <2>3, <2>4
<1>4. CASE ReceiveAnswer
  <2>0. request' = NoRequest /\ UNCHANGED <<ctx, messages, retried, shown, changes, asOf, lost, failed>>
    BY <1>4 DEF ReceiveAnswer
  <2>1. CASE request.at = "draft"
    <3>1. /\ ui' = "review" /\ text' = text /\ request.row \in Rows /\ request.row # 0
          /\ draft' = [row |-> request.row, told |-> "machine", box |-> "machine"]
      BY <1>4, <2>1, Typed DEF ReceiveAnswer, PageInv, Rows
    <3>a. RequestOK' /\ DraftOK'
      BY <2>0, <3>1, NothingTyped DEF RequestOK, DraftOK, NoRequest, Contents, Rows
    <3>2. TypeOK'
      BY <2>0, <3>1, <3>a, PartsTyped DEF Parts, Failures, Rows
    <3>3. PageInv'
      BY <2>0, <2>1, <3>1 DEF PageInv, NoRequest, Rows
    <3>4. ReviewInv'
      BY <2>0, <2>1, <3>1 DEF ReviewInv, NoRequest, Rows, Good
    <3>5. OnceInv'
      BY <2>0, <2>1, <3>1 DEF OnceInv, NoRequest, Rows, MayBeRepeated
    <3>6. ToldInv'
      BY <2>0, Typed DEF ToldInv, NoRequest, TranslatedAsShown, Rows
    <3> QED BY <3>2, <3>3, <3>4, <3>5, <3>6
  <2>2. CASE request.at = "ok"
    <3>1. /\ ui' = "compose" /\ text' = text + 1 /\ draft' = NoDraft
          /\ request.row \in Rows /\ Msg(request.row).of = text
          /\ Msg(request.row).of <= request.row
      BY <1>4, <2>2 DEF ReceiveAnswer, PageInv
    <3>2. text' <= Len(messages) + 1 /\ text' \in Texts
      <4>1. Len(messages) <= MaxMessages /\ Len(messages) \in Nat /\ text \in Nat
        BY Typed, PartsTyped DEF Parts
      <4>2. request.row \in 1..Len(messages) /\ text <= request.row
        BY <3>1 DEF Rows
      <4> QED BY <3>1, <4>1, <4>2, ComposerBounds DEF Texts
    <3>a. RequestOK' /\ DraftOK'
      BY <2>0, <3>1, NothingTyped DEF RequestOK, DraftOK, NoRequest, Rows
    <3>3. TypeOK'
      BY <2>0, <3>1, <3>2, <3>a, PartsTyped DEF Parts, Failures, Rows
    <3>4. \A i \in Rows : Msg(i).of \in Nat
      BY Typed DEF Message, Texts, Msg
    <3>5. PageInv'
      BY <2>0, <2>2, <3>1, <3>2, <3>4, Typed DEF PageInv, NoRequest, NoDraft, Rows
    <3>6. ReviewInv'
      BY <2>0, <2>2, <3>1 DEF ReviewInv, NoRequest, NoDraft, Rows, Good
    <3>7. OnceInv'
      <4>1. \A i \in Rows : ~Fresh(i) => MayBeRepeated(Msg(i).of) \/ Msg(i).of < text + 1
        BY <2>2, <3>1, <3>4, Typed DEF OnceInv
      <4> QED BY <2>0, <3>1, <4>1 DEF OnceInv, NoRequest, Rows, MayBeRepeated
    <3>8. ToldInv'
      BY <2>0, Typed DEF ToldInv, NoRequest, TranslatedAsShown, Rows
    <3> QED BY <3>3, <3>5, <3>6, <3>7, <3>8
  <2>3. CASE request.at = "error"
    <3>1. /\ UNCHANGED <<draft, text>> /\ ui' = IF ui = "sending" THEN "compose" ELSE "review"
          /\ ui \in {"sending", "confirming"}
      BY <1>4, <2>3 DEF ReceiveAnswer, TypeOK
    <3>a. RequestOK' /\ DraftOK'
      BY <2>0, <3>1, NothingTyped, PartsTyped DEF Parts, Failures, RequestOK, DraftOK, NoRequest, Rows
    <3>2. TypeOK'
      BY <2>0, <3>1, <3>a, PartsTyped DEF Parts, Failures, Rows
    <3>3. PageInv'
      BY <2>0, <2>3, <3>1 DEF PageInv, NoRequest, Rows
    <3>4. ReviewInv'
      BY <2>0, <2>3, <3>1 DEF ReviewInv, NoRequest, Rows, Good
    <3>5. OnceInv'
      BY <2>0, <2>3, <3>1 DEF OnceInv, NoRequest, Rows, MayBeRepeated
    <3>6. ToldInv'
      BY <2>0, Typed DEF ToldInv, NoRequest, TranslatedAsShown, Rows
    <3> QED BY <3>2, <3>3, <3>4, <3>5, <3>6
  <2> QED BY <1>4, <2>1, <2>2, <2>3 DEF ReceiveAnswer
<1> QED BY <1>1, <1>2, <1>3, <1>4

\* What the page has under way while the server is at work.
LEMMA AtWork ==
  ASSUME Inv, request.at \in Working
  PROVE  /\ ui \in {"sending", "confirming"}
         /\ draft.row # 0 <=> ui = "confirming"
         /\ draft.row # 0 => draft.row = request.row
         /\ request.at \in Storing => draft.row # 0
         /\ request.at \in {"insert", "translate", "send"} => draft.row = 0
         /\ request.at # "insert" => request.row \in Rows /\ request.row # 0
                                    /\ Msg(request.row) \in Message /\ Msg(request.row).of = text
         /\ draft.row # 0 => draft.box \in Contents
BY Typed DEF Inv, TypeOK, PageInv, OnRow, Working, Claimed, Storing, Rows, Msg

\* The server writes the row of the request and goes on to the next step.
LEMMA Written ==
  ASSUME Inv, Unmoved, NEW r, r = request.row,
         request.at \in {"translate", "send", "store", "confirm", "channel", "taken"},
         NEW m \in Message, messages' = [messages EXCEPT ![r] = m],
         NEW step \in {"send", "draft", "confirm"} \cup Claimed, Proceed(step, r),
         m.of = Msg(r).of, m.lang = Msg(r).lang,
         m.shown = Msg(r).shown, m.excused = Msg(r).excused,
         m.review = Msg(r).review, m.approved = Msg(r).approved,
         m.confirmed = Msg(r).confirmed,
         failed' \in Failures, failed.translation \subseteq failed'.translation,
         failed'.afterEdit = failed.afterEdit, failed'.answer = failed.answer,
         step \in Claimed => m.status # "PENDING",
         step \in {"channel", "taken"} => m.status = "SENDING",
         step \notin Claimed => m.status = Msg(r).status,
         step \in {"send", "draft"} => request.at = "translate",
         step = "confirm" <=> request.at = "store",
         draft.row # 0 => m.content # "none" /\ m.content \in m.confirmed \cup {draft.told},
         step = "send" => ~m.review /\ m.content # "none",
         step = "draft" => m.content = "machine",
         step = "confirm" => m.content = draft.box,
         ~Fresh(r) \/ step \in Claimed =>
           \/ r \in failed'.translation
           \/ m.content # "none" /\ Good(r, m.content),
         m.sent # "none" => \/ m.sent = Msg(r).sent
                            \/ m.sent = m.content /\ step \in Claimed
  PROVE  Inv'
<1> USE DEF Inv
<1>1. r \in Rows /\ r # 0 /\ Msg(r) \in Message /\ Msg(r).of = text
  BY AtWork DEF Working, Claimed
<1>2. /\ messages' \in Seq(Message) /\ Len(messages') = Len(messages) /\ Rows' = Rows
      /\ messages'[r] = m /\ \A i \in Rows \ {r} : messages'[i] = messages[i]
  BY <1>1, RowWritten
<1>3. /\ request' \in [at : Steps, row : {0} \cup Rows, review : BOOLEAN, shown : Optional,
                       asOf : 0..MaxChanges]
      /\ request'.at = step /\ request'.row = r /\ request'.asOf = request.asOf
      /\ request'.review = request.review
  BY <1>1, PartsTyped DEF Proceed, Parts, RequestOK, Steps, Working, Claimed
<1>4. /\ UNCHANGED <<ctx, retried, shown, ui, draft, text, changes, asOf, lost>>
      /\ ui \in {"sending", "confirming"}
      /\ draft.row # 0 <=> ui = "confirming"
      /\ draft.row # 0 => draft.row = r
      /\ step \in {"send", "draft"} => draft.row = 0
      /\ step = "confirm" => draft.row # 0
  BY AtWork DEF Unmoved, Working, Claimed, Storing
<1>5. TypeOK'
  BY <1>2, <1>3, <1>4, PartsTyped DEF Parts, RequestOK, DraftOK, Failures, Claimed
<1>6. \A i \in Rows : /\ Msg(i)'.of = Msg(i).of /\ Msg(i)'.lang = Msg(i).lang
                      /\ Msg(i)'.shown = Msg(i).shown /\ Msg(i)'.excused = Msg(i).excused
                      /\ Msg(i)'.approved = Msg(i).approved
                      /\ Msg(i)'.review = Msg(i).review /\ Msg(i)'.confirmed = Msg(i).confirmed
                      /\ i # r => Msg(i)' = Msg(i)
  BY <1>2 DEF Msg
<1>7. /\ \A i \in Rows \ {r} : Fresh(i)' <=> Fresh(i)
      /\ step \in Claimed => ~Fresh(r)'
      /\ step \notin Claimed => (Fresh(r)' <=> Fresh(r))
  BY <1>2, <1>4 DEF Fresh, Msg
<1>8. \A i \in Rows : \A w \in Contents : Good(i, w)' <=> Good(i, w)
  BY <1>6 DEF Good
<1>9. PageInv'
  <2>1. step \in Alone => Fresh(r)'
    BY <1>7 DEF PageInv, Alone, Claimed
  <2>2. draft.row # 0 => Fresh(r)' \/ r \in failed.answer \/ step \in Claimed
    BY <1>4, <1>7 DEF PageInv, Claimed
  <2>3. step \in {"channel", "taken"} => Msg(r)'.status = "SENDING"
    BY <1>2 DEF Msg
  <2>4. ui = "sending" => step \notin Storing
    BY <1>4 DEF Storing, Claimed
  <2>5. ui = "confirming" => step \in Storing \cup Claimed \cup {"ok", "error"}
    BY <1>4 DEF Storing
  <2>6. draft.row # 0 => draft.told = "machine" /\ draft.box # "none"
    BY DEF PageInv
  <2>7. /\ text <= Len(messages) + 1 /\ \A i \in Rows : Msg(i).of <= i /\ Msg(i).of <= text
        /\ step # "insert"
    BY DEF PageInv, Claimed
  <2>8. /\ messages'[request'.row].of = text
        /\ request'.at \in Alone => Fresh(request.row)'
        /\ request'.at \in Claimed => ~Fresh(request.row)'
        /\ request'.at \in {"channel", "taken"} => messages'[request'.row].status = "SENDING"
    BY <1>1, <1>3, <1>6, <1>7, <2>1, <2>3 DEF Fresh, Msg
  <2>9. draft'.row # 0 =>
          /\ messages'[draft'.row].of = text
          /\ Fresh(draft.row)' \/ draft'.row \in failed'.answer \/ request'.at \in Claimed
    BY <1>1, <1>3, <1>4, <1>6, <2>2 DEF Fresh, Msg
  <2>10. \A i \in Rows : messages'[i].of <= i /\ messages'[i].of <= text
    BY <1>6, <2>7 DEF Msg
  <2>11. /\ text' <= Len(messages') + 1 /\ request'.at # "insert"
         /\ \A i \in Rows' : Msg(i)'.of <= i /\ Msg(i)'.of <= text'
         /\ request'.row \in Rows' /\ Msg(request.row)'.of = text'
    BY <1>1, <1>2, <1>3, <1>4, <2>7, <2>8, <2>10 DEF Msg
  <2>12. /\ ui' = "sending" => request'.at \notin Storing
         /\ ui' = "confirming" => /\ request'.at \in Storing \cup Claimed \cup {"ok", "error"}
                                  /\ request'.row = draft'.row
         /\ draft'.row # 0 <=> ui' \in {"review", "confirming"}
    BY <1>3, <1>4, <2>4, <2>5
  <2>13. draft'.row # 0 => /\ Msg(draft.row)'.of = text' /\ draft'.told = "machine"
                           /\ draft'.box # "none"
    BY <1>4, <2>6, <2>9 DEF Msg
  <2> QED BY <2>8, <2>9, <2>11, <2>12, <2>13 DEF PageInv, Fresh, Msg
<1>10. ReviewInv'
  <2>1. m.content \in Contents /\ m.sent \in Contents /\ Msg(r)' = m
    BY <1>2 DEF Message, Msg
  <2>2. ASSUME NEW i \in Rows, ~Fresh(i)'
        PROVE  i \in failed'.translation \/ (Msg(i)'.content # "none" /\ Good(i, Msg(i).content)')
    <3>1. CASE i = r
      BY <1>7, <1>8, <2>1, <2>2, <3>1 DEF Good
    <3>2. CASE i # r
      BY <1>6, <1>7, <2>2, <3>2 DEF ReviewInv, Good
    <3> QED BY <3>1, <3>2
  <2>3. ASSUME NEW i \in Rows, Msg(i)'.sent # "none"
        PROVE  ~Fresh(i)' /\ (i \in failed'.translation \/ Good(i, Msg(i).sent)')
    <3>1. CASE i = r
      <4>1. CASE m.sent = m.content /\ step \in Claimed
        BY <1>7, <2>1, <2>2, <3>1, <4>1 DEF Good
      <4>2. CASE m.sent = Msg(r).sent
        BY <1>6, <1>7, <2>1, <2>3, <3>1, <4>2 DEF ReviewInv, Good
      <4> QED BY <2>1, <2>3, <3>1, <4>1, <4>2
    <3>2. CASE i # r
      BY <1>6, <1>7, <2>3, <3>2 DEF ReviewInv, Good
    <3> QED BY <3>1, <3>2
  <2>4. step = "confirm" => /\ m.approved = draft.box /\ draft.box \in m.confirmed
                            /\ Good(r, Msg(r).content)' /\ m.content \in m.confirmed
    BY <1>6, <2>1 DEF ReviewInv, Storing, Good
  <2>5. /\ step \notin {"none", "edit", "store", "error", "translate"}
        /\ step \in Storing => step = "confirm"
    BY DEF Claimed, Storing
  <2> QED BY <1>2, <1>3, <1>4, <2>1, <2>2, <2>3, <2>4, <2>5 DEF ReviewInv
<1>11. OnceInv'
  <2>0. /\ \A i \in Rows : MayBeRepeated(Msg(i).of)' <=> MayBeRepeated(Msg(i).of)
        /\ failed.answer \subseteq Rows
    <3>1. failed.answer \subseteq Rows
      BY PartsTyped DEF Parts, Failures
    <3> QED BY <1>4, <1>6, <3>1 DEF MayBeRepeated, Msg
  <2>1. \A i \in Rows \ {r} : ~Fresh(i) => MayBeRepeated(Msg(i).of) \/ Msg(i).of < text
    BY DEF OnceInv
  <2>2. step \notin Claimed /\ ~Fresh(r) => MayBeRepeated(Msg(r).of) \/ Msg(r).of < text
    BY <1>1 DEF OnceInv, Claimed
  <2>3. \A i \in Rows : ~Fresh(i)' =>
          \/ MayBeRepeated(Msg(i).of)' \/ Msg(i)'.of < text
          \/ step \in Claimed /\ i = r
    BY <1>6, <1>7, <2>0, <2>1, <2>2
  <2>4. \A i \in Rows \ {r} : Msg(i).of = text /\ ~Fresh(i) => MayBeRepeated(text)
    BY <2>1, Typed
  <2>5. \A i, j \in Rows : Msg(i)'.of = Msg(j)'.of /\ ~Fresh(i)' /\ ~Fresh(j)'
                             => i = j \/ MayBeRepeated(Msg(i).of)'
    <3>1. \A i, j \in Rows : Msg(i).of = Msg(j).of /\ ~Fresh(i)' /\ ~Fresh(j)'
                             => i = j \/ MayBeRepeated(Msg(i).of)
      BY <1>1, <1>7, <2>4 DEF OnceInv
    <3> QED BY <1>6, <2>0, <3>1
  <2> QED BY <1>2, <1>3, <1>4, <2>3, <2>5 DEF OnceInv
<1>12. ToldInv'
  BY <1>2, <1>3, <1>4, <1>6 DEF ToldInv, TranslatedAsShown, Msg, Claimed
<1> QED BY <1>5, <1>9, <1>10, <1>11, <1>12

\* The server goes on to the next step, or answers, and leaves the rows alone.
LEMMA Moved ==
  ASSUME Inv, Unmoved, request.at \in Working, messages' = messages,
         NEW step \in {"store", "ok", "error"}, Proceed(step, request.row),
         step = "store" => request.at = "edit" /\ failed' = failed,
         step = "ok" => request.at = "record" /\ failed' = failed,
         failed' \in Failures, failed.translation = failed'.translation,
         failed.afterEdit \subseteq failed'.afterEdit, failed.answer \subseteq failed'.answer,
         request.at \in Claimed => step = "ok" \/ request.row \in failed'.answer,
         draft.row # 0 /\ step = "error" =>
           \/ messages[draft.row].content = draft.told
           \/ draft.row \in failed'.afterEdit \cup failed'.answer
  PROVE  Inv'
<1> USE DEF Inv
<1>1. /\ request' \in [at : Steps, row : {0} \cup Rows, review : BOOLEAN, shown : Optional,
                       asOf : 0..MaxChanges]
      /\ request'.at = step /\ request'.row = request.row /\ request'.asOf = request.asOf
  BY PartsTyped DEF Proceed, Parts, RequestOK, Steps, Working
<1>2. UNCHANGED <<ctx, retried, shown, ui, draft, text, changes, asOf, lost>> /\ Rows' = Rows
  BY DEF Unmoved, Rows
<1>3. /\ ui \in {"sending", "confirming"} /\ request.at # "none"
      /\ draft.row # 0 <=> ui = "confirming"
      /\ draft.row # 0 => draft.row = request.row
      /\ request.at \in Storing => draft.row # 0
      /\ request.at # "insert" => request.row \in Rows /\ Msg(request.row).of = text
  BY AtWork DEF Working, Claimed
<1>4. TypeOK'
  BY <1>1, <1>2, <1>3, PartsTyped DEF Parts, RequestOK, DraftOK, Failures
<1>5. PageInv'
  BY <1>1, <1>2, <1>3 DEF PageInv, OnRow, Working, Claimed, Storing, Alone, Fresh, Msg
<1>6. ReviewInv'
  BY <1>1, <1>2, <1>3 DEF ReviewInv, Storing, Fresh, Good, Msg
<1>7. OnceInv'
  <2>1. ASSUME NEW i \in Rows, MayBeRepeated(Msg(i).of) PROVE MayBeRepeated(Msg(i).of)'
    BY <1>2, <2>1 DEF MayBeRepeated, Msg
  <2>2. ASSUME NEW i \in Rows, ~Fresh(i)
        PROVE  \/ MayBeRepeated(Msg(i).of)' \/ Msg(i).of < text
               \/ step = "ok" /\ request.row = i
    <3>1. CASE request.at \in Claimed /\ request.row = i /\ step # "ok"
      BY <3>1 DEF MayBeRepeated, Msg
    <3> QED BY <2>1, <2>2, <3>1 DEF OnceInv, Working, Claimed
  <2> QED BY <1>1, <1>2, <2>1, <2>2 DEF OnceInv, Fresh, Msg
<1>8. ToldInv'
  BY <1>1, <1>2 DEF ToldInv, TranslatedAsShown
<1> QED BY <1>4, <1>5, <1>6, <1>7, <1>8

\* The server works on the row of the request: it translates, stores the edit, claims,
\* sends, stores the outcome and answers.
LEMMA ServerStep ==
  ASSUME Inv, \/ TranslateReply \/ TranslationFails \/ RecordTranslationEdit
              \/ MarkTranslationEdited \/ ClaimReply \/ ChannelTakes \/ StoreOutcome
              \/ AnswerOutcome
  PROVE  Inv'
<1> USE DEF Inv
<1>0. PICK r : r = request.row
  OBVIOUS
<1>1. /\ request.at \in Working \ {"insert"} => r \in Rows /\ Msg(r) \in Message
      /\ failed \in Failures
  BY <1>0, AtWork, PartsTyped DEF Parts
<1>2. /\ request.at \in {"translate", "send"} => draft.row = 0 /\ Fresh(r)
      /\ request.at \in Storing => draft.row # 0
      /\ request.at \in Working /\ draft.row # 0 => draft.row = r /\ draft.box \in Contents
  BY <1>0, AtWork DEF PageInv, Working, Alone, Storing
<1>3. CASE TranslateReply
  <2> DEFINE m == [Msg(r) EXCEPT !.content = "machine", !.terms = AppliesTerms(Msg(r).lang)]
             step == IF request.review THEN "draft" ELSE "send"
  <2>1. request.at = "translate" /\ Unmoved /\ failed' = failed /\ Proceed(step, r)
    BY <1>0, <1>3 DEF TranslateReply, At
  <2>2. m \in Message /\ messages' = [messages EXCEPT ![r] = m]
    BY <1>0, <1>1, <1>3, <2>1 DEF TranslateReply, Working, Msg, Message, AppliesTerms, Contents
  <2>3. /\ m.of = Msg(r).of /\ m.lang = Msg(r).lang /\ m.shown = Msg(r).shown
        /\ m.excused = Msg(r).excused /\ m.review = Msg(r).review
        /\ m.approved = Msg(r).approved /\ m.confirmed = Msg(r).confirmed
        /\ m.status = Msg(r).status /\ m.sent = Msg(r).sent /\ m.content = "machine"
    BY <1>1, <2>1 DEF Working, Message
  <2>4. m.review = request.review
    BY <1>0, <2>1, <2>3 DEF ReviewInv
  <2>5. step \in {"send", "draft"} /\ step \notin Claimed /\ step # "confirm"
    BY DEF Claimed
  <2> HIDE DEF m, step
  <2> QED BY <1>0, <1>1, <1>2, <2>1, <2>2, <2>3, <2>4, <2>5, Written DEF step
<1>4. CASE TranslationFails
  <2> DEFINE m == [Msg(r) EXCEPT !.status = "FAILED"]
  <2>1. request.at = "translate" /\ Unmoved /\ Proceed("record", r)
        /\ failed' = [failed EXCEPT !.translation = @ \cup {r}]
    BY <1>0, <1>4 DEF TranslationFails, At
  <2>2. m \in Message /\ messages' = [messages EXCEPT ![r] = m]
    BY <1>0, <1>1, <1>4, <2>1 DEF TranslationFails, Working, Msg, Message
  <2>3. /\ m.of = Msg(r).of /\ m.lang = Msg(r).lang /\ m.shown = Msg(r).shown
        /\ m.excused = Msg(r).excused /\ m.review = Msg(r).review
        /\ m.approved = Msg(r).approved /\ m.confirmed = Msg(r).confirmed
        /\ m.content = Msg(r).content /\ m.sent = Msg(r).sent /\ m.status = "FAILED"
    BY <1>1, <2>1 DEF Working, Message
  <2>4. /\ failed' \in Failures /\ failed.translation \subseteq failed'.translation
        /\ r \in failed'.translation /\ failed'.afterEdit = failed.afterEdit
        /\ failed'.answer = failed.answer
    BY <1>1, <2>1 DEF Working, Failures
  <2> HIDE DEF m
  <2> QED BY <1>0, <1>2, <2>1, <2>2, <2>3, <2>4, Written DEF Claimed
<1>5. CASE RecordTranslationEdit
  <2> DEFINE step == IF messages[request.row].status = "PENDING" THEN "store" ELSE "error"
  <2>1. request.at = "edit" /\ Unmoved /\ UNCHANGED <<messages, failed>> /\ Proceed(step, request.row)
    BY <1>5 DEF RecordTranslationEdit, At
  <2>2. draft.row # 0 => \/ messages[draft.row].content = draft.told
                        \/ draft.row \in failed.afterEdit \cup failed.answer
    BY <2>1 DEF ReviewInv, Msg
  <2> QED BY <1>1, <2>1, <2>2, Moved DEF Working, Claimed
<1>6. CASE MarkTranslationEdited
  <2> DEFINE m == [Msg(r) EXCEPT !.content = draft.box]
  <2>1. request.at = "store" /\ Unmoved /\ failed' = failed /\ Proceed("confirm", r)
    BY <1>0, <1>6 DEF MarkTranslationEdited, At
  <2>2. m \in Message /\ messages' = [messages EXCEPT ![r] = m]
    BY <1>0, <1>1, <1>2, <1>6, <2>1 DEF MarkTranslationEdited, Working, Storing, Msg, Message
  <2>3. /\ m.of = Msg(r).of /\ m.lang = Msg(r).lang /\ m.shown = Msg(r).shown
        /\ m.excused = Msg(r).excused /\ m.review = Msg(r).review
        /\ m.approved = Msg(r).approved /\ m.confirmed = Msg(r).confirmed
        /\ m.status = Msg(r).status /\ m.sent = Msg(r).sent /\ m.content = draft.box
    BY <1>1, <2>1 DEF Working, Message
  <2>4. /\ draft.box # "none" /\ Msg(r).approved = draft.box /\ draft.box \in Msg(r).confirmed
        /\ Good(r, draft.box)
    BY <1>0, <1>2, <2>1 DEF PageInv, ReviewInv, Storing, Good
  <2> HIDE DEF m
  <2> QED BY <1>0, <1>1, <1>2, <2>1, <2>2, <2>3, <2>4, Written DEF Claimed
<1>7. CASE ClaimReply
  <2>1. request.at \in {"send", "confirm"} /\ Unmoved /\ failed' = failed
    BY <1>7 DEF ClaimReply, At
  <2>2. CASE Msg(r).status # "PENDING"
    <3>1. Proceed("error", request.row) /\ messages' = messages
      BY <1>0, <1>7, <2>2 DEF ClaimReply, Msg
    <3>2. draft.row # 0 => draft.row \in failed.answer
      BY <1>0, <1>2, <2>1, <2>2 DEF PageInv, Fresh, Working, Claimed
    <3> QED BY <1>1, <2>1, <3>1, <3>2, Moved DEF Working, Claimed
  <2>3. CASE Msg(r).status = "PENDING"
    <3> DEFINE m == [Msg(r) EXCEPT !.status = "SENDING"]
    <3>1. Proceed("channel", r)
      BY <1>0, <1>7, <2>3 DEF ClaimReply, Msg
    <3>2. m \in Message /\ messages' = [messages EXCEPT ![r] = m]
      BY <1>0, <1>1, <1>7, <2>1, <2>3 DEF ClaimReply, Working, Msg, Message
    <3>3. /\ m.of = Msg(r).of /\ m.lang = Msg(r).lang /\ m.shown = Msg(r).shown
          /\ m.excused = Msg(r).excused /\ m.review = Msg(r).review
          /\ m.approved = Msg(r).approved /\ m.confirmed = Msg(r).confirmed
          /\ m.content = Msg(r).content /\ m.sent = Msg(r).sent /\ m.status = "SENDING"
      BY <1>1, <2>1 DEF Working, Message
    <3>4. m.content # "none" /\ Good(r, m.content)
          /\ (draft.row # 0 => m.content \in m.confirmed)
      BY <1>0, <1>2, <2>1, <3>3 DEF ReviewInv, Good, Storing, Working
    <3> HIDE DEF m
    <3> QED BY <1>0, <1>1, <2>1, <3>1, <3>2, <3>3, <3>4, Written DEF Claimed
  <2> QED BY <2>2, <2>3
<1>8. CASE ChannelTakes \/ StoreOutcome
  <2>1. /\ request.at \in {"channel", "taken"} /\ Unmoved /\ failed' = failed
        /\ Msg(r) \in Message /\ Msg(r).status = "SENDING" /\ ~Fresh(r)
    BY <1>0, <1>1, <1>8 DEF ChannelTakes, StoreOutcome, At, PageInv, Working, Claimed
  <2>2. /\ r \in failed.translation \/ (Msg(r).content # "none" /\ Good(r, Msg(r).content))
        /\ draft.row # 0 => /\ Msg(r).content # "none"
                            /\ Msg(r).content \in Msg(r).confirmed \cup {draft.told}
    BY <1>0, <1>1, <1>2, <2>1 DEF ReviewInv, Working, Claimed
  <2>3. CASE ChannelTakes
    <3> DEFINE m == [Msg(r) EXCEPT !.sent = Msg(r).content]
    <3>1. request.at = "channel" /\ Proceed("taken", r) /\ m \in Message
          /\ messages' = [messages EXCEPT ![r] = m]
      BY <1>0, <2>1, <2>3 DEF ChannelTakes, At, Msg, Message
    <3>2. /\ m.of = Msg(r).of /\ m.lang = Msg(r).lang /\ m.shown = Msg(r).shown
          /\ m.excused = Msg(r).excused /\ m.review = Msg(r).review
          /\ m.approved = Msg(r).approved /\ m.confirmed = Msg(r).confirmed
          /\ m.content = Msg(r).content /\ m.sent = Msg(r).content /\ m.status = "SENDING"
      BY <2>1 DEF Message
    <3> HIDE DEF m
    <3> QED BY <1>0, <1>1, <2>1, <2>2, <3>1, <3>2, Written DEF Claimed
  <2>4. CASE StoreOutcome
    <3>1. PICK s \in {"SENT", "FAILED"} : messages' = [messages EXCEPT ![r].status = s]
      BY <1>0, <2>4 DEF StoreOutcome
    <3> DEFINE m == [Msg(r) EXCEPT !.status = s]
    <3>2. Proceed("record", r) /\ m \in Message /\ messages' = [messages EXCEPT ![r] = m]
      BY <1>0, <2>1, <2>4, <3>1 DEF StoreOutcome, Msg, Message
    <3>3. /\ m.of = Msg(r).of /\ m.lang = Msg(r).lang /\ m.shown = Msg(r).shown
          /\ m.excused = Msg(r).excused /\ m.review = Msg(r).review
          /\ m.approved = Msg(r).approved /\ m.confirmed = Msg(r).confirmed
          /\ m.content = Msg(r).content /\ m.sent = Msg(r).sent /\ m.status = s
      BY <2>1 DEF Message
    <3> HIDE DEF m
    <3> QED BY <1>0, <1>1, <2>1, <2>2, <3>1, <3>2, <3>3, Written DEF Claimed
  <2> QED BY <1>8, <2>3, <2>4
<1>9. CASE AnswerOutcome
  <2>1. /\ request.at = "record" /\ Unmoved /\ UNCHANGED <<messages, failed>>
        /\ Proceed("ok", request.row)
    BY <1>9 DEF AnswerOutcome, At
  <2> QED BY <1>1, <2>1, Moved DEF Working, Claimed
<1> QED BY <1>3, <1>4, <1>5, <1>6, <1>7, <1>8, <1>9

\* A text gets a row of its own, in the language that the settings name now.
LEMMA InsertStep == ASSUME Inv, InsertReply PROVE Inv'
<1> USE DEF Inv
<1>0. PICK n : n = Len(messages) + 1
  OBVIOUS
<1> DEFINE m == [lang |-> ResolveTargetLanguage(ctx), shown |-> request.shown,
                 excused |-> request.asOf # changes, of |-> text, review |-> request.review,
                 terms |-> FALSE, content |-> "none", approved |-> "none", confirmed |-> {},
                 sent |-> "none", status |-> "PENDING"]
<1>1. /\ request.at = "insert" /\ messages' = Append(messages, m) /\ Proceed("translate", n)
      /\ Unmoved /\ failed' = failed
  BY <1>0 DEF InsertReply, At
<1>2. /\ UNCHANGED <<ctx, retried, shown, ui, draft, text, changes, asOf, lost>>
      /\ ui = "sending" /\ draft.row = 0
  BY <1>1, AtWork DEF Unmoved, Working
<1>3. m \in Message /\ m.of = text /\ m.status = "PENDING" /\ m.review = request.review
      /\ m.sent = "none"
  BY <1>1, Typed DEF TypeOK, ToldInv, Message, Contents
<1>4. /\ messages' \in Seq(Message) /\ Len(messages') = n /\ messages'[n] = m /\ n \in Nat
      /\ \A i \in Rows : messages'[i] = messages[i]
      /\ Rows' = Rows \cup {n} /\ n \notin Rows /\ n # 0 /\ retried \subseteq Rows
  BY <1>0, <1>1, <1>3, Typed, PartsTyped DEF Rows, Parts
<1>5. Len(messages) < MaxMessages /\ MaxMessages \in Nat
  BY <1>1, ComposerBounds DEF PageInv
<1>6. /\ request' \in [at : Steps, row : {0} \cup Rows', review : BOOLEAN, shown : Optional,
                       asOf : 0..MaxChanges]
      /\ request'.at = "translate" /\ request'.row = n /\ request'.asOf = request.asOf
      /\ request'.review = request.review
  <2>1. request' = [request EXCEPT !.at = "translate", !.row = n] /\ n \in Rows'
    BY <1>1, <1>4 DEF Proceed
  <2>2. request \in [at : Steps, row : {0} \cup Rows, review : BOOLEAN, shown : Optional,
                     asOf : 0..MaxChanges]
    BY PartsTyped DEF Parts, RequestOK
  <2>3. "translate" \in Steps
    BY DEF Steps, Working
  <2> QED BY <2>1, <2>2, <2>3
<1>7. TypeOK'
  <2>1. DraftOK' /\ Failures' = [translation : SUBSET Rows', afterEdit : SUBSET Rows',
                                 answer : SUBSET Rows'] /\ failed' \in Failures'
    BY <1>1, <1>2, <1>4, PartsTyped DEF Parts, DraftOK, Failures
  <2>2. RequestOK'
    BY <1>2, <1>6 DEF RequestOK
  <2>3. Len(messages') <= MaxMessages
    BY <1>0, <1>4, <1>5, Typed
  <2>4. retried' \subseteq Rows' /\ messages' \in Seq(Message)
    BY <1>2, <1>4
  <2>5. Parts
    BY PartsTyped
  <2>6. /\ ctx' \in Context /\ shown' \in Langs /\ text' \in Texts
        /\ changes' \in 0..MaxChanges /\ asOf' \in 0..changes' /\ lost' \subseteq Texts
    BY <1>2, <2>5 DEF Parts
  <2>7. Parts'
    BY <2>1, <2>2, <2>3, <2>4, <2>6 DEF Parts
  <2> QED BY <2>7, PartsTyped
<1>8. /\ \A i \in Rows : Msg(i)' = Msg(i) /\ (Fresh(i)' <=> Fresh(i))
      /\ Msg(n)' = m /\ messages'[n].status = "PENDING" /\ n \notin retried'
  BY <1>2, <1>3, <1>4 DEF Msg, Fresh
<1> HIDE DEF m
<1>9. PageInv'
  <2>1. \A i \in Rows' : messages'[i].of <= i /\ messages'[i].of <= text
    <3>1. text <= n
      BY <1>0, <1>4, Typed DEF PageInv
    <3> QED BY <1>3, <1>4, <1>8, <3>1, Typed DEF PageInv, Msg
  <2>2. text <= Len(messages') + 1
    BY <1>0, <1>4, Typed DEF PageInv
  <2>3. messages'[n].of = text
    BY <1>3, <1>4
  <2>4. /\ request'.at = "translate" /\ request'.row = n /\ ui' = "sending" /\ draft'.row = 0
        /\ text' = text /\ n \in Rows'
    BY <1>2, <1>4, <1>6
  <2> QED BY <1>8, <2>1, <2>2, <2>3, <2>4 DEF PageInv, Working, Claimed, Storing, Fresh, Msg
<1>10. ReviewInv'
  <2>1. ASSUME NEW i \in Rows'
        PROVE  /\ ~(messages'[i].status = "PENDING" /\ i \notin retried') =>
                    \/ i \in failed.translation
                    \/ messages'[i].content # "none" /\ Good(i, messages[i].content)'
               /\ messages'[i].sent # "none" =>
                    /\ ~(messages'[i].status = "PENDING" /\ i \notin retried')
                    /\ i \in failed.translation \/ Good(i, messages[i].sent)'
    <3>1. CASE i = n
      BY <1>3, <1>4, <1>8, <3>1
    <3>2. CASE i # n
      <4>1. i \in Rows /\ messages'[i] = messages[i] /\ retried' = retried /\ failed' = failed
        BY <1>1, <1>2, <1>4, <3>2
      <4> QED BY <4>1 DEF ReviewInv, Good, Fresh, Msg
    <3> QED BY <3>1, <3>2
  <2>2. messages'[request'.row].review = request'.review
    BY <1>3, <1>4, <1>6
  <2> QED BY <1>1, <1>2, <1>6, <2>1, <2>2 DEF ReviewInv, Fresh, Msg, Storing
<1>11. OnceInv'
  <2>1. ASSUME NEW i \in Rows', ~(messages'[i].status = "PENDING" /\ i \notin retried')
        PROVE  /\ i \in Rows /\ ~Fresh(i) /\ messages'[i] = messages[i]
               /\ MayBeRepeated(messages[i].of) \/ messages[i].of < text
    <3>1. i # n
      BY <1>8, <2>1
    <3> QED BY <1>1, <1>2, <1>4, <2>1, <3>1 DEF OnceInv, Fresh, Msg, Claimed
  <2>2. failed.answer \subseteq Rows
    BY PartsTyped DEF Parts, Failures
  <2>3. \A t : MayBeRepeated(t) <=> t \in lost' \/ \E k \in failed'.answer : messages'[k].of = t
    BY <1>1, <1>2, <1>4, <2>2 DEF MayBeRepeated
  <2>4. \A i, j \in Rows' :
          /\ messages'[i].of = messages'[j].of
          /\ ~(messages'[i].status = "PENDING" /\ i \notin retried')
          /\ ~(messages'[j].status = "PENDING" /\ j \notin retried')
          => i = j \/ MayBeRepeated(messages[i].of)
    BY <2>1 DEF OnceInv, Msg
  <2> QED BY <1>2, <2>1, <2>3, <2>4 DEF OnceInv, MayBeRepeated, Fresh, Msg
<1>12. ToldInv'
  <2>1. m.lang = m.shown \/ m.excused
    BY <1>1 DEF ToldInv, m
  <2>2. \A i \in Rows' : messages'[i].lang = messages'[i].shown \/ messages'[i].excused
    BY <1>4, <2>1 DEF ToldInv, TranslatedAsShown
  <2> QED BY <1>1, <1>2, <1>6, <2>2 DEF ToldInv, TranslatedAsShown
<1> QED BY <1>7, <1>9, <1>10, <1>11, <1>12

\* The agent confirms what the box holds.
LEMMA ConfirmStep == ASSUME Inv, HandleConfirmSend PROVE Inv'
<1> USE DEF Inv
<1>0. PICK r : r = draft.row
  OBVIOUS
<1> DEFINE step == IF draft.box # draft.told THEN "edit" ELSE "confirm"
           m == [Msg(r) EXCEPT !.approved = draft.box, !.confirmed = @ \cup {draft.box}]
<1>1. /\ ui = "review" /\ request.at = "none" /\ ui' = "confirming"
      /\ request' = [NoRequest EXCEPT !.at = step, !.row = r]
      /\ UNCHANGED <<ctx, retried, shown, draft, text, changes, asOf, lost, failed>>
  BY <1>0 DEF HandleConfirmSend, TypeOK
<1>2. /\ r \in Rows /\ r # 0 /\ Msg(r) \in Message /\ Msg(r).of = text
      /\ Fresh(r) \/ r \in failed.answer
      /\ Msg(r).content # "none" /\ draft.box \in Contents
      /\ Msg(r).content \in Msg(r).confirmed \cup {draft.told}
      /\ Msg(r).content = draft.told \/ r \in failed.afterEdit \cup failed.answer
      /\ draft.told = "machine" /\ draft.box # "none"
  BY <1>0, <1>1, Typed DEF PageInv, ReviewInv, TypeOK, Msg, Claimed
<1>3. m \in Message /\ messages' = [messages EXCEPT ![r] = m]
  BY <1>0, <1>2 DEF HandleConfirmSend, Msg, Message
<1>4. /\ messages' \in Seq(Message) /\ Len(messages') = Len(messages) /\ Rows' = Rows
      /\ messages'[r] = m /\ \A i \in Rows \ {r} : messages'[i] = messages[i]
  BY <1>2, <1>3, RowWritten
<1>5. /\ m.of = Msg(r).of /\ m.lang = Msg(r).lang /\ m.shown = Msg(r).shown
      /\ m.excused = Msg(r).excused /\ m.review = Msg(r).review /\ m.approved = draft.box
      /\ m.confirmed = Msg(r).confirmed \cup {draft.box}
      /\ m.content = Msg(r).content /\ m.sent = Msg(r).sent /\ m.status = Msg(r).status
  BY <1>2 DEF Message
<1>6. \A i \in Rows : /\ Msg(i)'.of = Msg(i).of /\ Msg(i)'.status = Msg(i).status
                      /\ Msg(i)'.lang = Msg(i).lang /\ Msg(i)'.shown = Msg(i).shown
                      /\ Msg(i)'.excused = Msg(i).excused /\ Msg(i)'.content = Msg(i).content
                      /\ Msg(i)'.sent = Msg(i).sent
                      /\ (Fresh(i)' <=> Fresh(i)) /\ (i # r => Msg(i)' = Msg(i))
  <2> HIDE DEF m
  <2> QED BY <1>1, <1>4, <1>5 DEF Msg, Fresh
<1>7. request'.at = step /\ request'.row = r /\ request'.asOf = 0
  BY <1>1 DEF NoRequest
<1>8. TypeOK'
  <2>1. RequestOK' /\ DraftOK'
    BY <1>1, <1>2, <1>4, NothingTyped, PartsTyped
       DEF Parts, RequestOK, DraftOK, NoRequest, Steps, Working
  <2> QED BY <1>1, <1>4, <2>1, PartsTyped DEF Parts, Failures
<1>9. PageInv'
  <2>1. step \in Storing /\ step \notin Claimed /\ step \notin Alone /\ step # "insert"
    BY DEF Storing, Claimed, Alone
  <2> HIDE DEF step, m
  <2> QED BY <1>0, <1>1, <1>2, <1>4, <1>6, <1>7, <2>1
          DEF PageInv, OnRow, Storing, Claimed, Alone, Fresh, Msg
<1>10. ReviewInv'
  <2>1. /\ messages'[r].approved = draft.box /\ draft.box \in messages'[r].confirmed
        /\ messages'[r].content = Msg(r).content
        /\ Msg(r).confirmed \subseteq messages'[r].confirmed
    BY <1>4, <1>5
  <2>2. ASSUME NEW i \in Rows, ~Fresh(i), NEW w, Good(i, w) PROVE Good(i, w)'
    <3>1. CASE i = r
      BY <1>1, <1>2, <1>4, <1>5, <2>1, <2>2, <3>1 DEF Good, Msg
    <3>2. CASE i # r
      BY <1>1, <1>6, <2>2, <3>2 DEF Good
    <3> QED BY <3>1, <3>2
  <2>3. ASSUME NEW i \in Rows
        PROVE  /\ ~Fresh(i)' => \/ i \in failed'.translation
                                \/ Msg(i)'.content # "none" /\ Good(i, Msg(i).content)'
               /\ Msg(i)'.sent # "none" =>
                    ~Fresh(i)' /\ (i \in failed'.translation \/ Good(i, Msg(i).sent)')
    <3>2. /\ ~Fresh(i) => i \in failed.translation
                           \/ (Msg(i).content # "none" /\ Good(i, Msg(i).content))
          /\ Msg(i).sent # "none" =>
               ~Fresh(i) /\ (i \in failed.translation \/ Good(i, Msg(i).sent))
      BY DEF ReviewInv
    <3> QED BY <1>1, <1>6, <2>2, <3>2 DEF Good
  <2>4. step = "confirm" => Good(r, Msg(r).content)' /\ messages'[r].content \in messages'[r].confirmed
    BY <1>1, <1>2, <1>4, <1>5, <2>1 DEF Good, Msg
  <2>5. request'.at \in {"edit", "confirm"}
    BY <1>7
  <2>6. /\ draft' = draft /\ failed' = failed /\ Rows' = Rows /\ request'.row = r
        /\ draft'.row = r /\ request'.at = step
    BY <1>0, <1>1, <1>4, <1>7
  <2> HIDE DEF step, m
  <2> QED BY <1>2, <2>1, <2>3, <2>4, <2>5, <2>6 DEF ReviewInv, Good, Storing, Msg
<1>11. OnceInv'
  <2>1. failed.answer \subseteq Rows /\ request'.at \notin Claimed \cup {"ok"}
    BY <1>7, PartsTyped DEF Parts, Failures, Claimed
  <2>2. \A i \in Rows : MayBeRepeated(Msg(i).of)' <=> MayBeRepeated(Msg(i).of)
    BY <1>1, <1>6, <2>1 DEF MayBeRepeated, Msg
  <2> QED BY <1>1, <1>4, <1>6, <2>1, <2>2 DEF OnceInv, Claimed
<1>12. ToldInv'
  <2>1. TranslatedAsShown'
    BY <1>4, <1>6 DEF ToldInv, TranslatedAsShown, Msg
  <2> QED BY <1>1, <1>7, <2>1, Typed DEF ToldInv
<1> QED BY <1>8, <1>9, <1>10, <1>11, <1>12

\* A call throws: the row stays as it is.
LEMMA FailStep == ASSUME Inv, ActionFails PROVE Inv'
<1> USE DEF Inv
<1>1. /\ request.at \in Working /\ Unmoved /\ Proceed("error", request.row)
      /\ messages' = messages
  BY DEF ActionFails
<1>2. /\ draft.row # 0 => draft.row \in Rows
      /\ request.at \in Claimed => request.row \in Rows
      /\ failed \in Failures
  BY <1>1, AtWork, PartsTyped DEF Parts, Working, Claimed
<1>3. /\ failed' \in Failures /\ failed'.translation = failed.translation
      /\ failed.afterEdit \subseteq failed'.afterEdit /\ failed.answer \subseteq failed'.answer
      /\ request.at \in Claimed => request.row \in failed'.answer
      /\ draft.row # 0 => \/ messages[draft.row].content = draft.told
                          \/ draft.row \in failed'.afterEdit
  BY <1>2 DEF ActionFails, Failures
<1> QED BY <1>1, <1>3, Moved

\* A retry writes a row that had left PENDING before: no wording of it changes but that of
\* a row whose translation failed.
LEMMA RowRetried ==
  ASSUME Inv, NEW r \in Rows, ~Fresh(r), Msg(r).status \notin {"SENDING", "SENT"},
         UNCHANGED <<request, ctx, shown, ui, draft, text, changes, asOf, lost, failed>>,
         NEW m \in Message, messages' = [messages EXCEPT ![r] = m],
         retried' \subseteq Rows, \A i \in Rows \ {r} : i \in retried' <=> i \in retried,
         ~(m.status = "PENDING" /\ r \notin retried'),
         m.of = Msg(r).of, m.lang = Msg(r).lang, m.shown = Msg(r).shown,
         m.excused = Msg(r).excused, m.review = Msg(r).review,
         m.approved = Msg(r).approved, m.confirmed = Msg(r).confirmed,
         Msg(r).content # "none" => m.content = Msg(r).content,
         m.sent # "none" => m.sent = Msg(r).sent \/ m.sent = m.content
  PROVE  Inv'
<1> USE DEF Inv
<1>1. /\ messages' \in Seq(Message) /\ Len(messages') = Len(messages) /\ Rows' = Rows
      /\ messages'[r] = m /\ \A i \in Rows \ {r} : messages'[i] = messages[i]
  BY RowWritten
<1>2. \A i \in Rows : /\ Msg(i)'.of = Msg(i).of /\ Msg(i)'.lang = Msg(i).lang
                      /\ Msg(i)'.shown = Msg(i).shown /\ Msg(i)'.excused = Msg(i).excused
                      /\ Msg(i)'.review = Msg(i).review /\ Msg(i)'.approved = Msg(i).approved
                      /\ Msg(i)'.confirmed = Msg(i).confirmed
                      /\ (Fresh(i)' <=> Fresh(i)) /\ (i # r => Msg(i)' = Msg(i))
                      /\ Msg(i).content # "none" => Msg(i)'.content = Msg(i).content
  BY <1>1 DEF Msg, Fresh
<1>3. /\ request.at \in OnRow => request.row \in Rows
      /\ draft.row # 0 => draft.row \in Rows
      /\ request.at \in Alone \cup {"channel", "taken"} => request.row # r
  BY DEF PageInv, TypeOK, OnRow, Working, Alone, Claimed
<1>4. TypeOK'
  BY <1>1, PartsTyped DEF Parts, RequestOK, DraftOK, Failures
<1>5. PageInv'
  BY <1>1, <1>2, <1>3 DEF PageInv, OnRow, Working, Alone, Claimed, Storing, Fresh, Msg
<1>6. ReviewInv'
  <2>1. \A i \in Rows : \A w \in Contents : Good(i, w)' <=> Good(i, w)
    BY <1>2 DEF Good
  <2>2. ASSUME NEW i \in Rows
        PROVE  /\ ~Fresh(i)' => \/ i \in failed'.translation
                                \/ Msg(i)'.content # "none" /\ Good(i, Msg(i).content)'
               /\ Msg(i)'.sent # "none" =>
                    ~Fresh(i)' /\ (i \in failed'.translation \/ Good(i, Msg(i).sent)')
    <3>1. CASE i = r
      <4>1. r \in failed.translation
            \/ (Msg(r).content # "none" /\ Good(r, Msg(r).content) /\ m.content = Msg(r).content)
        BY DEF ReviewInv
      <4>2. Msg(r).sent # "none" => r \in failed.translation \/ Good(r, Msg(r).sent)
        BY DEF ReviewInv
      <4> QED BY <1>1, <1>2, <3>1, <4>1, <4>2 DEF Good, Msg
    <3>2. CASE i # r
      BY <1>2, <3>2 DEF ReviewInv, Good
    <3> QED BY <3>1, <3>2
  <2>3. request.at \in Alone => messages'[request.row] = messages[request.row]
    BY <1>1, <1>3 DEF OnRow, Working, Alone
  <2>4. draft.row # 0 => /\ messages'[draft.row].content = messages[draft.row].content
                         /\ messages'[draft.row].confirmed = messages[draft.row].confirmed
                         /\ messages[draft.row].content # "none"
    BY <1>2, <1>3 DEF ReviewInv, Msg
  <2>5. /\ request.at \in Storing => draft.row # 0 /\ draft.row = request.row
        /\ request.at \in Storing => request.row \in Rows
    BY <1>3, AtWork DEF OnRow, Working, Storing
  <2> QED BY <1>1, <1>2, <2>2, <2>3, <2>4, <2>5 DEF ReviewInv, Alone, Storing, Good, Msg
<1>7. OnceInv'
  <2>1. failed.answer \subseteq Rows
    BY PartsTyped DEF Parts, Failures
  <2>2. \A i \in Rows : MayBeRepeated(Msg(i).of)' <=> MayBeRepeated(Msg(i).of)
    BY <1>2, <2>1 DEF MayBeRepeated, Msg
  <2> QED BY <1>1, <1>2, <2>2 DEF OnceInv
<1>8. ToldInv'
  BY <1>1, <1>2 DEF ToldInv, TranslatedAsShown, Msg
<1> QED BY <1>4, <1>5, <1>6, <1>7, <1>8

\* A failed row is claimed by a retry, and sent again.
LEMMA RetryStep == ASSUME Inv, NEW r \in Rows, RetryReply(r) \/ RetrySends(r) PROVE Inv'
<1> USE DEF Inv
<1>1. Msg(r) \in Message /\ retried \subseteq Rows
  BY Typed, PartsTyped DEF Parts, Msg
<1>2. CASE RetryReply(r)
  <2> DEFINE m == [Msg(r) EXCEPT !.status = "PENDING"]
  <2>1. /\ m \in Message /\ messages' = [messages EXCEPT ![r] = m] /\ m.sent = Msg(r).sent
        /\ m.of = Msg(r).of /\ m.lang = Msg(r).lang /\ m.shown = Msg(r).shown
        /\ m.excused = Msg(r).excused /\ m.review = Msg(r).review /\ m.content = Msg(r).content
        /\ m.approved = Msg(r).approved /\ m.confirmed = Msg(r).confirmed
    BY <1>1, <1>2 DEF RetryReply, Msg, Message
  <2>2. /\ Msg(r).status = "FAILED" /\ ~Fresh(r) /\ retried' = retried \cup {r}
        /\ UNCHANGED <<request, ctx, shown, ui, draft, text, changes, asOf, lost, failed>>
    BY <1>2 DEF RetryReply, Msg, Fresh
  <2> HIDE DEF m
  <2> QED BY <1>1, <2>1, <2>2, RowRetried
<1>3. CASE RetrySends(r)
  <2> DEFINE now == [Msg(r) EXCEPT !.content = IF @ = "none" THEN "machine" ELSE @,
                       !.terms = IF Msg(r).content = "none" THEN AppliesTerms(Msg(r).lang) ELSE @]
  <2>1. /\ now \in Message /\ now.of = Msg(r).of /\ now.lang = Msg(r).lang
        /\ now.shown = Msg(r).shown /\ now.excused = Msg(r).excused
        /\ now.review = Msg(r).review /\ now.approved = Msg(r).approved
        /\ now.confirmed = Msg(r).confirmed /\ now.sent = Msg(r).sent
        /\ Msg(r).content # "none" => now.content = Msg(r).content
    BY <1>1 DEF Message, AppliesTerms, Contents
  <2>2. /\ Msg(r).status = "PENDING" /\ ~Fresh(r) /\ retried' = retried \ {r}
        /\ UNCHANGED <<request, ctx, shown, ui, draft, text, changes, asOf, lost, failed>>
    BY <1>3 DEF RetrySends, Msg, Fresh
  <2>3. messages' \in {[messages EXCEPT ![r] = [now EXCEPT !.status = "SENT", !.sent = now.content]],
                       [messages EXCEPT ![r] = [now EXCEPT !.status = "FAILED"]],
                       [messages EXCEPT ![r].status = "FAILED"]}
    BY <1>3 DEF RetrySends, Msg
  <2> HIDE DEF now
  <2>4. PICK m : /\ messages' = [messages EXCEPT ![r] = m]
                 /\ m \in {[now EXCEPT !.status = "SENT", !.sent = now.content],
                           [now EXCEPT !.status = "FAILED"], [Msg(r) EXCEPT !.status = "FAILED"]}
    BY <2>3 DEF Msg
  <2>5. /\ m \in Message /\ m.of = Msg(r).of /\ m.lang = Msg(r).lang
        /\ m.shown = Msg(r).shown /\ m.excused = Msg(r).excused
        /\ m.review = Msg(r).review /\ m.approved = Msg(r).approved
        /\ m.confirmed = Msg(r).confirmed /\ m.status # "PENDING"
        /\ m.sent = Msg(r).sent \/ m.sent = m.content
        /\ Msg(r).content # "none" => m.content = Msg(r).content
    BY <1>1, <2>1, <2>4 DEF Message
  <2> QED BY <1>1, <2>2, <2>4, <2>5, RowRetried
<1> QED BY <1>2, <1>3

-----------------------------------------------------------------------------
LEMMA InvStep == Inv /\ [Next]_vars => Inv'
<1> SUFFICES ASSUME Inv, [Next]_vars PROVE Inv'
  OBVIOUS
<1>1. ASSUME NEW l \in Optional, SetConversationLanguageOverride(l) PROVE Inv'
  <2>1. Change([ctx EXCEPT !.override = l]) /\ [ctx EXCEPT !.override = l] \in Context
    BY <1>1 DEF SetConversationLanguageOverride, SetLanguageOverride, Inv, TypeOK, Context
  <2> QED BY <2>1, LanguageStep DEF Change
<1>2. ASSUME NEW l \in Langs,
             UpdatePreferredLanguage(l) \/ UpdateDetectedLanguage(l) \/ UpdateOrgSettings(l)
      PROVE  Inv'
  <2>1. \E new \in Context : Change(new)
    BY <1>2 DEF UpdatePreferredLanguage, UpdateDetectedLanguage, UpdateOrgSettings, Inv, TypeOK,
       Context, Optional
  <2> QED BY <2>1, LanguageStep DEF Change
<1>3. CASE RefreshPage
  BY <1>3, LanguageStep DEF RefreshPage
<1>4. CASE \/ ReloadPage \/ (\E review \in BOOLEAN : Submit(review))
           \/ (\E box \in {"machine", "edited"} : EditDraft(box)) \/ ReceiveAnswer
  BY <1>4, PageStep
<1>5. CASE UNCHANGED vars
  <2>1. TypeOK'
    BY <1>5 DEF vars, Inv, TypeOK, Rows
  <2>2. PageInv' /\ ReviewInv' /\ OnceInv' /\ ToldInv'
    BY <1>5 DEF vars, Inv, PageInv, ReviewInv, OnceInv, ToldInv, TranslatedAsShown, Rows, Msg,
       Fresh, Good, MayBeRepeated
  <2> QED BY <2>1, <2>2 DEF Inv
<1> QED BY <1>1, <1>2, <1>3, <1>4, <1>5, ConfirmStep, InsertStep, ServerStep, FailStep, RetryStep
       DEF Next

LEMMA Invariant == Spec => []Inv
<1>1. ASSUME Init PROVE Inv
  <2>1. /\ ctx \in Context /\ ResolveTargetLanguage(ctx) \in Langs /\ shown = ResolveTargetLanguage(ctx)
        /\ messages = <<>> /\ Rows = {} /\ request = NoRequest /\ draft = NoDraft
        /\ ui = "compose" /\ text = 1 /\ changes = 0 /\ asOf = 0
        /\ failed = [translation |-> {}, afterEdit |-> {}, answer |-> {}] /\ lost = {}
        /\ retried = {}
    <3>1. ctx \in Context
      BY <1>1 DEF Init, Context, Optional
    <3> QED BY <1>1, <3>1, ResolvedIsALanguage DEF Init, Rows
  <2>2. TypeOK
    <3>1. RequestOK /\ DraftOK
      BY <2>1, NothingTyped DEF RequestOK, DraftOK, NoRequest
    <3> QED BY <2>1, <3>1, PartsTyped, ComposerBounds DEF Parts, Failures, Texts
  <2>3. PageInv /\ ReviewInv /\ OnceInv /\ ToldInv
    BY <2>1 DEF PageInv, ReviewInv, OnceInv, ToldInv, TranslatedAsShown, NoRequest, NoDraft, OnRow,
       Working, Claimed, Alone, Storing
  <2> QED BY <2>2, <2>3 DEF Inv
<1> QED BY <1>1, InvStep, PTL DEF Spec

\* Rows, page and request stay well-formed, and a request is at a step the page waits for.
THEOREM TypeCorrect == Spec => []TypeOK
<1>1. Inv => TypeOK
  BY DEF Inv
<1> QED BY <1>1, Invariant, PTL

\* Of a reviewed text nothing reaches the contact but a wording the agent confirmed, and
\* unless an edit was stored by a confirmation that failed, or an error answered for a row
\* that had left PENDING, the one confirmed last - whatever failed, was retried or reloaded
\* in between, and wherever a call threw.  A translation that failed excuses everything.
THEOREM OnlyWhatWasReviewed == Spec => []SentAsReviewed
<1>1. Inv => SentAsReviewed
  BY DEF Inv, ReviewInv, Good, SentAsReviewed, Msg
<1> QED BY <1>1, Invariant, PTL

\* However often a page is reloaded, a call throws or a row is retried, no text reaches the
\* contact twice unless its agent was left without an answer, or was answered an error
\* though the row had been sent or was to be retried.
THEOREM NoTextTwice == Spec => []OneMessagePerText
<1>1. Inv => OneMessagePerText
  BY DEF Inv, ReviewInv, OnceInv, OneMessagePerText, Msg
<1> QED BY <1>1, Invariant, PTL

\* Every row is in the language the page named, but for a setting changed since.
THEOREM LanguageAsShown == Spec => []TranslatedAsShown
<1>1. Inv => TranslatedAsShown
  BY DEF Inv, ToldInv
<1> QED BY <1>1, Invariant, PTL
=============================================================================
