----------------------------- MODULE Languages -----------------------------
(***************************************************************************)
(* Which language a contact is written to (resolveLanguage.ts), and the     *)
(* filters of the inbox and of the contact list that ask for it.  A context *)
(* is what the four settings say: the override of the conversation, the     *)
(* preferred and the detected language of the contact, and the default of   *)
(* the organization, which the schema never leaves null.                    *)
(***************************************************************************)

CONSTANTS
  Langs,  \* language codes
  Null    \* a setting nobody has made

ASSUME NullAssumption == Null \notin Langs

Optional == Langs \cup {Null}
Context  == [override : Optional, preferred : Optional, detected : Optional, org : Langs]

\* conversationOverride ?? contactPreferred ?? contactDetected ?? orgDefault; the
\* final "en" is for an organization without a default, which does not occur.
ResolveTargetLanguage(ctx) ==
  CASE ctx.override # Null  -> ctx.override
    [] ctx.override = Null /\ ctx.preferred # Null -> ctx.preferred
    [] ctx.override = Null /\ ctx.preferred = Null /\ ctx.detected # Null -> ctx.detected
    [] OTHER -> ctx.org

\* The same chain for an inbound message, whose reader is the assigned user: there
\* is no detected language, and an unassigned conversation has no reader to prefer.
ReaderLanguage(ctx, assigneePreferred) ==
  ResolveTargetLanguage([ctx EXCEPT !.preferred = assigneePreferred, !.detected = Null])

\* A list may be searched too: what the search says of a row, if there is one.
Searches == {"none", "matches", "misses"}

\* Both lists spread the condition of the language and that of the search into one
\* object under the same key OR, so with a search only the search is asked.
SpreadOr(ofLanguage, search) == IF search = "none" THEN ofLanguage ELSE search = "matches"

\* listForInbox, where filters.language = l.
InboxFilter(ctx, l, search) ==
  SpreadOr(\/ ctx.override = l
           \/ ctx.override = Null /\ ctx.preferred = l
           \/ ctx.override = Null /\ ctx.preferred = Null /\ ctx.detected = l,
           search)

\* listForContactsPage, where filters.language = l: a contact has no override.
ContactsFilter(ctx, l, search) ==
  SpreadOr(ctx.preferred = l \/ (ctx.preferred = Null /\ ctx.detected = l), search)

\* The conversation has no language but the default of its organization.
DefaultOnly(ctx) == ctx.override = Null /\ ctx.preferred = Null /\ ctx.detected = Null
=============================================================================
