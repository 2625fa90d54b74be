----------------------------- MODULE MCComposer -----------------------------
(* The instance of Composer that TLC checks.  No step compares two languages   *)
(* otherwise than for equality, and the instance gives every language glossary *)
(* terms, so the languages are symmetric.                                      *)
EXTENDS Composer, TLC

LangSymmetry == Permutations(Langs)

\* What the steps to come and the run's invariants depend on.  The language settings
\* matter until the last row is inserted, and once they change no more, by the language
\* they name; of a row's languages, whether they are as shown; of a request, what the
\* page sent along until its row is inserted.
RowSeen(m) ==
  <<m.of, m.review, m.content, m.approved, m.confirmed, m.sent, m.status,
    m.lang = m.shown \/ m.excused>>

LanguagesSeen ==
  CASE Len(messages) = MaxMessages -> <<>>
    [] Len(messages) < MaxMessages /\ changes = MaxChanges ->
         <<ResolveTargetLanguage(ctx), shown, asOf>>
    [] OTHER -> <<ctx, shown, asOf, changes>>

Relevant ==
  <<LanguagesSeen, [i \in Rows |-> RowSeen(messages[i])], retried, ui, draft, text,
    IF request.at = "insert" THEN <<request>> ELSE <<request.at, request.row, request.review>>,
    lost, failed>>
=============================================================================
