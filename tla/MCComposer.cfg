\* Two rows, two languages, one change of the language settings.
SPECIFICATION Spec
CONSTANTS
  Langs = {en, fr}
  Null = Null
  Glossary = {en, fr}
  MaxMessages = 2
  MaxChanges = 1
SYMMETRY LangSymmetry
VIEW Relevant
INVARIANTS
  SentAsReviewed
  OneMessagePerText
  TranslatedAsShown
\* The page may be left alone.
CHECK_DEADLOCK FALSE
