\* One row, one language with glossary terms.
SPECIFICATION Spec
CONSTANTS
  Langs = {en, fr}
  Null = Null
  Glossary = {fr}
  MaxMessages = 1
  MaxChanges = 1
INVARIANTS
  GlossaryApplied
CHECK_DEADLOCK FALSE
