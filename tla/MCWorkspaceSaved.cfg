CONSTANTS
  here = here other = other a = a b = b top = top sub = sub
  nameA = nameA nameB = nameB t1 = t1 t2 = t2 bad = bad
  None = None
  NoText = NoText
  Here = here
  Nested = FALSE
  Managers = {here}
  Files = {a, b}
  Packages = {top}
  Texts = {t1, t2, bad}
  DoesNotCompile = {bad}
  Malformed = {bad}
  Budget = 5
  MaxVersion = 4
  Reordering = FALSE
  Outsiders = FALSE
  Dir <- MCDir
  Above <- MCAbove
  Base <- MCBase
  Uses <- MCUses
  ErrorsIn <- MCErrorsIn
SPECIFICATION Spec
INVARIANT SavedIsCompiled
CHECK_DEADLOCK FALSE
