CONSTANTS
  here = here other = other a = a b = b top = top sub = sub
  nameA = nameA nameB = nameB t1 = t1 t2 = t2 bad = bad
  None = None
  NoText = NoText
  Here = here
  Nested = TRUE
  Managers = {here, other}
  Files = {a, b}
  Packages = {top, sub}
  Texts = {t1, bad}
  DoesNotCompile = {bad}
  Malformed = {bad}
  Budget = 5
  MaxVersion = 3
  Reordering = FALSE
  Outsiders = FALSE
  Dir <- MCDir
  Above <- MCAbove
  Base <- MCBase
  Uses <- MCUses
  ErrorsIn <- MCErrorsIn
SPECIFICATION Spec
INVARIANT DirtyIsStale
CHECK_DEADLOCK FALSE
