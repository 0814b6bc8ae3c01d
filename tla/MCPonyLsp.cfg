SPECIFICATION PartsSpec
CONSTANTS
  Managers = {m1, m2}
  Packages = {p}
  NoResult = NoResult
  MaxRuns = 3
  Budget = 4
  Ahead = 2
  Clients = {{"progress", "strings"}, {"configuration", "dynamic", "refresh"}}
  Frames <- MCFrames
  Lengths <- MCLengths
  Headers <- MCHeaders
  Contents <- MCContents
  NoLength = NoLength
  Unusable = Unusable
  MaxFrames = 3
INVARIANTS
  OneInFlight AnsweredOnce SymbolAnswerIsWhole ResponsesAreExpected 
  InOrder NothingWaits
PROPERTIES RequestsAnswered AskedCompilesEnd
CHECK_DEADLOCK FALSE
