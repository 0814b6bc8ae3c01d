SPECIFICATION Spec
CONSTANTS
  embeds = embeds
  perCall = perCall
  None = None
  Torn = Torn
  NoReach = NoReach
  AllSuites = AllSuites
  Literals <- MCLiterals
  Unescaped <- MCUnescaped
  Outside = {"../lib", "../lib.pony"}
  Order <- MCOrder
  SuiteOf <- MCSuiteOf
  BlocksOf <- MCBlocksOf
  DefsOf <- MCDefsOf
  ErrsFrom <- MCErrsFrom
  Diverges <- MCDiverges
  Lateness <- MCLateness
  MaxEdits = 1
  MaxInterrupts = 1
INVARIANT StoppedBatchFails
CHECK_DEADLOCK FALSE
