SPECIFICATION PartsSpec
CONSTANTS
  embeds = embeds
  perCall = perCall
  None = None
  Torn = Torn
  NoReach = NoReach
  AllSuites = AllSuites
  Literals <- MCLiterals
  Unescaped <- MCUnescaped
  Outside = {"../lib", "../lib.pony"}
  Order <- MCOrder
  SuiteOf <- MCSuiteOf
  BlocksOf <- MCBlocksOf
  DefsOf <- MCDefsOf
  ErrsFrom <- MCErrsFrom
  Diverges <- MCDiverges
  Lateness <- MCLateness
  MaxEdits = 1
  MaxInterrupts = 1
  c1 = c1
  c2 = c2
  m1 = m1
  m2 = m2
  NoMessage = NoMessage
  Messages = {m1, m2}
  CaseOrder <- MCCaseOrder
  Outputs <- MCOutputs
  f1 = f1
  f2 = f2
  f3 = f3
  k1 = k1
  k2 = k2
  Unreadable = Unreadable
  Absent = Absent
  MaxDeaths = 1
  Corpus <- MCListed
  Streams <- MCStreams
INVARIANTS
  RowsAreAsserted ReachIsTrue PassIsWhole ReportIsPonycs
  RejectsForPonycsReason SitsWherePonycPutsIt NothingIsNarrowed AgreementIsSeen
CHECK_DEADLOCK FALSE
