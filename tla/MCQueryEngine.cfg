CONSTANTS
  Queries <- MCQueries
  Inputs <- MCInputs
  Values = {0, 1}
  Unset = 0
  NoValue = NoValue
  Done = Done
  Idle = Idle
  MaxReads = 2
  MaxRevision = 3
  NextRead <- MCNextRead
  Result <- MCResult
  Rank <- MCRank
SPECIFICATION FairSpec
INVARIANTS VerifiedIsRight OnlyWhatIsNeeded RunsOncePerRevision
PROPERTIES OracleSpec DemandReturns
