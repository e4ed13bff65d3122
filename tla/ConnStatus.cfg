SPECIFICATION FairSpec
CONSTANTS
  Names = {a, b}
  MaxVersion = 2
  MaxReports = 2
INVARIANTS TypeOK RunningIsDefined OnlineIsComplete
PROPERTIES Recovers
