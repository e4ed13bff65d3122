SPECIFICATION FairSpec
CONSTANTS
  Conns = {a, b}
  Content = {c1, c2}
  None = None
  Broken = Broken
  MaxTarget = 4
  MaxFaults = 2
INVARIANTS TypeOK NoOrphan SuccessIsComplete
PROPERTY Converges
