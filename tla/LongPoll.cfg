SPECIFICATION FairSpec
CONSTANTS
  Handlers = {h1, h2}
  None = None
  MaxRevs = 3
  MaxFaults = 1
INVARIANTS TypeOK NoLostWakeup NoLeakedWaiter
PROPERTIES Converges CertIsRenewed
