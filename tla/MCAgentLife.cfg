SPECIFICATION Spec
CONSTANTS
  Tokens = {t1}
  Requests = {r1, r2}
  Nobody = Nobody
  Timeout = 2
  ProcessTtl = 1
  StatusTtls = {2, 3}
  ReapEvery = 1
  Attempts = 2
  MaxTtl = 3
  MaxDelay = 1
  MaxFaults = 1
INVARIANTS TypeOK NeverLockedOut RefusedForReason OfflineIsUnknown
PROPERTIES HonoursLeases
SYMMETRY RequestSymmetry
