SPECIFICATION FairSpec
CONSTANTS
  Archives = {a, b, c}
  Good = {a, b}
  Junk = Junk
  Admins = {u, v}
  None = None
  MaxOps = 3
  MaxFaults = 2
INVARIANTS TypeOK InstalledIsPublished
PROPERTIES UploadReaches
