SPECIFICATION MCFairSpec
CONSTANTS
  Content = {c1, c2}
  Gen = {1, 2, 3, 4, 5, 6, 7, 8, 9, 10}
  None = None
  Legacy = Legacy
  Unwritten = Unwritten
  LegacyKinds = {"absent", "partial", "full"}
  MaxBundles = 3
  MaxFaults = 3
ACTION_CONSTRAINT SmallestNames
INVARIANTS TypeOK Recoverable SuccessIsCommitted SurvivesReboot
PROPERTIES ActivationIsObserved AllOrNothing EventuallyCommitted
