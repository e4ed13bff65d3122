SPECIFICATION FairSpec
CONSTANTS
  MaxVersion = 2
  MaxFaults = 2
INVARIANTS TypeOK AppliedIsReal ErrorIsCurrent RetirementIsReal
PROPERTIES NoRegression Settles
