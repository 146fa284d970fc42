SPECIFICATION FairSpec
CONSTANTS
  Routes = 7
  Faults = 2
  Retries = 1
INVARIANTS OneHolder
PROPERTIES Recovers
