SPECIFICATION Spec
CONSTANTS
  owner = owner
  ann = ann
  general = general
  Creator = owner
  Person <- TwoPeople
  Channel <- General
  Grant <- Grants
  LastCreated = {0, 4}
  MaxRole = 5
  Place = {0, 4}
  MaxNow = 2
  MaxChanges = 3
INVARIANTS HeldRolesExist RestartChangesNothing 
CHECK_DEADLOCK FALSE
