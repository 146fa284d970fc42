SPECIFICATION Spec
CONSTANTS
  owner = owner
  ann = ann
  s1 = s1
  s2 = s2
  NoOne = NoOne
  Creator = owner
  Pseudonym <- Two
  Slot <- OneSlot
  Requests = {"Join", "Leave", "RequestMEK", "RotateMEK", "AssignRole", "UnassignRole",
              "EditRole"}
  Named = {1}
  Edits <- Lift
  MaxKeys = 3
  Crashes = TRUE
  HostRace = FALSE
INVARIANTS DeliveredKeysPersisted GenerationNamesOneKey ServedKeyIsNewest
           RosterMatchesDatabase
