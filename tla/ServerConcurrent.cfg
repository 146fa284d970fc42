SPECIFICATION Spec
CONSTANTS
  owner = owner
  ann = ann
  s1 = s1
  s2 = s2
  NoOne = NoOne
  Creator = owner
  Pseudonym <- Two
  Slot <- TwoSlots
  Requests = {"Join", "Leave", "LeaveUnhosted", "Kick", "Ban", "Unban", "RequestMEK"}
  Named = {}
  Edits <- NoEdits
  MaxKeys = 3
  Crashes = FALSE
  HostRace = FALSE
INVARIANTS CurrentKeyHoldersBelong BannedAreOut CreatorFoundsFirst
PROPERTIES KeepsPromise
