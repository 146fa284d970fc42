SPECIFICATION FairSpec
CONSTANTS
  Slot <- OneHandler
  MaxEdits = 2
  Faults = 1
PROPERTIES RecordCatchesUp GenerationCatchesUp
