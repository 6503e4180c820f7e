CONSTANTS
  BatchSize = 2
  MaxEvents = 4
  SavesByRename = FALSE
  MaxSaves = 4
SPECIFICATION ProcessSpec
INVARIANTS TypeOK OnePlace ShutdownEmpties
PROPERTIES BufferDrains ShutdownReturns LastSaveGenerated
