SPECIFICATION Spec
CONSTANTS
  BlobThreshold = 4
  MaxScan = 4
  MaxWrites = 2
  Entry <- MCEntry
  Patch <- MCPatch
INVARIANTS StoredIsClean RefsResolve LoadRoundTrip DecisionIsOneDocument
