SPECIFICATION Spec
CHECK_DEADLOCK FALSE
CONSTANTS
  Tables <- AllTables
  Starts <- AllStarts
  Named <- AllNames
  MaxCalls = 2
  Unread <- UnreadOptions
  PassedOver <- PassedOverOptions
  Drifting <- DriftingSettings
  Left <- LeftOptions
  Refusers = {"ByExtension", "Chunking", "LambdaFn", "Mgard13", "Szp"}
INVARIANTS Heard RoundTrip Portable
