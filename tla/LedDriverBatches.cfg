SPECIFICATION FairSpec
CONSTANTS
  MaxChannels = 2
  DriverMaxChannels = 2
  PhaseModulus = 2
  MaxSpurious = 1
  Lossy = TRUE
  Regrant = {}
  DebugAssertions = TRUE
  IdsWrapped = FALSE
INVARIANTS CommittedBeforeLaunch
PROPERTIES ConsecutivePhases WaitsOnlyForCompletion AnyCompletionHeals ImplementsTransport
