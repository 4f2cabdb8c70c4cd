SPECIFICATION Spec
CONSTANTS
  MaxChannels = 2
  DriverMaxChannels = 2
  PhaseModulus = 2
  MaxSpurious = 0
  Lossy = FALSE
  Regrant = {"kept"}
  DebugAssertions = FALSE
  IdsWrapped = FALSE
INVARIANTS BackendErrorIsGenuine
