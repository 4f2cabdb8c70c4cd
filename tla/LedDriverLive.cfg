SPECIFICATION FairSpec
CONSTANTS
  MaxChannels = 1
  DriverMaxChannels = 1
  PhaseModulus = 2
  MaxSpurious = 1
  Lossy = FALSE
  Regrant = {"kept"}
  DebugAssertions = TRUE
  IdsWrapped = FALSE
INVARIANTS BackendErrorIsGenuine
PROPERTIES FrameReachesWire InFlightCompletes
