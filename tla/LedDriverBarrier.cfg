SPECIFICATION Spec
CONSTANTS
  MaxChannels = 1
  DriverMaxChannels = 1
  PhaseModulus = 2
  MaxSpurious = 0
  Lossy = FALSE
  Regrant = {"kept"}
  DebugAssertions = TRUE
  IdsWrapped = FALSE
INVARIANTS CommittedBeforeLaunch
