SPECIFICATION FairSpec
CONSTANTS
  MaxChannels = 2
  DriverMaxChannels = 2
  PhaseModulus = 2
  MaxSpurious = 0
  Lossy = FALSE
  Regrant = {"kept", "withdrawn"}
  DebugAssertions = TRUE
  IdsWrapped = FALSE
PROPERTIES ImplementsTransport ImplementsFairness
