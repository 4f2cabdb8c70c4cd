SPECIFICATION Spec
CONSTANTS
  LogicalIds = {0, 1, 2, 3}
  BackendIds = {4, 5}
  PixelCounts = {0, 1, 2}
  DriverMaxChannels = 3
  MaxChannels = 2
  ByteLimit = {3}
INVARIANTS TypeOK SetupWellFormed OnlyGenuineRefusals AtomicConfiguration BackendAgrees LimitsBeforeBackend
PROPERTIES ImplementsConfigure
