SPECIFICATION Spec
CONSTANTS
  MaxChannels = 2
  DriverMaxChannels = 3
  PhaseModulus = 3
  MaxSpurious = 1
  Lossy = TRUE
  Regrant = {"kept", "withdrawn"}
  DebugAssertions = FALSE
  IdsWrapped = TRUE
INVARIANTS TypeOK NoLostFrame FramePhaseCurrent TransferOwnership OverrunBounded NoFalseAccusation NoLeakedLease NoStrandedWork MisleadsOnlyUnconfigured
PROPERTIES WorkChangesOnlyOnSuccess LatchBlocksDriver FrameBehindEveryBit
