SPECIFICATION Spec
CONSTANTS
  CapacityBits = 5
  DriverMaxChannels = 4
  MaxChannels = 3
  PhaseModulus = 2
INVARIANT TypeOK
PROPERTIES WordsAreSets
