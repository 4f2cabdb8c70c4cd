SPECIFICATION Spec
CONSTANTS
  MaxChannels = 2
  MaxSubmits = 1
INVARIANTS TypeOK FlagsFollowLease
PROPERTIES KeepsContract
