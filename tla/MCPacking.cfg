SPECIFICATION Spec
CONSTANTS
  Colors <- MCColors
  Layouts = {"Grb", "Rgb", "Bgr", "Rbg", "Gbr", "Brg"}
  EpochModulus = 8
INVARIANTS TypeOK OffIsDark LightPreserved
PROPERTIES SmallSteps
