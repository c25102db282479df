SPECIFICATION Spec
CONSTANTS
  Programs <- AllPrograms
  Turns <- LaterTurns
  Effects <- Applied
  Asked <- AskedValues
  MinKelvin = 2300
  MaxKelvin = 10000
  GmV2 = 1
  MaxCalls = 1
  MaxMishaps = 1
INVARIANTS KeepsTheRest ShownIsReported PixelProgramWhole
CHECK_DEADLOCK FALSE
