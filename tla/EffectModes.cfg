SPECIFICATION Spec
CONSTANTS
  Programs <- WeldingPrograms
  Turns <- WeldingPrograms
  Effects <- Applied
  Asked <- AskedValues
  MinKelvin = 2300
  MaxKelvin = 10000
  GmV2 = 1
  MaxCalls = 0
  MaxMishaps = 1
INVARIANTS OfferedIsCarried
CHECK_DEADLOCK FALSE
