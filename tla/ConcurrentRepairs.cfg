SPECIFICATION Spec
CONSTANTS
  Flows = {f1, f2}
  MaxExchanges = 3
  MaxMishaps = 2
SYMMETRY FlowSymmetry
INVARIANT OnlyAcceptedKeys
