SPECIFICATION Spec
CONSTANTS
  Flows = {f1}
  MaxExchanges = 4
  MaxMishaps = 3
INVARIANT TypeOK
INVARIANT KeysNeverLost
INVARIANT OnlyAcceptedKeys
PROPERTY RepairReachesEntry
