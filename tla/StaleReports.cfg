SPECIFICATION FairSpec
CONSTANTS
  Client = {k1, k2, k3}
  Calls = {call}
  None = None
  Earlier = Earlier
  MaxCandidates = 2
  MaxMissed = 2
  MaxMishaps = 2
INVARIANTS FreshPages
