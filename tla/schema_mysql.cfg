SPECIFICATION Spec
CONSTANTS
  Versions = {v1, v2}
  MaxShares = 3
  MaxCrashes = 2
  NoTable = NoTable
INVARIANT StartSucceeds
\* Once it is up, the process stays up when the crashes are used up.
CHECK_DEADLOCK FALSE
