SPECIFICATION Spec
CONSTANTS
  Shares = {s1}
  Requests = {r1}
  MaxTok = 2
  MaxTime = 4
  MaxEpoch = 2
  Second = 2
  TTL = 1
  NoRow = NoRow
  Never = Never
  Idle = Idle
INVARIANTS
  TypeOK
  ServedWasEntitled
  PreviewLifetime
\* The clock and the tokens are bounded.
CHECK_DEADLOCK FALSE
