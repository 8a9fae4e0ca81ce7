SPECIFICATION Spec
CONSTANTS
  Dates = {d1, d2}
  Blank = Blank
  MaxVer = 2
  MaxTok = 3
  MaxLate = 1
  None = None
  Waiting = Waiting
SYMMETRY Symmetry
INVARIANTS
  TypeOK
  CopiedAsShown
  LeftLinkIsLive
\* The instance stops when its versions and tokens are used up.
CHECK_DEADLOCK FALSE
