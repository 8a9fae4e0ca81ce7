SPECIFICATION Spec
CONSTANTS
  Users = {u1}
  Sources = {s1}
  Contents = {c1, c2}
  MaxArt = 1
  MaxVer = 2
  MaxUpl = 2
  MaxTok = 2
  NoRow = NoRow
  NoFile = NoFile
  Threads = {t1}
  NoThread = NoThread
  Idle = Idle
  Faults = {"error"}
PROPERTY DiscardsOnlyUnpublished
CHECK_DEADLOCK FALSE
