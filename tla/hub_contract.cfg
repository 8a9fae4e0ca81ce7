\* One creator, three versions: deeper than hub_safety, and no call fails but by
\* its own refusal.
SPECIFICATION FairSpec
CONSTANTS
  Users = {u1}
  Sources = {s1}
  Contents = {c1, c2}
  MaxArt = 1
  MaxVer = 3
  MaxUpl = 2
  MaxTok = 3
  NoRow = NoRow
  NoFile = NoFile
  Threads = {t1, t2}
  NoThread = NoThread
  Idle = Idle
  Faults = {"crash"}
PROPERTIES
  KeepsContract
  LockIsReleased
\* The instance stops when every version, upload and token is used up.
CHECK_DEADLOCK FALSE
