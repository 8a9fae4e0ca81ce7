SPECIFICATION Spec
CONSTANTS
  Users = {u1, u2}
  Sources = {s1}
  Contents = {c1, c2}
  MaxArt = 2
  MaxVer = 2
  MaxUpl = 2
  MaxTok = 2
  NoRow = NoRow
  NoFile = NoFile
  Threads = {t1, t2}
  NoThread = NoThread
  Idle = Idle
  Faults = {"error", "crash"}
SYMMETRY Symmetry
INVARIANTS
  TypeOK
  OneArtifactPerSource
  VersionReserved
  VersionBytes
  DeliveredLinkHolds
  RevokedStaysDead
  ShareOwner
PROPERTY LocalNeverRepeatsLatest
\* The instance stops when every version, upload and token is used up.
CHECK_DEADLOCK FALSE
