SPECIFICATION FairSpec
CONSTANTS
  Requests = {r1, r2}
  Contents = {c1, c2}
  MaxVer = 2
  NoFile = NoFile
  Partial = Partial
  NoRow = NoRow
INVARIANTS
  TypeOK
  AnsweredShareHolds
  PublishesOnce
  NoPartialFile
PROPERTIES
  PublishedFileStays
  AbortEnds
