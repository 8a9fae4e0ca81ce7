SPECIFICATION FairSpec
CONSTANTS
  Hub = Hub
  Peers = {p1}
  Roots = {n1, n2}
  None = None
  MaxChurn = 3
  Artifacts = {a1}
  MaxVer = 2
  Refreshes = {"refresh"}
  Collapsed = 1
  NoCall = NoCall
  NoQuery = NoQuery
INVARIANTS
  TypeOK
  OnePanelMarked
  PreviewsAreCurrent
PROPERTIES
  RowComesBack
  LoadingEnds
\* The plugin is unloaded in the end.
CHECK_DEADLOCK FALSE
