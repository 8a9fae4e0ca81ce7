SPECIFICATION FairSpec
CONSTANTS
  Mimes = {"markdown", "image", "text", "other"}
  Exts = {"code", "pdf", "other"}
  MaxChurn = 3
  MaxFaults = 3
INVARIANTS
  TypeOK
  
  OneLoadDecides
PROPERTY AdviceHelps
