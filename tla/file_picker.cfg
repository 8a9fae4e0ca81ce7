SPECIFICATION FairSpec
CONSTANTS
  Names = {1, 2, 3}
  SubName = 2
  MaxEntries = 2
  MaxChurn = 1
  NoCall = NoCall
  NoListing = NoListing
INVARIANTS
  TypeOK
  ListingIsTrue
PROPERTY ListingEnds
