SPECIFICATION FairSpec
CONSTANTS
  a = a
  b = b
  Id = {b}
  Junk = Junk
  None = None
  Size <- SizeJunk
  SectorSize = 3
  MaxSector = 1
  Link = {"wifi", "nb"}
  MaxRequests = 1
  MaxFaults = 2
  MaxBoots = 1
INVARIANTS TypeOK NothingHidden SavedCoversFlash
PROPERTIES ImplementsStack Drained
