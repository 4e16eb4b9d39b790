SPECIFICATION Spec
CONSTANTS
  a = a
  b = b
  Id = {a, b}
  Junk = Junk
  None = None
  Size <- SizeMixed
  SectorSize = 4
  MaxSector = 1
  Link = {"wifi", "nb"}
  MaxRequests = 2
  MaxFaults = 1
  MaxBoots = 0
PROPERTIES SentBeforeErased
