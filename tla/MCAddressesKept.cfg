SPECIFICATION Spec
CONSTANTS
  Address = {a, b}
  Older = Older
  Task = {t}
  NoTask = NoTask
  First = 1
  Each = 1
  Parts = 1
  Last = 1
  MaxSectors = 2
  Room = 1
  MaxRounds = 2
PROPERTIES NewKept
