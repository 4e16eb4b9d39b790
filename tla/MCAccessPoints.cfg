SPECIFICATION Spec
CONSTANTS
  Bssid <- Points
  Zero <- Nothing
  Net <- Ours
  Sky <- Skies
  Rows = 3
  Reported = 2
  Anchored = 2
  Shut = 2
  MaxFailures = 1
INVARIANTS TypeOK HeardReported JoinsInTime
PROPERTIES AnchorsKept AnchorsAsked BackOff
