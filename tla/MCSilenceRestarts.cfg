CONSTANTS
  Unit = 60000
  MaxGnrmc = 1
  MaxEvents = 0
  MaxLine = 2
  WifiInRange = FALSE
  Prompt = TRUE
  MayFallSilent = TRUE
  Answers = {}
SPECIFICATION FairSpec
PROPERTY SilenceRestarts
