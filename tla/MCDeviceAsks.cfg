CONSTANTS
  Unit = 60000
  MaxGnrmc = 1
  MaxEvents = 0
  MaxLine = 2
  WifiInRange = FALSE
  Prompt = TRUE
  MayFallSilent = FALSE
  Answers = {"success", "region", "unused", "unknown"}
SPECIFICATION FairSpec
PROPERTIES KeepsAsking ClientRecovered
