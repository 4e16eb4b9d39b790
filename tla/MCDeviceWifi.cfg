CONSTANTS
  Unit = 60000
  MaxGnrmc = 1
  MaxEvents = 1
  MaxLine = 1
  WifiInRange = TRUE
  Prompt = TRUE
  MayFallSilent = FALSE
  Answers = {"misplaced","position"}
SPECIFICATION Spec
INVARIANT TypeOK
