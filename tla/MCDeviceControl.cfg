CONSTANTS
  Unit = 60000
  MaxGnrmc = 1
  MaxEvents = 0
  MaxLine = 2
  WifiInRange = FALSE
  Prompt = FALSE
  MayFallSilent = TRUE
  Answers = {"collectId"}
SPECIFICATION Spec
INVARIANTS Contiguous CreatedFirst Attended
