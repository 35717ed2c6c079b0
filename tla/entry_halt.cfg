SPECIFICATION Spec
CONSTANTS
  EAE = FALSE
  RK8E = TRUE
  Program <- SomeWords
  ACs <- SomeACs
  SRs <- SomeSRs
  HaltInEntry = TRUE
  StepInEntry = FALSE
PROPERTIES SavedOnce
