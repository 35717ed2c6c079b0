SPECIFICATION Spec
CONSTANTS
  EAE = FALSE
  RK8E = TRUE
  Program <- SomeWords
  ACs <- SomeACs
  SRs <- SomeSRs
  HaltInEntry = FALSE
  StepInEntry = TRUE
PROPERTIES SavedOnce
