SPECIFICATION FairSpec
CONSTANTS
  EAE = TRUE
  RK8E = TRUE
  Program <- EAEWords
  ACs <- SomeACs
  SRs <- SomeSRs
  HaltInEntry = TRUE
  StepInEntry = TRUE
INVARIANTS Inv
PROPERTIES UserModeIsolation TrapBeforeFetch TrapServed
