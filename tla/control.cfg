SPECIFICATION Spec
CONSTANTS
  EAE = FALSE
  RK8E = TRUE
  Program <- AllWords
  ACs <- SomeACs
  SRs <- SomeSRs
  HaltInEntry = FALSE
  StepInEntry = FALSE
INVARIANTS TypeOK UserModeInterruptible TrapPending BreakHandshake StopsBetweenInstructions
           EntryFlagLocal EntryContext
PROPERTIES UserModeIsolation TrapBeforeFetch SavedOnce ImplementsProgramInterrupt
