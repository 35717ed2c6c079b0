SPECIFICATION BootSpec
CONSTANTS
  RK8E = TRUE
  Fields = {0}
  Size = 2
  oneK_cnt = 3
  sw_dbnc = 2
  sd_delay = 1
  PressedKeys = {}
  SRs <- TwoSettings
  SWs = {1}
  Values <- TwoSettings
  DmaCells <- NoCells
  HoldsKeys = FALSE
  BreaksDuringKeys = FALSE
  AS_RK8E = FALSE
  Script <- ShortScript
INVARIANTS BootCodeDeposited
