SPECIFICATION FairSpec
CONSTANTS
  RK8E = TRUE
  Fields = {0}
  Size = 2
  oneK_cnt = 1
  sw_dbnc = 2
  sd_delay = 1
  PressedKeys <- OtherKeys
  SRs <- TwoSettings
  SWs = {0}
  Values <- TwoSettings
  DmaCells <- NoCells
  HoldsKeys = FALSE
  BreaksDuringKeys = FALSE
INVARIANTS DisplayShowsWord
PROPERTIES KeyCycleEnds LedForDebounceTime
