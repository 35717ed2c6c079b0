SPECIFICATION Spec
CONSTANTS
  RK8E = TRUE
  Fields = {0}
  Size = 2
  oneK_cnt = 0
  sw_dbnc = 1
  sd_delay = 1
  PressedKeys <- StoreKeys
  SRs <- TwoSettings
  SWs = {0, 1}
  Values <- TwoSettings
  DmaCells <- OneCell
  HoldsKeys = FALSE
  BreaksDuringKeys = FALSE
INVARIANTS TypeOK
PROPERTIES ImplementsStore BreakReadsWord
