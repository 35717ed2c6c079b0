SPECIFICATION Spec
CONSTANTS
  RK8E = TRUE
  Fields = {0}
  Size = 2
  oneK_cnt = 0
  sw_dbnc = 2
  sd_delay = 1
  PressedKeys <- DepositKeys
  SRs <- OneSetting
  SWs = {0}
  Values <- TwoSettings
  DmaCells <- OneCell
  HoldsKeys = FALSE
  BreaksDuringKeys = TRUE
PROPERTIES ImplementsStore
