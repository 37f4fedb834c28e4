\* Every mode, switched at any moment, also while an element is keyed.
CONSTANTS
  Configs <- EveryModeFast
  TICK = 2
  U32_MAX = 4
  DEBOUNCE = 2
  MAX_RECORDED_TRANSITIONS = 1
  Texts <- OneElement
  MAX_TEXT = 1
  LiveModeChange = TRUE
  TIME_CAP = 7
  HANG = 3
SPECIFICATION TimedSpec
INVARIANTS TypeOK PttCoversKey
PROPERTIES HangRespected
