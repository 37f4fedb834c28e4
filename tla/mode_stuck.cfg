\* Straight key and iambic A, switched at any moment, ticking for ever.
CONSTANTS
  Configs <- StraightAndIambic
  TICK = 2
  U32_MAX = 6
  DEBOUNCE = 4
  MAX_RECORDED_TRANSITIONS = 1
  Texts <- NoTexts
  MAX_TEXT = 0
  LiveModeChange = TRUE
  TIME_CAP = 11
  HANG = 3
SPECIFICATION TimedFairSpec
PROPERTIES ComesToRest
