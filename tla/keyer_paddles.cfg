\* The iambic modes, paddles only, ticking for ever.
CONSTANTS
  Configs <- Iambic
  TICK = 2
  U32_MAX = 6
  DEBOUNCE = 4
  MAX_RECORDED_TRANSITIONS = 1
  Texts <- NoTexts
  MAX_TEXT = 0
  LiveModeChange = FALSE
  TIME_CAP = 11
  HANG = 3
SPECIFICATION TimedFairSpec
PROPERTIES GapKept NoPhantom LatchedIsSent
