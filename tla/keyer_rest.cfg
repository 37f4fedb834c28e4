\* Every mode, switched at rest, texts one behind the other, ticking for ever.
CONSTANTS
  Configs <- EveryMode
  TICK = 2
  U32_MAX = 4
  DEBOUNCE = 4
  MAX_RECORDED_TRANSITIONS = 2
  Texts <- OneLetter
  MAX_TEXT = 5
  LiveModeChange = FALSE
  TIME_CAP = 9
  HANG = 3
SPECIFICATION TextFairSpec
INVARIANTS LinesAgree
PROPERTIES TimesKept ImplementsKeyLine ComesToRest TextsAreKeyed
