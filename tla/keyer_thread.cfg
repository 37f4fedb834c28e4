\* The keyer thread with its owner and its consumer.
CONSTANTS
  Configs <- OneConfig
  TICK = 2
  U32_MAX = 2
  DEBOUNCE = 2
  MAX_RECORDED_TRANSITIONS = 1
  Texts <- OneDit
  MAX_TEXT = 1
  LiveModeChange = TRUE
  CMD_CAP = 1
  OUT_CAP = 1
  MAX_BATCH = 2
  Delays <- SomeDelays
  Presses <- DitOnly
SPECIFICATION ThreadSpec
INVARIANTS InStep LastAbortWins ConsumerInSync
PROPERTIES PaddlesReadPerElement CallsReturn
