\* Four configurations, every character, polls at any moment, one clear.
CONSTANTS
  Configs <- SomeConfigs
  Texts <- SomeTexts
  Hands <- SomeHands
  Jitter <- OneTick
  Moments <- AtThresholds
  HISTORY_CAPACITY = 2
SPECIFICATION DecoderSpec
INVARIANTS DecodesWhatWasSent
PROPERTIES TextHeard
