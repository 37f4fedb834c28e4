\* Sub-frames of three samples, blocks of two and four; one fault, one restart.
CONSTANTS
  ROUNDS = 3
  SPR = 3
  BlockSizes = {2, 4}
  HIGH_WATER = 2
  STATUS_CAP = 1
  IQ_CAP = 1
  NET_CAP = 2
  MAX_FAULTS = 1
  MAX_SESSION = 1
SPECIFICATION RxFairSpec
INVARIANTS RxTypeOK SeamsBetweenSubframes
PROPERTIES StatusOfOneRound StatusFlows
