\* One DDC, two bands to receive on; samples come in halves of a packet.
CONSTANTS
  TxFreqs = {}
  RxFreqs = {3500000}
  Rates = {48000}
  Drives = {128}
  Nddcs = {1}
  DefaultFreq = 7074000
  DefaultRate = 48000
  DefaultDrive = 128
  HermesLite = TRUE
  SUBFRAME = 63
  ROW_BYTES = 504
  RING_CAP = 126
  Blocks = {63}
  NET_CAP = 1
  MAX_FAULTS = 1
  Sockets = {"eth", "wlan"}
  Datagrams <- SomeDatagrams
  CHANNEL_CAP = 1
  MAX_ANSWERS = 3
SPECIFICATION SessionSpec
INVARIANTS SessionTypeOK NoZeroPad OneRotationTunes
PROPERTIES TunesAtLast DiscoverReturns
