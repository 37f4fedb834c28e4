\* Two addresses, two tasks, every echo mode.
CONSTANTS
  Addrs = {a1, a2}
  Ids = {t1, t2}
  NoTask = NoTask
  Freqs <- TwoFreqs
  InitFreq = 7
  max_clients = 2
  QUEUE_CAP = 1
  Frames <- SomeFrames
  Modes = {"Off", "Loop", "Live"}
SPECIFICATION ServerFairSpec
INVARIANTS ServerTypeOK RecordersAgree TasksReachable LoopCommitted
PROPERTIES AllReleased
