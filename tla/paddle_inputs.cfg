\* Two sources, every kind among them.
CONSTANTS
  a = a
  b = b
  Sources = {a, b}
  Setups <- SomeSetups
  Bindings <- BindingOf
  Wire <- WireOf
  MAX_ERRORS = 2
SPECIFICATION PaddleSpec
INVARIANTS PaddleTypeOK NoLostWake SnapshotsReal
PROPERTIES Settles ThreadsJoin
