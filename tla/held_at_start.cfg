\* A USB source whose paddle may be down when its thread begins.
CONSTANTS
  a = a
  b = b
  Sources = {a, b}
  Setups <- SomeSetups
  Bindings <- BindingOf
  Wire <- WireOf
  MAX_ERRORS = 2
SPECIFICATION PaddleSpec
INVARIANTS HeldIsReported
