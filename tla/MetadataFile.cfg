CONSTANTS
  Tracers = {t1, t2}
  NoTracer = NoTracer
  Names = {n1, n2, n3}
  Fields = {chmod, chown}
  Inodes = {1, 2, 3}
  MaxLinks = 3
CHECK_DEADLOCK FALSE
SPECIFICATION Spec
SYMMETRY Interchangeable
VIEW LiveView
INVARIANTS NoLostUpdate CountsNames ContentStays
