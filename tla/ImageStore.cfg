CONSTANTS
  Procs = {p1, p2}
  a = a
  b = b
  Layers = {a, b}
  Manifests <- TwoManifests
  Names = {n, dot_pocker_running}
  LOCKFILE_RUNNING = dot_pocker_running
SPECIFICATION Spec
SYMMETRY Interchangeable
VIEW LiveView
INVARIANTS IndexedTarsExist PullCompletes
