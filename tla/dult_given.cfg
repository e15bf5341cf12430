SPECIFICATION Spec
CONSTANTS
  Shells = {uart, nus}
  QueueSize = 2
  ConfigLines <- TypedConfig
  SetLines <- TypedSet
  Runs <- TypedRuns
SYMMETRY ShellSymmetry
INVARIANTS
  OptionsAsAsked
