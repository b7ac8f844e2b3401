SPECIFICATION Spec
CONSTANTS
  Pems = {A, B, C}
  SecondTicks = 2
  MinuteTicks = 4
  MaximumMinutes = 5
  LastMinute = 7
  Drift = 2
  Starts <- WholeSeconds
  LastMoment = 20
  MaxKeys = 3
SYMMETRY Symmetric
CHECK_DEADLOCK FALSE
INVARIANT EdgesFindTheSigner
