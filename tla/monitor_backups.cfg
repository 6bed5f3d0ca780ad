SPECIFICATION Spec
CONSTANTS
  MaxRuns = 3
  MaxReboots = 2
  MaxFaults = 1
  Lines = 2
INVARIANT BackupIsToldAsItEnded
CHECK_DEADLOCK FALSE
