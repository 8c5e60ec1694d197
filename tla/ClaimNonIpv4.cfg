\* Frames whose first address starts with the digit 4.
SPECIFICATION Spec
CONSTANTS
  InputFrames <- MCFrames
  MaxVisited = 12
INVARIANTS
  NonIpv4Skipped
CHECK_DEADLOCK FALSE
