SPECIFICATION Spec
CONSTANTS
  Process = {p1, p2}
  NumFiles = 2
  InitialFiles <- OneOfTwo
  MaxOps = 2
  MaxFaults = 1
PROPERTY GateCreatesNoIntent
CHECK_DEADLOCK FALSE
