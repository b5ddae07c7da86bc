SPECIFICATION Spec
CONSTANTS
  Process = {p1, p2}
  NumFiles = 2
  InitialFiles <- OneOfTwo
  MaxOps = 3
  MaxFaults = 2
INVARIANTS OverwrittenIsBackedUp SnapshotsWhole IntentBeforeCleanup
PROPERTIES ImplementsAtomicFiles ResolvedOnce
CHECK_DEADLOCK FALSE
SYMMETRY Symmetric
