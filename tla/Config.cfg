\* Two commands over three nodes.
SPECIFICATION FileSpec
CONSTANTS
  n1 = n1
  n2 = n2
  n3 = n3
  Node = {n1, n2, n3}
  Mode = {"control", "delegate", "message", "all"}
  None = None
  Command = {p1, p2}
  Operation <- MCOperation
SYMMETRY CommandSymmetry
INVARIANTS FileSound RemovalsSucceed CycleCheckExact PermissionsGranted
PROPERTIES SerialImplementsStore
\* A file that was spoilt stays so until it is repaired by hand.
CHECK_DEADLOCK FALSE
