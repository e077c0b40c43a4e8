\* Two reloads at once, one of three nodes behind a tunnel, one command at a time.
SPECIFICATION Spec
CONSTANTS
  a = a
  b = b
  c = c
  Node = {a, b, c}
  Mode = {}
  None = None
  Command = {p1}
  Operation <- MCOperation
  Handler = {h1, h2}
  Ssh = {a}
SYMMETRY HandlerSymmetry
INVARIANTS Converged EveryNodeDialed
CHECK_DEADLOCK FALSE
