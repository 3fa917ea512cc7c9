\* Every system call may fail and the call may be interrupted or killed; nobody
\* else touches the tree.
CONSTANTS
  top = top
  deep = deep
  side = side
  up = up
  outer = outer
  inner = inner
  a = a
  b = b
  new = new
  rw = rw
  rx = rx
  Empty = Empty
  Data = {a, b, new, Empty}
  Mode = {rw, rx}
  DefaultMode = rw
  Path = {top, deep, side, up}
  Dir = {outer, inner}
  UnsafePath = {up}
  ParentsOf <- MCParentsOf
  Trees <- MCTrees
  Candidates <- MCCandidates
  MaxMeddle = 0
SPECIFICATION Spec
INVARIANT RestoredBeforeEscape
CHECK_DEADLOCK FALSE
