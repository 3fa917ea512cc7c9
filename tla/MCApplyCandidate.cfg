\* Every system call may fail and the call may be interrupted or killed; another
\* process may change the tree once before the second validation.
CONSTANTS
  top = top
  deep = deep
  side = side
  up = up
  outer = outer
  inner = inner
  a = a
  b = b
  new = new
  rw = rw
  rx = rx
  Empty = Empty
  Data = {a, b, new, Empty}
  Mode = {rw, rx}
  DefaultMode = rw
  Path = {top, deep, side, up}
  Dir = {outer, inner}
  UnsafePath = {up}
  ParentsOf <- MCParentsOf
  Trees <- MCTrees
  Candidates <- MCCandidates
  MaxMeddle = 1
SPECIFICATION Spec
INVARIANT TypeOK
INVARIANT AllOrNothing
INVARIANT PrefixOfEdits
INVARIANT NoResidue
PROPERTY ImplementsAtomicApply
PROPERTY NothingStaleOverwritten
CHECK_DEADLOCK FALSE
